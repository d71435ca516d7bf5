----------------------------- MODULE DisplayLoop -----------------------------
(***************************************************************************)
(* How results reach the panel: the OLED loop (run_loop and RuntimeApp.    *)
(* tick) and the e-paper loop (_run_eink_refresh_loop), with failing draws,*)
(* failing ticks, the runtime reset and the restart by the watchdog        *)
(* (firmware/runtime.py, src/vivipi/runtime/app.py).                       *)
(*                                                                         *)
(* The overview is abstracted to the status of every check and the slot of *)
(* the heartbeat, the diagnostics screen to the retry messages it lists.   *)
(* failures_to_degraded and successes_to_recover have their default 1. The *)
(* loops start after the boot logo, so render_once never meets it.         *)
(***************************************************************************)
EXTENDS Integers, Sequences, FiniteSets

CONSTANTS
  Checks,            \* the definitions
  None,              \* Python's None
  Torn,              \* a panel on which a draw was interrupted
  CyclesPerRefresh,  \* display_refresh.probe_cycles_per_refresh
  MinInterval,       \* display_refresh.min_interval_s
  RefreshInterval,   \* page_interval_s of an e-paper panel
  BackoffCap,        \* the 30 s of _display_retry_delay_s
  MaxDisplayFailures,\* MAX_CONSECUTIVE_DISPLAY_FAILURES
  MaxLoopFailures,   \* MAX_CONSECUTIVE_LOOP_FAILURES
  Slots,             \* bottom heartbeat: slots on the panel
  MaxTime,           \* bound: seconds
  MaxProbes,         \* bound: probes of a check
  MaxFailures        \* bound: consecutive failed draws

ASSUME ConstantsAssumption ==
  /\ IsFiniteSet(Checks) /\ Checks # {}
  /\ {CyclesPerRefresh, RefreshInterval, BackoffCap, MaxDisplayFailures,
      MaxLoopFailures, Slots} \subseteq Nat \ {0}
  /\ None \notin Int
  /\ {MinInterval, MaxTime, MaxProbes, MaxFailures} \subseteq Nat

VARIABLES
  config,        \* family, watchdog, heartbeat, failures_to_failed, visible_degraded
  now,           \* seconds
  status,        \* AppState.checks: the status of each
  reported,      \* registered_results: the status each probe reported
  mode,          \* AppState.mode
  lines,         \* AppState.diagnostics: the delays of the retry messages
  beat,          \* bottom_heartbeat_step, as the slot it lights
  completed,     \* completed_probe_counts
  pending,       \* pending_status_updates
  cycleStarted,  \* pending_status_cycle_started
  shown,         \* last_rendered_frame
  lastRenderAt,  \* last_render_at_s
  failures,      \* display_failure_count
  retryAt,       \* display_retry_at_s
  nextPeriodic,  \* next_periodic_refresh_s of the e-paper loop
  loopFailures,  \* consecutive_loop_failures of the OLED loop
  phase,         \* where the loop is
  panel,         \* what the glass shows
  behind         \* history: probes completed since the panel went out of date

state == <<status, reported, mode, lines>>
progress == <<beat, completed, pending, cycleStarted>>
drawn == <<shown, lastRenderAt, panel>>
display == <<failures, retryAt>>
vars == <<config, now, state, progress, drawn, display, nextPeriodic,
          loopFailures, phase, behind>>

Eink == config.family = "eink"

Least(S) == CHOOSE n \in S : \A m \in S : n <= m
Smaller(a, b) == IF a <= b THEN a ELSE b

(* visible_degraded: whether a degraded check is told from a failed one,   *)
(* on the OLED (_display_state) and on the e-paper panel.                  *)
DisplayStatus(s) == IF s = "DEG" /\ ~config.visible THEN "FAIL" ELSE s
DisplayState == [c \in Checks |-> DisplayStatus(status[c])]
SummaryChecks == [c \in Checks |-> DisplayStatus(status[c])]

Frame ==
  [screen |-> IF Eink THEN "summary" ELSE mode,
   rows |-> IF Eink THEN SummaryChecks ELSE IF mode = "diagnostics" THEN lines ELSE DisplayState,
   slot |-> IF config.heartbeat THEN beat ELSE 0]

(* render_once skips a frame it has drawn; the mutant compares rows only.  *)
SameRows == shown # None /\ Frame.rows = shown.rows
AlreadyDrawn == shown # None /\ Frame = shown

(* The e-paper loop skips a state change that leaves the text as it is.    *)
SameSummary == shown # None /\ SummaryChecks = shown.rows

CompletedCycles == Least({completed[c] : c \in Checks})

Fresh == [c \in Checks |-> "?"]
Zero == [c \in Checks |-> 0]

(* check_state.visible_degraded is TRUE unless the configuration says no.  *)
VisibleDegraded(setting) == setting = None \/ setting = TRUE

Init ==
  /\ config \in [family : {"oled", "eink"}, watchdog : BOOLEAN,
                 heartbeat : BOOLEAN, failuresToFailed : {1, 2},
                 visible : {VisibleDegraded(s) : s \in {None, TRUE, FALSE}}]
  /\ now = 0 /\ panel = None
  /\ status = Fresh /\ reported = Fresh /\ mode = "overview" /\ lines = <<>>
  /\ beat = 0 /\ completed = Zero /\ pending = {} /\ cycleStarted = None
  /\ shown = None /\ lastRenderAt = None
  /\ failures = 0 /\ retryAt = None
  /\ nextPeriodic = 0 /\ loopFailures = 0
  /\ phase = "step" /\ behind = Zero

-----------------------------------------------------------------------------
(* A probe's result reaches the state (_apply_completed_check).            *)

(* An answer shows as it was reported, a miss as often as it was repeated: *)
(* a reachable device (OK, DEG) resets the count of its misses.            *)
ProbeResults == {"OK", "DEG", "FAIL"}
NextStatus(c, result) ==
  IF result # "FAIL" \/ config.failuresToFailed = 1 \/ reported[c] = "FAIL"
  THEN result
  ELSE "DEG"

(* _track_status_transition compares what the probe itself reported, not   *)
(* the status that the thresholds make of it. The mutant takes an unknown   *)
(* status for a healthy one.                                                *)
Healthy(s) == IF s = "?" THEN "OK" ELSE s
OptimisticTransition(c, result) == Healthy(reported[c]) # result
IsTransition(c, result) == reported[c] # result

(* The cycle a change waits for starts before its own probe completed; the  *)
(* mutant counts from after it.                                             *)
CycleAfterProbe(c) ==
  Least({IF d = c THEN completed[d] + 1 ELSE completed[d] : d \in Checks})
CycleBeforeProbe(c) == CompletedCycles

IsBehind == shown # None /\ ~SameSummary

BehindAfter(c) ==
  IF ~IsBehind' THEN Zero
  ELSE LET before == IF IsBehind THEN behind ELSE Zero IN
       [before EXCEPT ![c] = Smaller(CyclesPerRefresh, @ + 1)]

ApplyResult(c, result) ==
  /\ phase = "step" /\ completed[c] < MaxProbes
  /\ status' = [status EXCEPT ![c] = NextStatus(c, result)]
  /\ reported' = [reported EXCEPT ![c] = result]
  /\ completed' = [completed EXCEPT ![c] = @ + 1]
  /\ beat' = IF config.heartbeat THEN (beat + 1) % Slots ELSE beat
  /\ IF IsTransition(c, result)
     THEN /\ pending' = pending \cup {c}
          /\ cycleStarted' = IF cycleStarted = None THEN CycleBeforeProbe(c)
                             ELSE cycleStarted
     ELSE UNCHANGED <<pending, cycleStarted>>
  \* _render_probe_progress
  /\ phase' = IF config.heartbeat /\ ~Eink THEN "progress" ELSE "step"
  /\ UNCHANGED <<config, now, mode, lines, drawn, display, nextPeriodic, loopFailures>>
  /\ behind' = IF Eink THEN BehindAfter(c) ELSE behind

(* A button leaves the diagnostics screen; the e-paper loop reads none.    *)
LeaveDiagnostics ==
  /\ phase = "step" /\ ~Eink /\ mode = "diagnostics"
  /\ mode' = "overview"
  /\ UNCHANGED <<config, now, status, reported, lines, progress, drawn,
                 display, nextPeriodic, loopFailures, phase, behind>>

-----------------------------------------------------------------------------
(* Drawing. A draw that raises may leave the panel half written.           *)

RetryDelay(count) == Smaller(BackoffCap, 2 ^ (count - 1))

(* append_diagnostic_lines moves a repeated message to the end.            *)
WithLine(delay) == Append(SelectSeq(lines, LAMBDA d : d # delay), delay)

(* _record_display_failure *)
DrawFails ==
  /\ failures < MaxFailures
  /\ failures' = failures + 1
  /\ retryAt' = now + RetryDelay(failures')
  /\ lines' = WithLine(RetryDelay(failures')) /\ mode' = "diagnostics"
  /\ panel' \in {panel, Torn}
  /\ UNCHANGED <<status, reported, progress, shown, lastRenderAt, behind>>

(* _log_display_propagation *)
Propagated == pending' = {} /\ cycleStarted' = None

(* _reset_display_failure_state *)
DisplayRecovers == failures' = 0 /\ retryAt' = None

DrawSucceeds ==
  /\ panel' = Frame /\ shown' = Frame
  /\ lastRenderAt' = now
  /\ DisplayRecovers
  /\ Propagated
  /\ behind' = Zero
  /\ UNCHANGED <<state, beat, completed>>

Draw == DrawSucceeds \/ DrawFails

InBackoff == retryAt # None /\ now < retryAt

NothingDrawn == UNCHANGED <<state, progress, drawn, display, behind>>

RenderOnce == IF AlreadyDrawn \/ InBackoff THEN NothingDrawn ELSE Draw

RenderProgress ==
  /\ phase = "progress" /\ RenderOnce
  /\ phase' = "step"
  /\ UNCHANGED <<config, now, nextPeriodic, loopFailures>>

-----------------------------------------------------------------------------
(* The OLED loop. *)

(* What a restart and reset_runtime_state both forget. *)
Forget ==
  /\ status' = Fresh /\ reported' = Fresh /\ mode' = "overview" /\ lines' = <<>>
  /\ beat' = 0 /\ completed' = Zero /\ pending' = {} /\ cycleStarted' = None
  /\ shown' = None /\ failures' = 0 /\ retryAt' = None
  /\ behind' = Zero

Render ==
  /\ phase = "step" /\ ~Eink /\ RenderOnce
  /\ phase' = "done"
  /\ UNCHANGED <<config, now, nextPeriodic, loopFailures>>

(* The device restarts: the glass keeps its picture, the rest is lost.     *)
Restart ==
  /\ Forget
  /\ lastRenderAt' = None
  /\ nextPeriodic' = now /\ loopFailures' = 0
  /\ phase' = "step"
  /\ UNCHANGED <<config, now, panel>>

DisplayGaveUp == failures >= MaxDisplayFailures

TickEnds ==
  /\ phase = "done"
  /\ IF DisplayGaveUp /\ config.watchdog
     THEN Restart
     ELSE /\ loopFailures' = 0 /\ phase' = "sleep"
          /\ UNCHANGED <<config, now, state, progress, drawn, display,
                         nextPeriodic, behind>>

(* An exception out of the tick, before or after it rendered. *)
TickRaises ==
  /\ phase \in {"step", "done"} /\ ~Eink
  /\ IF loopFailures + 1 >= MaxLoopFailures /\ config.watchdog
     THEN Restart
     ELSE /\ loopFailures' = Smaller(loopFailures + 1, MaxLoopFailures)
          /\ phase' = "sleep"
          /\ UNCHANGED <<config, now, state, progress, drawn, display,
                         nextPeriodic, behind>>

-----------------------------------------------------------------------------
(* The e-paper loop. *)

(* _eink_refresh_policy *)
Policy == [cycles |-> CyclesPerRefresh, interval |-> MinInterval]

(* _eink_state_refresh_ready; the mutant ignores the minimum interval. *)
ReadyByCycles == cycleStarted # None => CompletedCycles >= cycleStarted + Policy.cycles

StateRefreshReady ==
  /\ cycleStarted # None => CompletedCycles >= cycleStarted + Policy.cycles
  /\ \/ lastRenderAt = None
     \/ now >= lastRenderAt + (IF cycleStarted = None THEN 0 ELSE Policy.interval)

RefreshReason ==
  IF shown = None THEN "startup"
  ELSE IF pending # {} THEN IF StateRefreshReady THEN "state" ELSE "none"
  ELSE IF now >= nextPeriodic THEN "periodic" ELSE "none"

(* _render_eink_summary_frame *)
RefreshPanel(reason) ==
  IF reason = "state" /\ SameSummary
  THEN Propagated /\ UNCHANGED <<state, beat, completed, drawn, display, behind>>
  ELSE IF reason # "state" /\ AlreadyDrawn THEN NothingDrawn ELSE Draw

Refresh ==
  /\ phase = "step" /\ Eink
  /\ phase' = "sleep"
  /\ IF RefreshReason = "none" \/ InBackoff
     THEN NothingDrawn /\ UNCHANGED nextPeriodic
     ELSE RefreshPanel(RefreshReason) /\ nextPeriodic' = now + RefreshInterval
  /\ UNCHANGED <<config, now, loopFailures>>

(* Nothing in this loop catches an exception of the step: it ends, and the *)
(* watchdog, if there is one, is not fed any more.                         *)
StepRaises ==
  /\ phase = "step" /\ Eink
  /\ phase' = "stopped"
  /\ UNCHANGED <<config, now, state, progress, drawn, display, nextPeriodic,
                 loopFailures, behind>>

WatchdogBites == phase = "stopped" /\ config.watchdog /\ Restart

-----------------------------------------------------------------------------
(* Between iterations. *)

Sleep ==
  /\ phase = "sleep" /\ phase' = "step"
  /\ now' \in {now, Smaller(now + 1, MaxTime)}
  /\ UNCHANGED <<config, state, progress, drawn, display, nextPeriodic,
                 loopFailures, behind>>

(* reset_runtime_state, called from the console between iterations.        *)
ResetRuntimeState ==
  /\ phase = "sleep"
  /\ Forget
  /\ UNCHANGED <<config, now, lastRenderAt, panel, nextPeriodic,
                 loopFailures, phase>>

Results == \E c \in Checks, result \in ProbeResults : ApplyResult(c, result)
OledNext == LeaveDiagnostics \/ RenderProgress \/ Render \/ TickEnds \/ TickRaises
EinkNext == Refresh \/ StepRaises \/ WatchdogBites
Next == Results \/ OledNext \/ EinkNext \/ Sleep \/ ResetRuntimeState

Spec == Init /\ [][Next]_vars

-----------------------------------------------------------------------------
TypeOK ==
  /\ status \in [Checks -> {"?", "OK", "DEG", "FAIL"}]
  /\ reported \in [Checks -> {"?", "OK", "DEG", "FAIL"}]
  /\ mode \in {"overview", "diagnostics"}
  /\ beat \in 0..(Slots - 1)
  /\ completed \in [Checks -> 0..MaxProbes]
  /\ pending \subseteq Checks /\ (pending = {}) = (cycleStarted = None)
  /\ phase \in {"step", "progress", "done", "sleep", "stopped"}
  /\ (failures = 0) = (retryAt = None)
  /\ behind \in [Checks -> 0..CyclesPerRefresh]

(* docs/spec.md:739, render_once: when a tick of the OLED loop ends and no  *)
(* draw is waiting for its retry, the glass shows the current frame,        *)
(* whatever resets, failed draws and progress renders came before.          *)
PanelIsCurrent == TypeOK /\ (phase = "done" /\ retryAt = None => panel = Frame)

(* The panel shows a status as the probe reported it: the thresholds make   *)
(* no miss degraded, or the degraded are not told from the failed.          *)
AsReported == config.failuresToFailed = 1 \/ ~config.visible

(* docs/spec.md:526 "the next refresh MUST render the latest visible        *)
(* summary state instead of waiting for the periodic refresh interval":     *)
(* the e-paper loop knows of every change the panel does not show, as long  *)
(* as the panel shows what the probes report.                               *)
ChangeIsKnown == Eink /\ AsReported /\ IsBehind => pending # {}

(* docs/spec.md:526: a panel is out of date no longer than its gates are    *)
(* closed. Once every check has completed the configured cycles since the   *)
(* panel went out of date and the interval is over, the refresh of that     *)
(* iteration draws, or has failed and waits for its retry.                  *)
GatesOpen ==
  /\ \A c \in Checks : behind[c] >= CyclesPerRefresh
  /\ lastRenderAt # None => now >= lastRenderAt + MinInterval

StaleOnlyWhileGated ==
  Eink /\ AsReported /\ phase = "sleep" /\ IsBehind
    => ~GatesOpen \/ retryAt # None

(* docs/spec.md:525: summary changes coalesce until the minimum interval    *)
(* is over. A refresh that shows a change the loop knows of comes no sooner *)
(* than that after the last; any other comes no sooner than the period,     *)
(* whatever draws failed or were found unnecessary in between. The first    *)
(* frame after a start or a reset does not wait.                            *)
RefreshesAreSpaced ==
  [][ Eink /\ shown # None /\ panel' \notin {panel, Torn}
        => now >= lastRenderAt
                    + (IF pending # {} THEN MinInterval ELSE RefreshInterval) ]_vars
=============================================================================
