---------------------------- MODULE ButtonReader ----------------------------
(***************************************************************************)
(* One button of firmware/input.py: edges of the pin run the interrupt     *)
(* handler, the main loop polls. Both work on the same dictionary, and the *)
(* handler may run between any two statements of the poll.                 *)
(*                                                                         *)
(* Pin values are abstracted to pressed or not, time to small units; the   *)
(* handler runs at the edge. press_emitted is written but never read.      *)
(***************************************************************************)
EXTENDS Integers

CONSTANTS
  Never,     \* Python's None, a time that is not set
  Debounce,  \* debounce_ms
  Repeat,    \* repeat_ms
  MaxTime    \* bound: units of time

ASSUME ButtonAssumption ==
  /\ Debounce \in Nat \ {0} /\ Repeat \in Nat \ {0}
  /\ MaxTime \in Nat /\ Never \notin Int

VARIABLES
  irq,      \* when the handler runs: "none", "between" or "inside" polls
  button,   \* "A" repeats while it is held, "B" does not
  now,      \* ticks_ms
  level,    \* the pin
  raw, rawAt,   \* raw_value, raw_changed_ms
  stable,   \* stable_value
  since,    \* pressed_since_ms
  queued,   \* pending_presses
  steps,    \* emitted_steps
  pc,       \* where the poll is
  pollNow, sample, \* its now_ms and raw_value
  pressedAt,\* history: when the pin was last pressed
  seenAt,   \* history: the first poll that saw the pin pressed since then
  owed      \* history: steps due for all finished presses, less those emitted

wiring == <<irq, button>>
pin == <<level, pressedAt>>
button_state == <<raw, rawAt, stable, since, queued, steps>>
poll == <<pc, pollNow, sample>>
buttonVars == <<wiring, now, pin, button_state, poll, seenAt, owed>>

ButtonInit ==
  /\ irq \in {"none", "between", "inside"} /\ button \in {"A", "B"}
  /\ now = 0
  /\ level = FALSE /\ raw = FALSE /\ rawAt = 0 /\ stable = FALSE
  /\ since = Never /\ queued = 0 /\ steps = 0
  /\ pc = "idle" /\ pollNow = 0 /\ sample = FALSE
  /\ pressedAt = Never /\ seenAt = Never /\ owed = 0

(* InputController.step_count *)
StepCount(held) ==
  IF held < Debounce THEN 0
  ELSE IF button = "A" THEN 1 + (held - Debounce) \div Repeat ELSE 1

(* How many steps a press that started at t is worth at the time of the    *)
(* poll or of the handler.                                                 *)
Target(t, at) == StepCount(IF at > t THEN at - t ELSE 0)

(* _queue_due_steps for the press that started at t. *)
QueueDue(t, at) ==
  IF Target(t, at) > steps
  THEN queued' = queued + Target(t, at) - steps /\ steps' = Target(t, at)
  ELSE UNCHANGED <<queued, steps>>

(* _update_raw_transition *)
RawTransition(value, at) ==
  IF value = raw THEN UNCHANGED <<raw, rawAt>> ELSE raw' = value /\ rawAt' = at

(* _update_press_state; the mutant keeps the steps of the press before. *)
PressKeepsSteps(pressed, at) ==
  IF pressed
  THEN IF since = Never THEN since' = at /\ UNCHANGED <<steps, queued>>
       ELSE UNCHANGED <<since, steps, queued>>
  ELSE IF since = Never THEN UNCHANGED <<since, steps, queued>>
       ELSE QueueDue(since, at) /\ since' = Never

PressState(pressed, at) ==
  IF pressed
  THEN IF since = Never THEN since' = at /\ steps' = 0 /\ UNCHANGED queued
       ELSE UNCHANGED <<since, steps, queued>>
  ELSE IF since = Never THEN UNCHANGED <<since, steps, queued>>
       ELSE QueueDue(since, at) /\ since' = Never

-----------------------------------------------------------------------------
(* The finger and the interrupt handler (_capture_irq). *)

HandlerRuns == irq = "inside" \/ (irq = "between" /\ pc = "idle")

Edge ==
  /\ irq = "none" \/ HandlerRuns
  /\ level' = ~level
  /\ IF level
     THEN owed' = owed + StepCount(now - pressedAt) /\ pressedAt' = Never
     ELSE pressedAt' = now /\ UNCHANGED owed
  /\ seenAt' = Never
  /\ IF irq = "none" THEN UNCHANGED button_state
     ELSE RawTransition(level', now) /\ PressState(level', now) /\ UNCHANGED stable
  /\ UNCHANGED <<wiring, now, poll>>

TimePasses ==
  /\ now < MaxTime /\ now' = now + 1
  /\ irq = "between" => pc = "idle"
  /\ UNCHANGED <<wiring, pin, button_state, poll, seenAt, owed>>

-----------------------------------------------------------------------------
(* The poll, cut where the handler reads or writes what it does. *)

StartPoll ==
  /\ pc = "idle" /\ pc' = "sample"
  /\ pollNow' = now
  /\ UNCHANGED <<wiring, now, pin, button_state, sample, seenAt, owed>>

ReadPin ==
  /\ pc = "sample" /\ pc' = "raw"
  /\ sample' = level
  /\ seenAt' = IF level /\ seenAt = Never THEN now ELSE seenAt
  /\ UNCHANGED <<wiring, now, pin, button_state, pollNow, owed>>

NoteTransition ==
  /\ pc = "raw" /\ pc' = "debounce"
  /\ RawTransition(sample, pollNow)
  /\ UNCHANGED <<wiring, now, pin, stable, since, queued, steps, pollNow,
                 sample, seenAt, owed>>

(* The mutant waits for one unit more. *)
SettledLate == pollNow - rawAt > Debounce
Settled == pollNow - rawAt >= Debounce

Debouncing ==
  /\ pc = "debounce"
  /\ pc' = IF sample = stable THEN "queue" ELSE IF Settled THEN "settle" ELSE "done"
  /\ UNCHANGED <<wiring, now, pin, button_state, pollNow, sample, seenAt, owed>>

Settle ==
  /\ pc = "settle" /\ pc' = "queue"
  /\ stable' = sample
  /\ IF sample THEN since' = rawAt /\ steps' = 0 /\ UNCHANGED queued
     ELSE PressState(FALSE, pollNow)
  /\ UNCHANGED <<wiring, now, pin, raw, rawAt, pollNow, sample, seenAt, owed>>

(* _queue_live_press_if_due *)
QueueLive ==
  /\ pc = "queue" /\ pc' = "drain"
  /\ IF stable /\ since # Never THEN QueueDue(since, pollNow)
     ELSE UNCHANGED <<queued, steps>>
  /\ UNCHANGED <<wiring, now, pin, raw, rawAt, stable, since, pollNow, sample,
                 seenAt, owed>>

(* _drain_pending_presses and _reset_press_tracking_if_idle.                *)
Emit ==
  /\ pc = "drain" /\ queued > 0
  /\ queued' = queued - 1 /\ owed' = owed - 1
  /\ UNCHANGED <<wiring, now, pin, raw, rawAt, stable, since, steps, poll, seenAt>>

Drained ==
  /\ pc = "drain" /\ queued = 0
  /\ pc' = "done"
  /\ steps' = IF since = Never THEN 0 ELSE steps
  /\ UNCHANGED <<wiring, now, pin, raw, rawAt, stable, since, queued, pollNow,
                 sample, seenAt, owed>>

EndPoll ==
  /\ pc = "done" /\ pc' = "idle"
  /\ UNCHANGED <<wiring, now, pin, button_state, pollNow, sample, seenAt, owed>>

Poll == StartPoll \/ ReadPin \/ NoteTransition \/ Debouncing \/ Settle
          \/ QueueLive \/ Emit \/ Drained \/ EndPoll
ButtonNext == Edge \/ TimePasses \/ Poll

ButtonSpec == ButtonInit /\ [][ButtonNext]_buttonVars

-----------------------------------------------------------------------------
Times == 0..MaxTime

ButtonTypeOK ==
  /\ {level, raw, stable, sample} \subseteq BOOLEAN
  /\ {rawAt, pollNow} \subseteq Times /\ {since, pressedAt, seenAt} \subseteq Times \cup {Never}
  /\ queued \in Nat /\ steps \in Nat /\ owed \in Int
  /\ pc \in {"idle", "sample", "raw", "debounce", "settle", "queue", "drain", "done"}

Held == IF level THEN StepCount(now - pressedAt) ELSE 0

(* docs/reference.md:49-51: "debounced with a 20-50 ms window", "repeats    *)
(* every 500 ms", "single-step only". While no edge falls into a poll, the  *)
(* steps emitted and queued for all presses are those their durations are   *)
(* worth: none is lost however late the poll, and none is counted twice.    *)
StepsMatchHold ==
  /\ ButtonTypeOK
  /\ irq = "between" /\ pc = "idle"
       => IF level THEN queued <= owed + Held ELSE queued = owed

(* A press that one poll saw and that still lasts at a poll the debounce    *)
(* time later has been reported by the end of that poll, whatever edges     *)
(* came in between the statements of the polls.                             *)
HeldPressIsReported ==
  pc = "done" /\ level /\ seenAt # Never /\ pollNow - seenAt >= Debounce
    => steps >= 1 /\ queued = 0
=============================================================================
