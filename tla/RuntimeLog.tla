------------------------------- MODULE RuntimeLog ------------------------------
(***************************************************************************)
(* What the device tells about itself (core/logging.py, runtime/syslog.py, *)
(* runtime/state.py and the logging of runtime/app.py): lines of a level   *)
(* into a ring of fixed size and, where a host is known, to a syslog       *)
(* server that may be out of reach; error records; and for each check the  *)
(* last result as the console's snapshot shows it.                         *)
(*                                                                         *)
(* A line is its kind with the check and the status it names.  The device  *)
(* runs its probes in the main loop, so everything a step logs is one      *)
(* step here; time is counted in slices of the clock the sink is given.    *)
(***************************************************************************)
EXTENDS RingBuffer, FiniteSets, SequencesExt

CONSTANTS
  Checks,
  Configs,          \* what the settings say of syslog, see Host
  AliasOf,          \* wifi.host_aliases
  Details,          \* details of results
  LogCapacity,      \* DEFAULT_LOG_BUFFER_CAPACITY
  ErrorCapacity,    \* of error_records
  SummaryInterval,  \* summary_log_interval
  Retry,            \* retry_interval_s
  MaxNow, MaxOps    \* bounds

Debug == 10  Info == 20  Warn == 30  Error == 40
Levels == {Debug, Info, Warn, Error}
Shown == {"OK", "DEG", "FAIL", "?"}   \* statuses of the snapshot

(* UdpSyslogSink: its socket, _warned and _next_retry_at_s. *)
Sinks == [open : BOOLEAN, warned : BOOLEAN, retryAt : Nat]

ASSUME RuntimeLogAssumption ==
  /\ {LogCapacity, ErrorCapacity, SummaryInterval} \subseteq Nat \ {0}
  /\ {Retry, MaxNow, MaxOps} \subseteq Nat
  /\ IsFiniteSet(Checks)
  /\ None \notin Checks \cup Details \cup Shown \cup {"pending", "exception"}
  /\ None \notin Int /\ None \notin Sinks

VARIABLES
  config, booted,
  ring,        \* logger.buffer
  level,       \* logger.level
  base, debug, \* base_log_level, debug_mode
  sink,        \* the UdpSyslogSink, or None: open, warned, retryAt
  link,        \* the way to the server: "up", "noroute" or "nodns"
  now,
  results,     \* registered_results: status and details
  lastError,   \* last_error_by_check
  signatures,  \* _last_result_signatures
  runs,        \* _check_log_counts
  errors,      \* error_records
  pending,     \* pending_status_updates
  failures,    \* display_failure_count, up to 1
  hushed,      \* history: a check's last change was at a level above WARN
  upSince,     \* history: when the way to the server last became free
  silentAt,    \* history: when a line last failed to reach the server
  ops

log == <<ring, sink, silentAt>>
table == <<results, lastError, signatures, runs, pending, hushed>>
logVars == <<config, booted, level, base, debug, link, now, errors, failures, upSince, ops, log, table>>

-----------------------------------------------------------------------------
(* resolve_syslog_config: the configured host, else the service's, else    *)
(* the first check of a type that has one; on unless it is switched off.   *)

Aliased(host) == IF host \in DOMAIN AliasOf THEN AliasOf[host] ELSE host

Host(c, targets) ==
  LET named == SelectSeq(<<c.explicit, c.base>> \o targets, LAMBDA h : h # None)
  IN  IF named = <<>> THEN None ELSE Aliased(Head(named))

HasSink(c, targets) == c.enabled # "off" /\ Host(c, targets) # None

FreshSink == [open |-> FALSE, warned |-> FALSE, retryAt |-> 0]

-----------------------------------------------------------------------------
(* A line on its way. *)

Note(kind) == [kind |-> kind, id |-> None, status |-> None]
About(kind, c, status) == [kind |-> kind, id |-> c, status |-> status]
At(lv, line) == [level |-> lv, line |-> line]
Unavailable == Note("unavailable")

(* UdpSyslogSink.emit.  An open socket needs no name lookup.  The mutant   *)
(* counts the retry time from the last line it held back.                  *)
Reaches(s) == link = "up" \/ (link = "nodns" /\ s.open)

SendHoldsBack(s) ==
  IF now < s.retryAt THEN [sink |-> [s EXCEPT !.retryAt = now + Retry], told |-> FALSE, warns |-> FALSE]
  ELSE IF Reaches(s) THEN [sink |-> [s EXCEPT !.open = TRUE], told |-> TRUE, warns |-> FALSE]
  ELSE [sink |-> [open |-> FALSE, warned |-> TRUE, retryAt |-> now + Retry], told |-> FALSE, warns |-> ~ s.warned]

Deliver(s) ==
  IF now < s.retryAt THEN [sink |-> s, told |-> FALSE, warns |-> FALSE]
  ELSE IF Reaches(s) THEN [sink |-> [s EXCEPT !.open = TRUE], told |-> TRUE, warns |-> FALSE]
  ELSE [sink |-> [open |-> FALSE, warned |-> TRUE, retryAt |-> now + Retry], told |-> FALSE, warns |-> ~ s.warned]

(* StructuredLogger.emit with the sink of _compose_runtime_log_sink.       *)
Emit(t, lv, line) ==
  IF lv < t.level THEN t
  ELSE IF t.sink = None THEN [t EXCEPT !.ring = RingAppend(t.ring, line)]
  ELSE LET d == Deliver(t.sink)
           kept == RingAppend(t.ring, line)
       IN  [t EXCEPT !.ring = IF d.warns THEN RingAppend(kept, Unavailable) ELSE kept,
                     !.sink = d.sink,
                     !.silentAt = IF d.told THEN t.silentAt ELSE now]

(* The logger after a sequence of lines. *)
Emitted(t, lines) ==
  LET after[i \in 0 .. Len(lines)] ==
        IF i = 0 THEN t ELSE Emit(after[i - 1], lines[i].level, lines[i].line)
  IN  after[Len(lines)]

Leaves(t) == ring' = t.ring /\ sink' = t.sink /\ silentAt' = t.silentAt

Logger(s, lv) == [ring |-> ring, sink |-> s, silentAt |-> silentAt, level |-> lv]

Logged(lines, lv) == Leaves(Emitted(Logger(sink, lv), lines))

(* _record_exception. *)
ExceptionLines(c) == <<At(Error, About("exception", c, IF c = None THEN None ELSE "FAIL"))>>
Recorded(scope) == errors' = RingAppend(errors, scope)

-----------------------------------------------------------------------------

NoTimes(x) == [c \in Checks |-> x]
Pending == [status |-> "?", details |-> "pending"]

LogInit ==
  /\ config \in Configs /\ booted = FALSE
  /\ ring = NewRing(LogCapacity) /\ errors = NewRing(ErrorCapacity)
  /\ level = Info /\ base = Info /\ debug = FALSE
  /\ sink = IF HasSink(config, <<>>) THEN FreshSink ELSE None
  /\ link \in {"up", "noroute", "nodns"} /\ now = 0 /\ upSince = 0 /\ silentAt = None
  /\ results = NoTimes(Pending) /\ lastError = NoTimes(None) /\ signatures = NoTimes(None)
  /\ runs = NoTimes(0) /\ pending = NoTimes(None) /\ hushed = NoTimes(FALSE)
  /\ failures = 0 /\ ops = 0

Free == UNCHANGED <<config, booted, level, base, debug, link, now, errors, failures, upSince, ops>>
Works == booted /\ ops < MaxOps /\ ops' = ops + 1 /\ UNCHANGED <<config, booted, link, now, upSince>>

(* _serial_log: before the runtime is ready its lines go to the console    *)
(* and to the sink, but not into the ring.                                 *)
SerialLine ==
  /\ ~ booted /\ sink # None
  /\ LET d == Deliver(sink)
     IN  sink' = d.sink /\ silentAt' = IF d.told THEN silentAt ELSE now
  /\ UNCHANGED <<ring, table>> /\ Free

(* The end of build_runtime_app: a sink if the boot had none, then         *)
(* configure_observability and what was collected while starting.  The     *)
(* settings are not read again.                                            *)
Ready ==
  /\ ~ booted /\ booted' = TRUE
  /\ \E failed \in BOOLEAN :
       LET s == IF sink = None /\ HasSink(config, config.targets) THEN FreshSink ELSE sink
           lines == <<At(Info, Note("boot"))>>
                    \o (IF failed THEN ExceptionLines(None) \o <<At(Warn, Note("diagnostic"))>> ELSE <<>>)
       IN  /\ Leaves(Emitted(Logger(s, level), lines))
           /\ IF failed THEN Recorded("startup") ELSE UNCHANGED errors
  /\ config' = None
  /\ UNCHANGED <<level, base, debug, link, now, failures, upSince, ops, table>>

-----------------------------------------------------------------------------
(* A probe's result. *)

(* _track_status_transition; the mutant keeps quiet about recoveries.      *)
TransitionsToFailure(c, previous, current) ==
  IF previous = current \/ current = "OK" THEN <<>> ELSE <<At(Warn, About("transition", c, current))>>

TransitionLines(c, previous, current) ==
  IF previous = current THEN <<>> ELSE <<At(Warn, About("transition", c, current))>>

Tracked(c, current) ==
  /\ pending' = IF results[c].status = current THEN pending ELSE [pending EXCEPT ![c] = current]
  /\ hushed' = IF results[c].status = current THEN hushed ELSE [hushed EXCEPT ![c] = level > Warn]

SummaryDue(c, signature, manual) ==
  \/ manual \/ signature.status # "OK" \/ debug
  \/ signatures[c] # signature \/ runs[c] = 0 \/ (runs[c] + 1) % SummaryInterval = 0

ResultLines(c, signature, manual) ==
  LET s == signature.status
  IN  (IF SummaryDue(c, signature, manual) THEN <<At(Info, About("run", c, s))>> ELSE <<>>)
      \o (IF s # "OK" THEN <<At(IF s = "FAIL" THEN Error ELSE Warn, About("failure", c, s))>>
          ELSE IF manual \/ signatures[c] # signature THEN <<At(Debug, About("steady", c, s))>> ELSE <<>>)

(* The line of the executor's trace, _log_probe_trace. *)
TraceLines(c, signature) == <<At(Info, About("probe-end", c, signature.status))>>

(* What a probe may return; without an observation of the check it counts  *)
(* as "?" and its details as pending.                                      *)
Outcomes == {Pending} \cup [status : {"OK", "DEG", "FAIL"}, details : Details]

(* _apply_completed_check of a result, with _record_result. *)
ProbeEnds(c, signature, manual) ==
  /\ Works
  /\ Logged((IF signature = Pending THEN <<>> ELSE TraceLines(c, signature))
            \o ResultLines(c, signature, manual)
            \o TransitionLines(c, results[c].status, signature.status), level)
  /\ results' = [results EXCEPT ![c] = signature]
  /\ lastError' = [lastError EXCEPT ![c] = IF signature.status = "OK" THEN None ELSE signature.details]
  /\ runs' = [runs EXCEPT ![c] = @ + 1]
  /\ signatures' = [signatures EXCEPT ![c] = signature]
  /\ Tracked(c, signature.status)
  /\ UNCHANGED <<level, base, debug, errors, failures>>

(* The same of a probe that raised. *)
ProbeRaises(c) ==
  /\ Works
  /\ Logged(<<At(Warn, About("probe-error", c, None))>> \o ExceptionLines(c)
            \o TransitionLines(c, results[c].status, "FAIL"), level)
  /\ results' = [results EXCEPT ![c] = [status |-> "FAIL", details |-> "executor exception"]]
  /\ lastError' = [lastError EXCEPT ![c] = "exception"]
  /\ Recorded("check") /\ Tracked(c, "FAIL")
  /\ UNCHANGED <<level, base, debug, failures, runs, signatures>>

-----------------------------------------------------------------------------
(* The rest of what is logged. *)

(* A draw that succeeds: _reset_display_failure_state, _log_liveness_state *)
(* of a heartbeat that may have moved, _log_display_propagation.           *)
PropagationLines ==
  LET waiting == {c \in Checks : pending[c] # None}
  IN  SetToSeq({At(Info, About("propagation", c, pending[c])) : c \in waiting})

Drawn(moved) ==
  /\ Works
  /\ Logged((IF failures > 0 THEN <<At(Warn, Note("recovered"))>> ELSE <<>>)
            \o (IF moved THEN <<At(Info, Note("liveness"))>> ELSE <<>>) \o PropagationLines, level)
  /\ failures' = 0 /\ pending' = NoTimes(None)
  /\ UNCHANGED <<level, base, debug, errors, results, lastError, signatures, runs, hushed>>

DrawFails ==
  /\ Works
  /\ Logged(ExceptionLines(None) \o <<At(Warn, Note("diagnostic")), At(Error, Note("draw-failed"))>>, level)
  /\ Recorded("display") /\ failures' = 1
  /\ UNCHANGED <<level, base, debug, table>>

(* _drain_network_operation and _refresh_network_state: connected, not     *)
(* connected with diagnostics, or an exception.                            *)
NetworkResult(outcome) ==
  /\ Works
  /\ Logged(CASE outcome = "connected" -> <<At(Info, Note("connected"))>>
              [] outcome = "failed" -> <<At(Warn, Note("diagnostic")), At(Warn, Note("connect-failed"))>>
              [] outcome = "raised" -> ExceptionLines(None) \o <<At(Warn, Note("connect-failed"))>>, level)
  /\ IF outcome = "raised" THEN Recorded("network") ELSE UNCHANGED errors
  /\ UNCHANGED <<level, base, debug, failures, table>>

(* A button event, _apply_button_events. *)
Press(changed) ==
  /\ Works
  /\ Logged(<<At(Info, Note("press")), IF changed THEN At(Info, Note("action")) ELSE At(Debug, Note("noop"))>>, level)
  /\ UNCHANGED <<level, base, debug, errors, failures, table>>

-----------------------------------------------------------------------------
(* The console: runtime/control.py. *)

SetLogLevel(lv) ==
  /\ Works /\ base' = lv /\ level' = IF debug THEN level ELSE lv
  /\ UNCHANGED <<debug, errors, failures, log, table>>

SetDebugMode(enabled) ==
  /\ Works /\ debug' = enabled /\ level' = IF enabled THEN Debug ELSE base
  /\ Logged(<<At(Info, Note("debug-mode"))>>, level')
  /\ UNCHANGED <<base, errors, failures, table>>

(* reset_runtime_state; the ring keeps its lines. *)
ResetState ==
  /\ Works
  /\ Logged(<<At(Info, Note("reset"))>>, level)
  /\ results' = NoTimes(Pending) /\ lastError' = NoTimes(None) /\ signatures' = NoTimes(None)
  /\ runs' = NoTimes(0) /\ pending' = NoTimes(None) /\ hushed' = NoTimes(TRUE)
  /\ errors' = NewRing(ErrorCapacity) /\ failures' = 0
  /\ UNCHANGED <<level, base, debug>>

(* Time and the network. *)
Tick ==
  /\ now < MaxNow /\ now' = now + 1
  /\ UNCHANGED <<config, booted, level, base, debug, link, errors, failures, upSince, ops, log, table>>

LinkChanges ==
  /\ \E l \in {"up", "noroute", "nodns"} \ {link} :
       link' = l /\ upSince' = IF l = "up" THEN now ELSE upSince
  /\ UNCHANGED <<config, booted, level, base, debug, now, errors, failures, ops, log, table>>

LogNext ==
  \/ SerialLine \/ Ready
  \/ \E c \in Checks, o \in Outcomes, manual \in BOOLEAN : ProbeEnds(c, o, manual)
  \/ \E c \in Checks : ProbeRaises(c)
  \/ \E moved \in BOOLEAN : Drawn(moved)
  \/ DrawFails
  \/ \E o \in {"connected", "failed", "raised"} : NetworkResult(o)
  \/ \E changed \in BOOLEAN : Press(changed)
  \/ \E lv \in Levels : SetLogLevel(lv)
  \/ \E enabled \in BOOLEAN : SetDebugMode(enabled)
  \/ ResetState \/ Tick \/ LinkChanges

LogSpec == LogInit /\ [][LogNext]_logVars

-----------------------------------------------------------------------------

Kinds == {"boot", "unavailable", "diagnostic", "exception", "probe-end", "probe-error", "run", "failure", "steady",
          "transition", "propagation", "recovered", "liveness", "draw-failed", "connected", "connect-failed",
          "press", "action", "noop", "debug-mode", "reset"}

Lines == [kind : Kinds, id : Checks \cup {None}, status : Shown \cup {None}]

LogTypeOK ==
  /\ IsRing(ring, LogCapacity, Lines) /\ IsRing(errors, ErrorCapacity, {"startup", "check", "display", "network"})
  /\ level \in Levels /\ base \in Levels /\ debug \in BOOLEAN /\ (debug => level = Debug)
  /\ sink = None \/ (sink \in Sinks /\ sink.retryAt <= MaxNow + Retry)
  /\ link \in {"up", "noroute", "nodns"} /\ now \in 0 .. MaxNow /\ upSince \in 0 .. now
  /\ silentAt \in 0 .. now \cup {None}
  /\ results \in [Checks -> [status : Shown, details : Details \cup {"pending", "executor exception"}]]
  /\ pending \in [Checks -> Shown \cup {None}]

(* The places, in a dump of the log, of the newest line about a check that *)
(* names its status: one or none.                                          *)
Tells(line, c) == line.id = c /\ line.status # None

Newest(items, c) ==
  {i \in DOMAIN items : Tells(items[i], c) /\ \A j \in DOMAIN items : j > i => ~ Tells(items[j], c)}

(* Someone who dumps the log and looks for the newest line about a check   *)
(* that names its status reads the status its last result had, whatever    *)
(* was held back: summaries of unchanged results, lines below the level,   *)
(* lines the ring has already lost.  Above level WARN a change may go      *)
(* unsaid.  And the error shown beside a check is there exactly when its   *)
(* last result was not OK (_record_result, _track_status_transition,       *)
(* _log_display_propagation, RingBuffer).                                  *)
DumpTellsStatus ==
  /\ LogTypeOK
  /\ \A c \in Checks :
       /\ ~ hushed[c] => \A i \in Newest(AllItems(ring), c) : AllItems(ring)[i].status = results[c].status
       /\ lastError[c] = None <=> results[c].status = "OK" \/ (results[c] = Pending /\ runs[c] = 0)

(* The server misses lines only while it is out of reach and for one retry *)
(* interval after that, however many lines are held back meanwhile; and    *)
(* the log complains of it at most once (UdpSyslogSink.emit,               *)
(* docs/spec.md:688).                                                      *)
SilenceIsShort ==
  /\ sink # None /\ link = "up" /\ silentAt # None => silentAt <= upSince \/ silentAt < upSince + Retry
  /\ \A i, j \in DOMAIN AllItems(ring) :
       AllItems(ring)[i] = Unavailable /\ AllItems(ring)[j] = Unavailable => i = j
=============================================================================
