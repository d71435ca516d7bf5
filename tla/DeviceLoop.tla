------------------------------ MODULE DeviceLoop ------------------------------
(***************************************************************************)
(* The device between power-up and its probes (firmware/runtime.py and the *)
(* serial mode of src/vivipi/runtime/app.py): the startup with everything  *)
(* that may fail in it, the link and its reconnects, the probes of a tick  *)
(* one after the other with the gap between two of one host, and the       *)
(* hardware watchdog that must be fed through all of it.                   *)
(*                                                                         *)
(* Time is counted in slices: the sleeps of the loops, of the logo, of the *)
(* self test and of the link polls are one slice each.  All ages are       *)
(* capped at the value they are compared with.  DisplayLoop models what a  *)
(* tick draws and counts the ticks that raise, ProbeSession what a probe   *)
(* does, Panels what a draw does; here a probe is its name lookup, which   *)
(* feeds nobody, and its session, which feeds in every slice but for the   *)
(* reads of TELNET and the uping fallback of PING.                         *)
(***************************************************************************)
EXTENDS Integers, FiniteSets

CONSTANTS
  Checks,     \* the definitions of a good configuration
  HostOf,     \* probe_host_key of each
  None,       \* Python's None
  Due,        \* interval_s of the checks
  Gap,        \* same_host_backoff_ms, at least MIN_SAME_HOST_BACKOFF_MS
  Interval,   \* wifi.reconnect_interval_s
  ConnectT,   \* DEFAULT_WIFI_CONNECT_TIMEOUT_S
  LogoT,      \* boot_logo_duration_s
  TestT,      \* startup_self_test_s
  Watchdog,   \* WATCHDOG_MAX_TIMEOUT_MS, which both watchdogs come to
  Quiet,      \* checks whose sessions may end without a feed: TELNET, uping
  QuietT,     \* longest such end: 48 reads of 120 ms, three packets of 2 s
  LookupT,    \* longest name lookup (bound of the environment)
  SessionT,   \* longest time in which a session feeds (bound)
  MaxFaults   \* bound: faults of one startup

Attempts == 3   \* of connect_wifi

Hosts == {HostOf[c] : c \in Checks}

ASSUME TimesAssumption ==
  /\ {Due, Gap, Interval, ConnectT, SessionT} \subseteq Nat \ {0}
  /\ {LogoT, TestT, Watchdog, LookupT, QuietT, MaxFaults} \subseteq Nat
ASSUME ChecksAssumption ==
  /\ IsFiniteSet(Checks) /\ DOMAIN HostOf = Checks /\ Quiet \subseteq Checks
  /\ None \notin Checks /\ None \notin Int

VARIABLES
  config,       \* the stored configuration, and whether the board has a WDT
  phase,        \* where the program is
  family,       \* display_config["family"]
  panel,        \* the display that was built
  known,        \* the configuration was read
  reader,       \* there is a button reader
  defs,         \* app.definitions
  faults,       \* history: what failed since the power-up
  lines,        \* AppState.diagnostics, without their order
  mode,         \* AppState.mode
  link,         \* WLAN.isconnected()
  conn,         \* connect_wifi: who called it, its attempt and its deadlines
  waiting,      \* time left in the logo or the self test
  batch,        \* checks this tick has still to run
  cur,          \* the check that runs, or ran last in this tick
  stage,        \* where _execute_check_once is
  sinceStart,   \* age of last_started_at
  sinceDone,    \* age of last_completed_at_by_host
  sinceEnd,     \* history: time since a probe of the host ended
  sinceAttempt, \* age of last_network_reconnect_attempt_s
  armed,        \* the hardware watchdog runs
  unfed         \* time since it was fed

built == <<family, panel, known, reader, defs>>
report == <<faults, lines, mode>>
ages == <<sinceStart, sinceDone, sinceEnd, sinceAttempt>>
probe == <<batch, cur, stage>>
vars == <<config, phase, built, report, link, conn, waiting, probe, ages, armed, unfed>>

Smaller(a, b) == IF a < b THEN a ELSE b
Greater(a, b) == IF a > b THEN a ELSE b

Older(age, n, cap) == IF age = None THEN None ELSE Smaller(age + n, cap)

(* n slices pass; the link comes and goes as it likes.                     *)
Elapse(n) ==
  /\ sinceStart' = [c \in Checks |-> Older(sinceStart[c], n, Due)]
  /\ sinceDone' = [h \in Hosts |-> Older(sinceDone[h], n, Gap)]
  /\ sinceEnd' = [h \in Hosts |-> Older(sinceEnd[h], n, Gap)]
  /\ sinceAttempt' = Older(sinceAttempt, n, Interval)
  /\ link' \in BOOLEAN

(* n slices with the last feed before or in them, n slices without one.    *)
Fed(n) == unfed' = IF armed THEN n ELSE 0
FedByConnector == Fed(0)   \* before the connector and after it, also when it raises
Unfed(n) == unfed' = IF armed THEN unfed + n ELSE 0

Idle == [by |-> "none", attempt |-> 0, left |-> None, total |-> 0]
Asked(by) == [by |-> by, attempt |-> 0, left |-> None, total |-> ConnectT]
Never(S) == [x \in S |-> None]

(* read_wifi_state: the driver is asked, nothing is remembered.            *)
Online == link

Init ==
  /\ config \in [type : {"default", "other", "eink"}, wdt : BOOLEAN, selfTest : BOOLEAN]
  /\ phase = "config" /\ family = "oled" /\ panel = "none" /\ known = FALSE
  /\ reader = FALSE /\ defs = {} /\ faults = {} /\ lines = {} /\ mode = "overview"
  /\ link = FALSE /\ conn = Idle /\ waiting = 0
  /\ batch = {} /\ cur = None /\ stage = "choose"
  /\ sinceStart = Never(Checks) /\ sinceDone = Never(Hosts) /\ sinceEnd = Never(Hosts)
  /\ sinceAttempt = None /\ armed = FALSE /\ unfed = 0

-----------------------------------------------------------------------------
(* Startup: build_runtime_app_from_path, then run_forever.                 *)

Fails(events) ==
  /\ Cardinality(faults) < MaxFaults
  /\ faults' = faults \cup events
  /\ lines' = lines \cup events

Works == UNCHANGED <<faults, lines>>

(* inject_diagnostics: the screen with the lines, if there are any.        *)
ModeAfter(activate) == IF activate /\ lines' # {} THEN "diagnostics" ELSE mode

(* Without a configuration there are no checks, no link and a default      *)
(* display.                                                                *)
LoadConfig ==
  /\ phase = "config" /\ phase' = "display"
  /\ \/ known' = TRUE /\ Works
     \/ \E why \in {"missing", "json bad", "load failed"} :
          known' = FALSE /\ Fails({<<"CONF", why>>})
  /\ UNCHANGED <<config, family, panel, reader, defs, mode, link, conn, waiting,
                 probe, ages, armed, unfed>>

FamilyOf(type) == IF type = "eink" THEN "eink" ELSE "oled"

Builds(type) == /\ panel' = type /\ family' = FamilyOf(type)

(* _build_display_with_fallback; the mutant reports the last failure only. *)
FallbackForgets(type) ==
  \/ Builds(type) /\ Works
  \/ /\ type # "default"
     /\ Builds("default") /\ Fails({<<"DISP", "init failed">>, <<"DISP", "fallback">>})
  \/ /\ panel' = "headless" /\ family' = "oled"
     /\ Cardinality(faults) < MaxFaults
     /\ faults' = faults \cup {<<"DISP", "init failed">>, <<"DISP", "headless">>}
     /\ lines' = lines \cup {<<"DISP", "headless">>}

DisplayWithFallback(type) ==
  \/ Builds(type) /\ Works
  \/ /\ type # "default"
     /\ Builds("default") /\ Fails({<<"DISP", "init failed">>, <<"DISP", "fallback">>})
  \/ /\ panel' = "headless" /\ family' = "oled"
     /\ Fails({<<"DISP", "init failed">>, <<"DISP", "headless">>})

(* The bootstrap watchdog runs from here on. *)
BootstrapWatchdog == armed' = config.wdt /\ unfed' = 0

BuildDisplay ==
  /\ phase = "display" /\ phase' = "logo"
  /\ \/ DisplayWithFallback(IF known THEN config.type ELSE "default")
     \/ known /\ Builds("default") /\ Fails({<<"CONF", "display bad">>})
  /\ BootstrapWatchdog
  /\ UNCHANGED <<config, known, reader, defs, mode, link, conn, waiting, probe, ages>>

(* A headless display draws nothing and cannot fail.                       *)
SafeShowBootLogo ==
  \/ Works
  \/ panel # "headless" /\ Fails({<<"DISP", "boot failed">>})

(* An e-paper panel skips the logo. *)
ShowLogo ==
  /\ phase = "logo" /\ phase' = "reader"
  /\ IF family = "eink" THEN Works /\ UNCHANGED unfed ELSE SafeShowBootLogo /\ Fed(0)
  /\ UNCHANGED <<config, built, mode, link, conn, waiting, probe, ages, armed>>

BuildButtonReader ==
  /\ phase = "reader" /\ phase' = "checks"
  /\ \/ reader' = TRUE /\ Works
     \/ reader' = FALSE /\ Fails({<<"BTN", "init failed">>})
  /\ UNCHANGED <<config, family, panel, known, defs, mode, link, conn, waiting, probe,
                 ages, armed, unfed>>

SelfTestT == IF known /\ config.selfTest /\ reader THEN TestT ELSE 0

(* build_runtime_definitions: one bad item fails them all; the default     *)
(* configuration has none.                                                 *)
Configured == IF known THEN Checks ELSE {}

SafeBuildDefinitions ==
  \/ defs' = Configured /\ Works
  \/ known /\ defs' = {} /\ Fails({<<"CONF", "checks bad">>})

(* The definitions, then the runtime watchdog, which starts over.          *)
BuildChecks ==
  /\ phase = "checks" /\ phase' = "selftest"
  /\ SafeBuildDefinitions
  /\ unfed' = 0
  /\ waiting' = SelfTestT
  /\ UNCHANGED <<config, family, panel, known, reader, mode, link, conn, probe, ages, armed>>

(* One round of _run_button_self_test; a button ends it.                   *)
SelfTest ==
  /\ phase = "selftest" /\ waiting > 0
  /\ \/ waiting' = waiting - 1 /\ Elapse(1) /\ Fed(1)
     \/ waiting' = 0 /\ Fed(0) /\ UNCHANGED <<ages, link>>
  /\ UNCHANGED <<config, phase, built, report, conn, probe, armed>>

(* inject_diagnostics(activate=True): the screen shows what failed.        *)
BuildApp ==
  /\ phase = "selftest" /\ waiting = 0 /\ phase' = "network"
  /\ waiting' = IF family = "eink" THEN 0 ELSE LogoT
  /\ Fed(0)
  /\ Works /\ mode' = ModeAfter(TRUE)
  /\ UNCHANGED <<config, built, link, conn, probe, ages, armed>>

(* Nothing guards the draws of the self test and the settings the          *)
(* application is built from: the startup ends with the exception.         *)
StartupAborts ==
  /\ phase = "selftest"
  /\ phase' = "stopped"
  /\ UNCHANGED <<config, built, report, link, conn, waiting, probe, ages, armed, unfed>>

(* connect_network *)
ConnectNetwork ==
  /\ phase' = "connect" /\ conn' = Asked("startup")
  /\ FedByConnector

(* _run_startup_network                                                    *)
StartupNetwork ==
  /\ phase = "network"
  /\ IF Online THEN phase' = "bootwait" /\ UNCHANGED <<conn, unfed>> ELSE ConnectNetwork
  /\ UNCHANGED <<config, built, report, link, waiting, probe, ages, armed>>

(* _wait_for_boot_logo *)
WaitForBootLogo ==
  /\ phase = "bootwait" /\ waiting > 0
  /\ waiting' = waiting - 1 /\ Elapse(1) /\ Fed(1)
  /\ UNCHANGED <<config, phase, built, report, conn, probe, armed>>

Unstarted == {c \in defs : sinceStart[c] = None}
DueChecks == Unstarted \cup {c \in defs : sinceStart[c] # None /\ sinceStart[c] >= Due}

(* prime_due_checks on an OLED, the e-paper loop at once.                  *)
EnterLoop ==
  /\ phase = "bootwait" /\ waiting = 0
  /\ IF family = "eink"
     THEN phase' = "tick" /\ UNCHANGED <<batch, unfed>>
     ELSE phase' = "prime" /\ batch' = DueChecks /\ Fed(0)
  /\ UNCHANGED <<config, built, report, link, conn, waiting, cur, stage, ages, armed>>

-----------------------------------------------------------------------------
(* The link: connect_wifi and reconnect_wifi, which feed before and after. *)

After(by) == IF by = "startup" THEN "bootwait" ELSE IF by = "tick" THEN "run" ELSE "sleep"

(* append_diagnostic_lines: the screen has an event once.                  *)
WithLine(event) == lines \cup {event}

Connected ==
  /\ phase' = After(conn.by) /\ conn' = Idle
  /\ FedByConnector
  /\ UNCHANGED <<lines, mode, ages>>

(* No such network, or the driver raised, which reports to the log only.   *)
NotConnected ==
  /\ phase' = After(conn.by) /\ conn' = Idle
  /\ \/ /\ lines' = WithLine(<<"WIFI", IF known THEN "connect fail" ELSE "ssid missing">>)
        /\ mode' = ModeAfter(conn.by = "console")
     \/ UNCHANGED <<lines, mode>>
  /\ FedByConnector
  /\ UNCHANGED ages

Attempt ==
  /\ phase = "connect" /\ conn.left = None
  /\ known /\ ~link /\ conn.attempt < Attempts /\ conn.total > 0
  /\ conn' = [conn EXCEPT !.attempt = @ + 1,
                          !.left = Greater(1, conn.total \div (Attempts - conn.attempt))]
  /\ Fed(0)
  /\ UNCHANGED <<config, phase, built, report, link, waiting, probe, ages, armed>>

Poll ==
  /\ phase = "connect" /\ ~link /\ conn.left \notin {None, 0}
  /\ conn' = [conn EXCEPT !.left = @ - 1, !.total = Greater(0, @ - 1)]
  /\ Elapse(1) /\ Fed(1)
  /\ UNCHANGED <<config, phase, built, report, waiting, probe, armed>>

(* The attempt's time is over: wait, longer each time, for the next one.   *)
Backoff ==
  /\ phase = "connect" /\ ~link /\ conn.left = 0 /\ conn.attempt \in 1..(Attempts - 1)
  /\ conn.total > 0
  /\ LET n == 2 ^ (conn.attempt - 1) IN
       /\ conn' = [conn EXCEPT !.left = None, !.total = Greater(0, @ - n)]
       /\ Elapse(n) /\ Unfed(n)
  /\ UNCHANGED <<config, phase, built, report, waiting, probe, armed>>

ConnectReturns ==
  /\ phase = "connect"
  /\ IF link THEN Connected
     ELSE /\ \/ ~known
             \/ conn.left = 0 /\ conn.attempt = Attempts
             \/ conn.left \in {None, 0} /\ conn.total = 0
          /\ NotConnected
  /\ UNCHANGED <<config, built, faults, link, waiting, probe, armed>>

(* reconnect_wifi drops the link first and waits a slice.                  *)
Reconnect(by) ==
  /\ phase' = "connect" /\ link' = FALSE
  /\ conn' = Asked(by)

-----------------------------------------------------------------------------
(* A tick: the network, then the checks that were due when it began.       *)

(* The mutant attempts once only.                                          *)
NeverAttempted == sinceAttempt = None
IntervalOver == sinceAttempt = None \/ sinceAttempt >= Interval

(* _maybe_reconnect_network *)
CheckNetwork ==
  /\ phase \in {"first", "tick"}
  /\ batch' = IF phase = "first" THEN Unstarted ELSE DueChecks
  /\ IF ~Online /\ IntervalOver
     THEN /\ Reconnect("tick") /\ sinceAttempt' = 0
          /\ FedByConnector
          /\ UNCHANGED <<sinceStart, sinceDone, sinceEnd>>
     ELSE /\ phase' = "run" /\ Fed(0)
          /\ UNCHANGED <<conn, link, ages>>
  /\ UNCHANGED <<config, built, report, waiting, cur, stage, armed>>

SameHost == {c \in batch : cur # None /\ HostOf[c] = HostOf[cur]}

(* _wait_for_probe_slot *)
Remaining(c) ==
  IF sinceDone[HostOf[c]] = None THEN 0 ELSE Gap - sinceDone[HostOf[c]]

(* The checks of one host follow each other; the console has an order of   *)
(* its own, the definitions', which is any.                                *)
WaitForProbeSlot(c) ==
  /\ phase \in {"prime", "run", "console"} /\ stage = "choose" /\ c \in batch
  /\ IF phase = "console" THEN c = CHOOSE d \in batch : TRUE
     ELSE SameHost # {} => c \in SameHost
  /\ cur' = c /\ stage' = "start"
  /\ Elapse(Remaining(c)) /\ Unfed(Remaining(c))
  /\ UNCHANGED <<config, phase, built, report, conn, waiting, batch, armed>>

StartProbe ==
  /\ stage = "start" /\ stage' = "run"
  /\ sinceStart' = IF phase = "console" THEN sinceStart ELSE [sinceStart EXCEPT ![cur] = 0]
  /\ batch' = batch \ {cur}
  /\ UNCHANGED <<config, phase, built, report, link, conn, waiting, cur, sinceDone,
                 sinceEnd, sinceAttempt, armed, unfed>>

(* The name lookup, after which the probe may be over. *)
LookUp ==
  /\ stage = "run" /\ stage' \in {"session", "end"}
  /\ \E n \in 0..LookupT : Elapse(n) /\ Unfed(n)
  /\ UNCHANGED <<config, phase, built, report, conn, waiting, batch, cur, armed>>

QuietEnd(c) == IF c \in Quiet THEN QuietT ELSE 0

(* A session connects, sends and receives in slices that feed, if it has to*)
(* wait at all, and may end with reads that do not. The mutant's sessions  *)
(* wait without feeding.                                                   *)
SessionUnfed ==
  /\ stage = "session" /\ stage' = "end"
  /\ \E n \in 0..SessionT, quiet \in 0..QuietEnd(cur) : Elapse(n + quiet) /\ Unfed(n + quiet)
  /\ UNCHANGED <<config, phase, built, report, conn, waiting, batch, cur, armed>>

RunSession ==
  /\ stage = "session" /\ stage' = "end"
  /\ \E n \in 0..SessionT, quiet \in 0..QuietEnd(cur) :
       Elapse(n + quiet) /\ IF n = 0 THEN Unfed(quiet) ELSE Fed(1 + quiet)
  /\ UNCHANGED <<config, phase, built, report, conn, waiting, batch, cur, armed>>

(* _mark_probe_complete, after a result and after an exception; the mutant *)
(* forgets the exceptions.                                                 *)
MarkResultOnly(h) == sinceDone' \in {sinceDone, [sinceDone EXCEPT ![h] = 0]}
MarkProbeComplete(h) == sinceDone' = [sinceDone EXCEPT ![h] = 0]

ProbeEnds ==
  /\ stage = "end" /\ stage' = "choose"
  /\ MarkProbeComplete(HostOf[cur])
  /\ sinceEnd' = [sinceEnd EXCEPT ![HostOf[cur]] = 0]
  /\ cur' = IF batch = {} THEN None ELSE cur
  /\ UNCHANGED <<config, phase, built, report, link, conn, waiting, batch, sinceStart,
                 sinceAttempt, armed, unfed>>

(* prime_due_checks is over; the first tick repeats its time. *)
EndPrime ==
  /\ phase = "prime" /\ stage = "choose" /\ batch = {}
  /\ phase' = "first"
  /\ Fed(0)
  /\ UNCHANGED <<config, built, report, link, conn, waiting, probe, ages, armed>>

TickEnds ==
  /\ phase = "run" /\ stage = "choose" /\ batch = {}
  /\ phase' = "sleep"
  /\ Fed(0)
  /\ UNCHANGED <<config, built, report, link, conn, waiting, probe, ages, armed>>

Sleep ==
  /\ phase = "sleep" /\ phase' = "tick"
  /\ Elapse(1) /\ Fed(1)
  /\ UNCHANGED <<config, built, report, conn, waiting, probe, armed>>

-----------------------------------------------------------------------------
(* What may happen to the device.                                          *)

PowersUp ==
  /\ phase' = "config" /\ family' = "oled" /\ panel' = "none" /\ known' = FALSE
  /\ reader' = FALSE /\ defs' = {} /\ faults' = {} /\ lines' = {} /\ mode' = "overview"
  /\ link' = FALSE /\ conn' = Idle /\ waiting' = 0
  /\ batch' = {} /\ cur' = None /\ stage' = "choose"
  /\ sinceStart' = Never(Checks) /\ sinceDone' = Never(Hosts) /\ sinceEnd' = Never(Hosts)
  /\ sinceAttempt' = None /\ armed' = FALSE /\ unfed' = 0
  /\ UNCHANGED config

(* An exception out of the tick or the priming: the checks left are not    *)
(* run. The OLED loop goes on, or asks for a restart when it has seen too  *)
(* many (DisplayLoop); the e-paper loop has nothing that catches it.       *)
TickRaises ==
  /\ phase \in {"prime", "first", "tick", "run"} /\ stage = "choose"
  /\ batch' = {} /\ cur' = None /\ Fed(0)
  /\ phase' = IF family = "eink" THEN "stopped"
              ELSE IF phase = "prime" THEN "first" ELSE "sleep"
  /\ UNCHANGED <<config, built, report, link, conn, waiting, stage, ages, armed>>

RequestReset == phase = "sleep" /\ family = "oled" /\ armed /\ PowersUp

(* The program has stopped, or has not fed for too long. *)
WatchdogBites == (phase = "stopped" \/ unfed > Watchdog) /\ armed /\ PowersUp

LeaveDiagnostics ==
  /\ phase = "sleep" /\ reader /\ family = "oled" /\ mode = "diagnostics"
  /\ mode' = "overview"
  /\ UNCHANGED <<config, phase, built, faults, lines, link, conn, waiting, probe, ages,
                 armed, unfed>>

(* reset_runtime_state of the console: the hosts are forgotten too.        *)
ResetRuntimeState ==
  /\ phase = "sleep"
  /\ sinceStart' = Never(Checks) /\ sinceDone' = Never(Hosts) /\ sinceEnd' = Never(Hosts)
  /\ faults' = {} /\ lines' = {} /\ mode' = "overview"
  /\ UNCHANGED <<config, phase, built, link, conn, waiting, probe, sinceAttempt, armed,
                 unfed>>

(* reconnect_network of the console. *)
ReconnectNetwork ==
  /\ phase = "sleep"
  /\ Reconnect("console") /\ FedByConnector
  /\ UNCHANGED <<config, built, report, waiting, probe, ages, armed>>

(* run_all_checks of the console: every check once, whatever is due,       *)
(* and all of them started when the call was made.                         *)
RunAllChecks ==
  /\ phase = "sleep" /\ phase' = "console"
  /\ batch' = defs
  /\ sinceStart' = [c \in Checks |-> IF c \in defs THEN 0 ELSE sinceStart[c]]
  /\ UNCHANGED <<config, built, report, link, conn, waiting, cur, stage, sinceDone,
                 sinceEnd, sinceAttempt, armed, unfed>>

(* The sleep that the call came in is over too. *)
ConsoleReturns ==
  /\ phase = "console" /\ stage = "choose" /\ batch = {}
  /\ phase' = "tick"
  /\ Elapse(1) /\ Unfed(1)
  /\ UNCHANGED <<config, built, report, conn, waiting, probe, armed>>

Startup == \/ LoadConfig \/ BuildDisplay \/ ShowLogo \/ BuildButtonReader \/ BuildChecks
           \/ SelfTest \/ BuildApp \/ StartupNetwork \/ WaitForBootLogo \/ EnterLoop
Connect == Attempt \/ Poll \/ Backoff \/ ConnectReturns
Tick == \/ CheckNetwork \/ StartProbe \/ LookUp \/ RunSession \/ ProbeEnds
        \/ EndPrime \/ TickEnds \/ ConsoleReturns \/ Sleep
        \/ \E c \in Checks : WaitForProbeSlot(c)
Device == Startup \/ Connect \/ Tick
Console == LeaveDiagnostics \/ ResetRuntimeState \/ ReconnectNetwork \/ RunAllChecks

Next == Device \/ Console \/ StartupAborts \/ TickRaises \/ RequestReset \/ WatchdogBites

(* The program runs, and a tick that is tried again and again does not     *)
(* raise every time before it has looked at the network.                   *)
Fairness == WF_vars(Device) /\ SF_vars(CheckNetwork)

Spec == Init /\ [][Next]_vars /\ Fairness

-----------------------------------------------------------------------------
Loops == {"first", "tick", "run", "sleep", "console"}

Callers == {"none", "startup", "tick", "console"}
Connectors == [by : Callers, attempt : 0..Attempts,
               left : 0..ConnectT \cup {None}, total : 0..ConnectT]

TypeOK ==
  /\ phase \in {"config", "display", "logo", "reader", "checks", "selftest", "network",
                "connect", "bootwait", "prime", "stopped"} \cup Loops
  /\ family \in {"oled", "eink"} /\ {known, reader, link, armed} \subseteq BOOLEAN
  /\ batch \subseteq defs /\ defs \subseteq Checks /\ cur \in Checks \cup {None}
  /\ stage \in {"choose", "start", "run", "session", "end"}
  /\ stage # "choose" => cur # None /\ phase \in {"prime", "run", "console"}
  /\ conn \in Connectors /\ (conn.by = "none") = (phase # "connect")
  /\ sinceStart \in [Checks -> 0..Due \cup {None}]
  /\ {sinceDone, sinceEnd} \subseteq [Hosts -> 0..Gap \cup {None}]
  /\ unfed \in Nat

(* The longest time in which the probes of a set of checks may feed nobody:*)
(* each looks a name up and waits for its host, the quiet ones read too.   *)
Slot == LookupT + Gap
Load(S) == Cardinality(S) * Slot + Cardinality(S \cap Quiet) * QuietT

(* A batch and the sleep it interrupts, or a slice of an attempt to connect*)
(* and the wait for the next one.                                          *)
LongestUnfed == Greater(Load(Checks), 2 ^ (Attempts - 2)) + 1

(* docs/research/matrix-view/handover.md:209 "No watchdog resets with a     *)
(* target powered off": through the logo, the self test, a link that is     *)
(* down and the probes of a tick, the watchdog is left unfed for no longer  *)
(* than the lookups, gaps and quiet reads of one batch, however many slices *)
(* the sessions take.                                                       *)
FedInTime == TypeOK /\ (phase # "stopped" => unfed <= LongestUnfed)

(* docs/spec.md:379, same_host_backoff_ms: a probe starts no sooner than    *)
(* the gap after the last one of its host ended, whatever its outcome was,  *)
(* in the priming, in a tick and from one tick to the next.                 *)
GapIsKept ==
  [][ stage = "start" /\ stage' = "run"
        => sinceEnd[HostOf[cur]] \in {None, Gap} ]_vars

(* docs/spec.md:734 "Boot and rendering failures MUST degrade safely": a    *)
(* startup that reaches its loop has every failure on the diagnostics       *)
(* screen, which it activates.                                              *)
StartupIsReported ==
  /\ phase \in Loops \cup {"network", "connect", "bootwait", "prime"}
       => faults \subseteq lines
  /\ phase = "prime" /\ faults # {} => mode = "diagnostics"

(* docs/spec.md:713, _maybe_reconnect_network: a link that is down while    *)
(* the loop runs is connected again, or the attempt is made, or the device  *)
(* is on its way to a restart.                                              *)
OfflineIsRetried ==
  phase \in Loops /\ ~link ~> link \/ phase \in {"connect", "stopped", "config"}
=============================================================================
