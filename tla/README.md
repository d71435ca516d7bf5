# ViviPi in TLA+

ViviPi is a small monitor for a home network. A Raspberry Pi Pico W probes a
handful of devices and services (PING, HTTP, FTP, TELNET, the DMA and IDENT
ports of a C64 Ultimate, and SERVICE endpoints that report checks of their own),
turns the results into a table of OK, DEG and FAIL, and shows it on an OLED, LCD
or e-paper panel. Two buttons move through the table.

This directory models the parts of that program in which order, time, failure or
concurrency decide whether the panel tells the truth. Every definition is
translated from the source and `PROJECT.json` names the lines it stands for.

* [The system](#the-system)
* [The modules](#the-modules)
* [The runs](#the-runs)
* [Bounds](#bounds)
* [Fairness](#fairness)
* [Proofs](#proofs)
* [Where the code and its documents disagree](#where-the-code-and-its-documents-disagree)
* [What is not modelled](#what-is-not-modelled)
* [What is left](#what-is-left)

Paths below are relative to the repository; `app.py`, `checks.py` and
`syslog.py` are in `src/vivipi/runtime/`, `state.py`, `execution.py`,
`scheduler.py`, `vivipulse.py` and `input.py` in `src/vivipi/core/` unless
`firmware/` is named.

## The system

| component | state it keeps | operations | correct when |
|---|---|---|---|
| probe workers (`app.py`) | queue per worker key, registered keys, in-flight ids, completed results, threads | a step drains results and queues due checks; a refresh queues all; workers take, probe, release, report, retire; a fault abandons a worker; a reset clears everything | probes of one key do not overlap, a check is queued once, no result is lost, no check is stranded, every due check is probed |
| probe sessions (`checks.py`) | deadline, socket-operation budget, sockets, the reply under way | resolve, connect address by address, send, receive, close, per protocol | every socket is closed, the probe ends in time and feeds the watchdog, an outage means the peer was not reached, a good peer is OK |
| check table (`state.py`, `execution.py`, `services/schema.py`) | status, failure and success counters and source per row | apply one observation, integrate one run, replace a service's rows, reset | a status changes after exactly as many observations as the thresholds ask for; children follow the latest poll |
| selection and pages (`state.py`, `input.py`, `app.py`) | selected check, screen, page | buttons A and B, results, page rotation, diagnostics | the selection exists and is visible, and nobody but the user moves it |
| display loops (`firmware/runtime.py`, `app.py`) | last frame drawn, retry time, failure counts, pending transitions, cycle counters | results, render, failed draw and its retry, periodic and state refresh, reset, restart | the glass shows the state, or a retry or a gate explains why not yet |
| button reader (`firmware/input.py`) | raw and stable level, press start, steps emitted and queued | interrupt handler, poll | a press is worth the steps its duration is worth |
| startup (`firmware/runtime.py`) | what was built and what failed, the hardware watchdog | load, build the display, the reader and the checks, show the logo, test the buttons, connect | it reaches its loop without the watchdog, and every failure is on the screen |
| serial pacing (`app.py`, `scheduler.py`) | last start per check, last completion per host | wait for a slot, probe, mark complete | the gap between probes of one host is kept, the watchdog is fed |
| network link (`app.py`, `firmware/runtime.py`) | last attempt, its deadlines | connect, reconnect | a lost link is tried again |
| logging and syslog (`core/logging.py`, `core/ring_buffer.py`, `syslog.py`) | ring of lines, socket, retry time | append, dump, emit | the latest lines are kept in order, a dead sink is left alone and tried again |
| host probe runner (`core/vivipulse.py`) | sequence, blocked hosts, failure boundaries | pass over host groups, record, recover | a host that failed is not probed again before it recovered |
| rendering (`core/render.py`, `text.py`, `shift.py`, `liveness.py`) | none that outlives a frame | render a page | with the drivers: the glass is the picture of the checks |
| drivers (`firmware/displays/`) | buffers, the controller's window and pointer, BUSY | paint, pack, transfer, refresh, sleep | as above, whatever broke off before; the watchdog is fed |
| configuration, tooling, ADB service, shims | none | parse, build, deploy, answer | sequential or stateless |

How they interact:

```
 finger -> pin -> interrupt handler --\
                                       ButtonReader.poll -> step()
 clock -> due_checks -> queue -> worker -> probe session -> completed results
                                                               |
 reset, refresh (serial prompt) -> RuntimeApp       drain -> check table
                                                               |
       selection and page <- with_checks, page rotation <------+
                |                                              |
              frame -> render_once / e-paper refresh -> draw_frame -> glass
                                      \-> failures, retry -> restart (watchdog)
```

The workers and the main loop share the queues, sets and lists under
`background_lock`. The interrupt handler and the poll share a dictionary without
any lock. Probes feed the watchdog through a callback. Everything else runs in
the main loop, one call after another, and the hard part there is the order of
presses, results, page turns, failed draws and resets.

On the device `_force_serial_probe_execution` (`firmware/runtime.py:235-240`)
turns the workers off: probes run in the main loop, which is what DeviceLoop,
DisplayLoop and RuntimeLog assume. The worker machinery is what runs with
`background_workers_enabled`, the default of `RuntimeApp`, on a host or on a board
with threads.

The modules meet at a few steps: a probe of DeviceLoop (a lookup and a session) is a
behaviour of ProbeSession; its result is a step of CheckTable, of DisplayLoop and of
RuntimeLog; a tick of DeviceLoop is an iteration of DisplayLoop, whose draws are
Panels' behaviours of a frame that Frames lays out for a page that Navigation chose.

What is hard here, by component, is the list of hazards in `PROJECT.json`: each
names a line, what may go wrong at it, and the properties that would notice, or
why none does yet.

## The modules

A component has a module with its state and actions, its properties in the same
module or in one called `...Props`, a small `MC...` module with the values of its
instance, and, where something is proved, a module called `...Proofs` that extends it.
`ResultsProofs` (CheckTable and RuntimeLog) and `NavigationProofs` (Navigation and
ButtonReader) each extend two, which is why RuntimeLog and ButtonReader name their state
and specification after themselves; Panels does too.
Modules about which theorems are proved have no RECURSIVE operator.
Definitions whose comment calls them a mutant are the code with a plausible
mistake; they belong to no specification and show that a property can fail.

### ProbeWorkers, ProbeWorkersProps, ProbeLifecycle

`due` is the set of checks for which `due_checks` would answer yes. `pending`,
`active`, `inflight` and `completed` are the four shared collections of the same
name. A runner is a thread or the main loop, when no thread can be started and
`_drain_worker_synchronously` makes it the worker; `pc`, `key` and `job` are a
runner's place in `_background_worker` and `_process_pending_check`, its worker
key and the run in its hand. `main`, `caller`, `batch` and `spawn` are the main
loop's place in `step`, `_run_due_checks` and `_queue_check`.

Every section of the code under `background_lock` is one action, so is every
write outside it: the release of the in-flight slot and the report of the result
are two sections of the code and two actions here. `WorkerFaults` is an exception
outside the probe, which `_abandon_worker` handles. `Reset` is
`reset_runtime_state`, between two steps, while workers are anywhere. `owed` is a
history variable: the accepted runs whose result was not applied yet.

`ProbeLifecycle` is the promise: a check is idle, waiting or probing, accepted
only when idle, and probes of one key exclude each other. `ProbeWorkersProps`
maps the queues and runners to these phases and states as a PROPERTY that the
workers implement the life cycle.

### ProbeSession, ProbeSessionProps

One probe on the path the device takes: sockets without blocking, a deadline, a
budget of socket operations, and waits cut into slices between which the watchdog
is fed. `pc` is the place in the runner, `want` the operation a `_socket_wait` is
for, `step` the exchange under way. The protocols are tables: which exchange
follows which answer (`DmaMoves`, `FtpMoves`) and which answers end a probe well
(`GoodEnds`). The peer is part of the model: it answers each command with all or a
part of a reply, rightly or wrongly, in pieces cut anywhere, late or not at all,
and may close or reset. `reached` and `honest` record what it really did.

TELNET has its own loop (`_read_telnet_until_idle`), which reads without the
sliced wait; PING and IDENT receive datagrams, some of them stray. Time passes
only where the code blocks, and a tick is a fraction of a slice.

`board` and `traced` choose the runner. Under CPython and without a trace, HTTP, FTP
and TELNET block in `http.client`, `ftplib` and `create_connection` (`Library`): their
calls have a timeout each, and HTTP and FTP neither a deadline nor a budget over the
whole probe; TELNET keeps both. PING runs the `ping` command there, and `uping` on a
board without raw sockets, which sends three packets and does not feed. Left out: the
2 ms pauses between retries, a clock that stands still, and the blocking connect of
a socket that cannot be made non-blocking (`checks.py:1109-1113`), which neither stack
has. A connect that is reported as in progress costs at least one tick, a host is
assumed to have `poll`, and the stack reports ETIMEDOUT only from a call that blocked.

### CheckTable

`rows` is the table, a function from the ids present to status, counters and
source. `Applied` is `apply_observation`, `Integrate` is `integrate_observations`
with the replacement of a source's rows, and the actions are the kinds of result
`execute_check` and the runtime feed to it: a direct probe, a poll that answers, a
poll that fails, an executor that raises, a reset. `misses`, `hits` and `reported`
record what was observed. `DistinctIds` names what the derivation of child ids
does not enforce.

### Navigation, NavigationProps

One step of `RuntimeApp.step`: any number of presses (`InputController.apply`),
any number of results (`with_checks`), one page rotation, one frame. Checks are
integers in the order of their names, so pages and positions are cardinalities.
`displayMode` and `paging` are configuration and never change. `want`, `steady`
and `tour` record what the last press selected, whether the displayed rows stayed
as they were, and which details were shown since the About page.

### DisplayLoop

Both loops of the firmware over one state: `run_loop` with `tick` and
`render_once` for OLED and LCD panels, `_run_eink_refresh_loop` for e-paper. A
frame is the status of the checks or the list of retry messages, with the slot of
the heartbeat. A draw succeeds, or raises and leaves the panel as it was or torn.
Pending transitions and cycle counters are `_track_status_transition` and
`completed_probe_cycles`; the gates are `_eink_state_refresh_ready`. A probe reports
OK, DEG or FAIL, and a FAIL below the threshold is drawn as DEG. With
`visible_degraded` off a degraded check is drawn as a failed one. A tick may
raise; enough failures in a row restart the device, which keeps only the glass.

### ButtonReader

One button, with the interrupt handler and the poll cut where one reads or writes what
the other does too, and the handler at any of the cuts (`irq = "inside"`), only between
polls, or absent. Statements that share nothing with the handler are one action: the
counting of queued steps (`firmware/input.py:143-149`), the end of a settled transition
(`:217-223`) and the decrement (`:182`). The other button shares nothing with it.

### DeviceLoop

The device from power-up to its probes. `phase` is the place in
`build_runtime_app_from_path`, `run_forever` and `run_loop`; each part of the startup
(`LoadConfig` to `StartupNetwork`) may fail where the code catches it, `StartupAborts`
where it does not. `conn` is `connect_wifi` with its attempts and deadlines, whoever
called it. A tick looks at the network, then runs the checks that were due when it
began: `WaitForProbeSlot`, `StartProbe`, `LookUp`, `RunSession`, `ProbeEnds`, grouped by
host. A session feeds the watchdog as it goes, or it is quiet: the reads of TELNET and
`uping` feed nothing, for up to `QuietT`. The console may reset, reconnect or run all
checks between two iterations, and the watchdog bites in any phase once it is starved.

Time is counted in slices and every action says how many pass and whether the watchdog
is fed in them: `Fed(n)` for the loops that feed before they sleep, `Unfed(n)` for a
gap, a backoff or a name lookup. `sinceEnd` is the history that the gap is measured by;
`sinceDone` is what the code remembers. The runtime's watchdog timeout is computed from
the checks' timeouts but always cut to the 8388 ms of the chip, so there is one
`Watchdog`.

### HostProbeRunner

`vivipulse` on a host: passes, duration runs and the search over profiles. `groups`,
`todo` and `open` are the host groups and their checks, each possibly in a thread; `pc`
is each check's place in `_run_definition`. The trace is kept per host, since no two
hosts share an event; a pause is a step without a length; what is due in a duration run
is any set of checks, and a pass has the one order that every profile of the tool has,
network-light-first. A transport failure after a success becomes a boundary, a boundary
blocks its host, and an operator who is asked may resume them. In the instance an
exception stands for protocol failures too, which block as little; a thread that finds
its host blocked between the filter and its start dies of a RuntimeError nobody reads
(`vivipulse.py:593`), and so does a check of it here.

### Frames, Panels

`Frames` is `render_frame` as operators: a row is a sequence of symbols, a span a
stretch of one. `Panels` paints a frame into a surface, packs it for the panel's driver, and
sends it as a list of operations (`OpsOf`): commands, data, waits, feeds, pauses. The
controller is external: it is awake or not, has a window, a pointer and an address order,
and its memory. `BusFails` may break a transfer off at any operation; the next draw meets
what was left. The glass is `SeenAt`, the polarity and wiring that the drivers' comments and
constants imply.

The mono driver has a set-up for each model, and so has the model: the 2.13 and 2.9 inch
set order, window and pointer (`"2in13"`); the 2.7 V2 resets twice, sets its rows and their
pointer and keeps the columns of its reset, which are taken for those of its panel
(`"2in7v2"`); the 3.7 sets no pointer and keeps the one of its reset (`"3in7"`); the first
4.2 has its order and its window from the panel setting and the resolution (`"4in2"`). The
fill commands of the 3.7 (0x46, 0x47), whose memory the picture overwrites, are their waits.

Two models use one command for two purposes. The first 2.7 loads a waveform table with 0x24
(`waveshare_epaper_mono.py:375`) and then sends its picture with 0x24 (`:502`); the second
4.2 is reset with 0x12 (`:468`) and refreshed with 0x12 (`:534`), and its picture goes to
0x13 as on the first. In the model a command means to a controller what it means in the
set-up, so the first does not get its picture and the second is reset instead of refreshed:
`Misread` holds these two, `GlassShowsState` and the theorems about pictures leave them
out, and `PictureIsShown` is violated with either of them alone in `Kinds`.

Left out: the contrast and brightness commands, voltages and waveforms, the micro pixel of
the unused per-row liveness, the feedback overlay, and the set-up that precedes a picture
that raises. A write to the bus takes no time: of the feeds of the three-colour 2.13-inch
driver those in its wait and before its pause are tested, not those between its pages. A
matrix page drops targets beyond `page_size - 1`.

### RuntimeLog, RingBuffer

`RingBuffer` is the array with its next place and its count. `RuntimeLog` is every line
the main loop logs, by kind, level, check and status, through the level, the ring and the
syslog sink that the settings give it, with `link` the way to the server. `results`,
`signatures`, `runs` and `lastError` are the maps of the same purpose in `app.py`. A step
may log several lines: `Emitted` is the logger after each of them, a function over the
lines of the step. `SilenceIsShort` allows a retry interval of 0, which the code does: a
line may then fail in the very moment the server is back.

## The runs

| run | what it asks | answer |
|---|---|---|
| ProbeWorkers | Do workers, refreshes, thread shortage and faults keep probes of a key apart, each check queued once and each result applied once? Do they implement ProbeLifecycle? | yes |
| ProbeWorkersReset | With resets at any moment and faults: is every in-flight slot owned, every registered key served, every due check probed? | yes |
| CheckTable | Do outages and recoveries come exactly when the thresholds say, and do children follow the latest poll? | yes |
| Navigation | Is a shown frame consistent, the selection visible while the rows stay, the press kept, the tour complete? | yes |
| DisplayLoop | Does the glass show the state unless a retry or a gate explains it; does the e-paper loop know of each change; are refreshes spaced? | yes |
| ButtonReader | Are presses worth the steps they lasted, and is a held one reported? | yes |
| ProbeSession | Sockets closed, outages only for peers not reached, good peers OK, watchdog fed, deadline kept, every probe ends, on a device and under CPython? | yes |
| DeviceLoop | How long is the watchdog left unfed through startup, reconnects and ticks, quiet sessions included; is the gap of a host kept; is every startup failure on the screen; is a lost link tried again? | yes |
| HostProbeRunner | Is each boundary a host's last success and first failure, and is a blocked host left alone, whatever its threads do? | yes |
| Panels | Is the glass, pixel by pixel, the picture of the checks after every draw that ends, also after one that broke off; does the three-colour 2.13-inch driver feed the watchdog? | yes, the two `Misread` panels aside |
| PanelsGeometry | Is the glass the picture on the 250x122 panels of the mono driver? | no |
| RuntimeLog | Does the newest line about a check tell its status; does the server miss lines only while it is out of reach and one retry interval more? | yes |

The run that answers no is explained under
[disagreements](#where-the-code-and-its-documents-disagree).

CHECK_DEADLOCK is off where a behaviour may end: an e-paper loop or a startup without
a watchdog stops for good after an exception (DisplayLoop, DeviceLoop), which is what
the code does, and Panels and RuntimeLog stop at the bounds on draws, time and
operations.

## Bounds

* **ProbeWorkers**: two checks on one host and one on another, one thread. Two
  checks share a queue and a third competes for the thread, so queues of two,
  retirement against queueing, and the drain by the main loop all happen; with one
  thread the main loop is the second runner. `MaxBacklog` = 1 stops refreshes while
  a result waits; `MaxFaults` = 1 is enough for every single fault. The proofs do
  not depend on any of these.
* **ProbeWorkersReset**: two checks of one host, one fault and one reset, so that
  liveness can be checked; a second reset only finds more old runners.
* **CheckTable**: thresholds 2, 3 and 2, all different from each other's
  neighbours and above 1, and runs of up to four equal observations (`MaxStreak`),
  one beyond the largest threshold. One direct check and a service with two
  children give every way rows are kept and dropped.
* **Navigation**: four checks on two pages, of which a service owns the first and
  the last, so that rows appear on either side of the selection; two presses per
  step, which make a press that undoes the previous one; `Slots` = 2 is a multiple
  of all page counts.
* **DisplayLoop**: two interchangeable checks (the symmetry is sound, nothing
  orders them), two probes each with three results, three seconds, two failed draws in a
  row, which is the limit at which the device restarts. `min_interval_s` is 2 and
  `page_interval_s` 1: nothing keeps the first below the second, see the disagreements.
* **ButtonReader**: ten units with a debounce of two and a repeat of two: three
  steps of a held button, or two complete presses. Real values are 30 and 500 ms;
  what matters is that a press can be shorter than, as long as and longer than each.
* **DeviceLoop**: two checks of one host and one of another, so that a tick has a gap and
  a change of host; an interval of two, a gap, a lookup and a session of one slice; one
  quiet check, whose reads feed nothing for two; a connect timeout of eight, which three
  attempts and both backoffs fit into and which is cut at its end; one fault per startup,
  for each is caught on its own. One batch may leave the watchdog unfed for eight slices
  and the sleep for a ninth, one more than the watchdog waits, so it bites here too.
* **HostProbeRunner**: two checks of one host, which is what a boundary and a block need,
  and one whose target has no host; two passes or rounds and a search of two experiments.
* **Panels**: six columns and five to nine rows, a font of two by two and bytes of two
  bits, so that a byte covers several pixels and the last byte of a row, of a column and
  of a buffer all occur; ten pictures that use every overview, every status, the other
  screens and the logo; two draws, the first of which may break off; a refresh longer than
  the timeout, the timeout longer than the watchdog. The eleven kinds are all set-ups of
  the drivers. **PanelsGeometry** has a height that is no multiple of the bits of a byte,
  as 122 is not of 8, and a heartbeat with a gap as the code's default has one.
* **RuntimeLog**: a ring of four, which wraps within a few results, and of two error
  records; summaries every second result; a retry interval of two and two ticks; three
  operations after the startup: a change, its repetition and the console between them.
* **ProbeSession**: a deadline of five ticks against slices of two, which gives a
  last slice that is cut; twelve operations, fewer than a full DMA probe with would-block
  wakeups needs and more than one without, so both budget exhaustion and success
  happen; replies of two pieces; two addresses; at most two negotiations per TELNET
  chunk and five chunks. `MultiLine` = FALSE keeps FTP replies to one line, see below.

## Fairness

* **ProbeWorkers** (`FairResetSpec`): weak fairness of the main loop's steps and of
  each runner's: threads are scheduled, and a probe ends, which `ProbeEnds` shows for
  one session. `BeginStep` is strongly fair because a refresh or a reset may
  take its place: the loop polls for ever, and a user does not request refreshes
  instead of every step. Nothing is assumed of refreshes, faults or resets.
* **ProbeSession**: weak fairness of the probe as a whole: it is one thread that
  runs its next statement. The peer owes nothing; the deadline and the budget must
  end the probe without it.

* **DeviceLoop**: weak fairness of the device's own steps, which is one thread that runs
  its next statement, and strong fairness of `CheckNetwork`: a tick that is tried again and
  again does not raise every time before it has looked at the network (`TickRaises` may
  take its place once, or any number of times in between). Nothing is assumed of the link,
  the console or restarts.

All other properties are safety.

## Proofs

Eight `...Proofs` modules prove, for all values of the constants, what the runs check on
small instances. Each has an invariant made of named parts, one lemma per action (or per
group of actions that do the same), and theorems that follow from it. The bounds of the
runs (`MaxFaults`, `MaxTime`, `MaxProbes`, `MaxStreak`...) are constants like the others.

### ProbeWorkersProofs

Any checks, hosts and threads.

* **TypeCorrect**: `TypeOK` in every state, with faults and resets. The inductive
  invariant `Typed` adds `RunnersOK`: a runner that lives has a key, one that holds a
  run has a run, and the main loop is in its drain exactly while it is a runner.
  Without it `TypeOK` is not inductive, because a step reads `job[t].check`.
* **NeverStranded**: every in-flight id belongs to a queued run or a runner that will
  release it. The step proof follows each action that shrinks a queue: `TakeNext` hands
  the run to the runner, `AbandonWorker` gives back exactly the queue it drops, and the
  release gives back the runner's own. A reset keeps it, for it empties `inflight`.
* **NeverWedged**: a registered key has a runner or is about to get one, and a
  queue with work is registered. Its two halves support each other: the second says
  that a queue outlives its worker only if somebody registered again.
* **SlotsAreSingle**: without resets a check is queued once or held once. That needs the
  converse of NeverStranded, `SlotsAreTaken`: whoever is queued or holds a slot is in
  flight, so that the guard of `_queue_check` sees it.
* **NothingIsLost**: `owed` equals the runs of the check in queues, in hands and among
  the results. Every step moves one run or none; since a slot is single, the counts are
  0 or 1 in the queues and those of finite sets elsewhere.
* **ProbesDoNotOverlap**: without resets, `NoOverlap`. The invariant is that live
  runners are registered and have different keys (`OneRunnerPerKey`) and that a run
  stays with the key it was queued under (`RunsUnderTheirKey`). With a reset the first
  half breaks, see the disagreements.
* **WorkersImplementLifecycle**: the refinement of ProbeLifecycle, action by action, from
  all of the above but the counts: queueing is Accept, a start is Begin, a release is End,
  dropping a queue is Withdraw of all that were in it, and every other step changes no phase.

### ResultsProofs

CheckTable, any checks and thresholds:

* **OutagesAreEarned**, **RecoveriesAreEarned**: a row turns FAIL or OK only after its
  threshold of consecutive observations. The invariant `CountersAreHonest` bounds the
  counters of a row by the true streaks: a kept row counts each observation, a replaced
  one starts at zero, so a counter may be too low (the finding) but never too high.
* **ChildrenStayCurrent**, **OutagesAreShown**: under the hypothesis `DistinctIds`, which
  the derivation of child ids does not enforce (see the disagreements) and without which
  both are false. `RowsHaveTheirSource` says whose every row is: a child's belongs to its
  service, a direct check's to itself and is never dropped, so its counter is the streak.

RuntimeLog, any ring, intervals, settings and operations:

* **RingGrows**: an append keeps a ring a ring; read from the oldest entry on, as the
  console does, it holds its former entries, less the oldest if it was full, and the new one.
* **DumpsTellStatus**: the newest line about a check in the ring tells its status, or no line
  about it is left. `Truthful` follows the ring through all lines of a step (`EmittedCourse`):
  an append can drop the only line about a check or be the newest itself, and a step that
  changes a status without a word about it leaves the ring without one (`NewestGrows`).
  Which line is the newest is a CHOOSE, and the end of a step a value of a recursive
  function; both are reached through the least counterexample (`LeastIsThere`).
* **SilencesAreShort**: a line the server missed was emitted while it was out of reach or
  within one retry interval after. `LogInv` bounds the sink's next attempt by the time of
  its last failure (`SinkFits`) and that by the time the link came back (`SilenceFits`), and
  says when the complaint about a failed send is due (`ComplaintFits`).

### ProbeSessionProofs

Any timeouts, budgets and numbers of addresses. Five invariants, each on top of the first.

* `Holds` (`TypeOK` and `PlacesFit`): where a probe is tells its kind, whether it holds a
  socket and a handle, and which exchange it is in. **SocketsStayClosed** is its case of
  a probe that ended.
* `ReachFits`: a probe has reached its peer exactly when it is past its connection or has
  an answer; hence **OutagesAreUnreached**.
* `FedFits`: how long the watchdog waits in each place; a TELNET session waits an idle
  timeout more for each unit of its budget that is gone. Hence **WatchdogStaysFed**.
* `TimeFits`: how late it can be in each place: a wait and an operation begin before the
  deadline, so only a lookup, an address list or the last slice goes beyond it; whatever
  reports a timeout did so after the deadline. Hence **DeadlinesAreKept**.
* `GoodFits`: of a peer that has answered rightly so far, what the probe has read and what
  is still on the wire are together one whole right reply to the exchange under way
  (`Rest`, `Due`), so nothing is left over for the next one. Hence **GoodPeersAreOK**,
  whose hypothesis `~MultiLine` is needed: with it TRUE the property is false.

### DeviceLoopProofs

Any checks, hosts and times that satisfy the assumptions of DeviceLoop.

* **WatchdogIsFedInTime**: the watchdog is left unfed for at most `LongestUnfed`: what the
  checks of one batch may take without a feed (`Load`: a lookup and a gap each, and the
  reads of the quiet ones), or a slice of an attempt to connect and its backoff, and the
  sleep. `FeedBound` bounds the unfed time in each phase; while a batch runs, it and the
  `Load` of the checks left never exceed the `Load` of all.
* **RunningDevicesAreNotReset**: where `LongestUnfed` is no more than the watchdog waits, it
  bites only a program that has stopped. The code does not see to that condition; the
  disagreements give the numbers.
* **HostsAreLeftTheGap**: `sinceDone`, which the code remembers, equals `sinceEnd`, the
  truth. A reset forgets both; the gap across a reset is none of the property.
* **StartupFaultsAreReported**: every fault has its line and, from the application on,
  has switched the screen to the diagnostics until the loop runs.

### HostProbeRunnerProofs

* **BoundariesAreTrue**: each report names two events of its host's trace, and between
  them is no success and no transport failure that is not reported (`ReportsAreTrue`);
  `LastSuccessIsTrue` says the same of the end of the trace, where the next report will
  be. One check of a host at a time asks the operator (`RecoveriesAreAlone`), so that
  reports are as many as recoveries and recorded hosts.
* **BlockedHostsAreLeftAlone**: without threads for one host, a check that sleeps before
  its probe has seen its host not blocked, and nobody else of the host has run since.

### DisplayLoopProofs

Any checks, intervals and limits.

* **PanelStaysCurrent**: a frame that was drawn is on the glass unless a draw failed
  since (`GlassIsShown`), and a tick without a retry ends with the current frame.
* **ChangesStayKnown**: an e-paper row that is out of date belongs to a check whose
  change is pending (`RowsFit`); shown and reported status differ only for a FAIL that the
  threshold makes a DEG (`StatusFits`).
* **PanelIsStaleOnlyWhileGated**: the cycle counter starts before the panel goes out of
  date (`CycleFits`, `BehindFits`) and the period counts from the last draw or later
  (`PeriodFits`); so once the gate opens the next iteration draws. `LeastExists` is the
  well-ordering that `completed_probe_cycles`, a minimum, needs.
* **RefreshesStaySpaced**: a refresh with a change pending comes no sooner than
  `min_interval_s` after the last draw, one without no sooner than the period, whichever
  of the two is longer; from the same invariant, since only a refresh changes an e-paper panel.

### PanelsProofs

Any sizes, fonts, checks, pages, modes, kinds of driver and busy times.

* **WatchdogStaysFed**: the three-colour 2.13-inch driver feeds the watchdog through a draw, however
  long its refresh takes and wherever the bus fails. `FeedsOn` says that what is left to do
  pauses in its last operation only, and that the watchdog is fed until then; a broken draw
  leaves nothing to do. `LandscapePauses` shows it of the operations of a draw, which
  needs that concatenating the page transfers adds no operation of its own (`Flat`).
* **SurfacesKeepPictures**: of every surface and size, what was stored for a pixel is what
  its bit in the buffer says, so no two pixels share one (`PixelKept`: byte and bit give
  the pixel back). The mono surface with bytes of rows needs `HeightFits`.
* **FramesFit**: under the same `HeightFits` no picture raises, so only a mono panel with
  bytes of rows and a height that is no whole number of them can leave its buffer.
* **TransfersKeepPictures**: when a draw has ended, the glass is the canvas that was
  painted, whatever the controller was left with by the draws before it, on every panel
  that `Suits`: whose height fits and whose driver gives each command one meaning. The
  250x122 mono panels do not, nor do the two in `Misread`; of them nothing is proved.
  Each set-up has its own lemma that it opens the window the picture needs. The invariant is
  `Sound`. `GlassIsPicture`, the claim, says nothing while a draw runs, so `DrawIsSound`
  says of that: what is left of it leads from the controller, memory and glass as they are
  to the picture. On a panel that shows its memory this is about the memory; an e-paper
  draw has stages, of which each hands over to the next: it wakes and sets the controller
  up and loads its planes, refreshes, waits and sleeps. `PanelIsSound` is what a broken
  draw leaves true, so that the next can start: windows within the memory, and the
  controller of a panel that shows its memory awake, whose driver never wakes it. The core
  is what a transfer leaves in the memory: bytes sent into a window from its first address
  lie in it in the order of that window, row by row or column by column, and the window of
  each driver gives the buffer back. Every kind of driver has a lemma of its own.
* **StateIsShown** is `GlassShowsState`, of panels that suit: the canvas is what the frame
  asks for, and the frame tells the failing checks. For the first half, the strokes of a
  row, the heartbeat's marks and the logo are followed pixel by pixel (`CanvasHasWanted`): a
  later stroke of the same cell wins, strokes of different rows never meet, and a turned
  surface turns both. For the second, every mode's frame has rows of the page's width
  (each cell of the status columns then holds what the mode put there), and a failing
  check's cells are among the emphasised spans with its symbol in them (`StatusIsListed`);
  the compact overview needs that columns never meet and a cell fits its column
  (`ColumnsSplit`, `CellsFit`), the matrix that a target has one row (`TargetsAreRanked`)
  and a probe's name one column.

### NavigationProofs

Navigation, any finite set of checks and any page size:

* **FramesStayConsistent**: the selection is displayed and the page exists whenever a
  frame is shown (`SelectionFits`, `PageFits`).
* **SelectionStaysVisible**: while the rows stay, the page is that of the selection, also
  on screens that show neither (`SteadyFits`). It rests on lemmas about `Position`, a
  cardinality: it is below the number of rows, grows with the check and leaves no gap
  (`PositionsCover`), so a page turn lands on the page it chose.
* **PressesAreKept**, **DetailStays**, **ToursAreComplete**: what a press selected stays
  until the page clock turns (`WantFits`), and a tour has been at exactly the checks up
  to the selected one (`TourFits`).

ButtonReader, any debounce, repeat and times:

* **StepsStayWithHold**: while no edge falls into a poll, the handler has seen every edge
  (`HandlerIsCurrent`) and the queued steps are those of all presses, the one that lasts
  included (`Balance`); `StepCountGrows` keeps a longer press from being worth less.
* **HeldPressesAreReported**: with the handler at any statement. A pin that a poll saw
  pressed has stayed so, and the reader knows of the press since that poll (`SeenFits`);
  hence a poll after the debounce settles it (`DueAdvances`).

### Assumptions

Assumed are only the named assumptions of the modules, which TLC evaluates in every run:
finite sets of checks and threads; hosts as a function of the checks; sentinels that are
no members (`None`, `Never`); the ranges of times and limits; the sleep that ends a draw
of the 2.13-inch panel, 2000 ms, shorter than the watchdog's 8388 ms; thresholds that `TransitionThresholds`
validates; the checks and the matrix's columns as finite sequences without `None`; marks,
logo and states of the panels of the shapes the code builds; different places for the
identifiers that order the checks of HostProbeRunner. None bounds a lookup, an interval or a
check's reads by another. Two theorems of CheckTable, one of ProbeSession, three of Panels
(`HeightFits`, `Suits`) and `RunningDevicesAreNotReset` have the hypotheses named above.

### What is only model-checked

* Liveness: `DueIsProbed`, `ProbeEnds`, `OfflineIsRetried`. The prover has no ENABLED.
* That the frames of the two `Misread` panels list the failing checks: `StateIsShown` is about
  the panels that suit.

## Where the code and its documents disagree

One run ends in a violation:

* **PanelsGeometry**: the picture of the 250x122 mono panels (V3, V4), which
  `docs/spec.md:25` lists, comes out sheared. `_send_vertical_buffer` sends columns of
  `height // 8` bytes, which is 15 (`waveshare_epaper_mono.py:506`), into a window of 16
  (0x44, 0x00 to 0x0F, `:303`), so that every column begins in the one before it. The draw
  ends without an exception: with the default settings nothing is painted in the last two
  rows. Those have no bytes in `MonochromeSurface`, which allocates `(width * height) // 8`
  (`rendering.py:179`) and stores a pixel at `x + (y // 8) * width`; painting in them right
  of the bytes that are left over, x = 62 and on, raises IndexError, which takes rotation
  180 or a heartbeat without a gap. `FramesFit` proves that no other surface is too short.
  The 2.13-inch panel of the second version (`docs/spec.md:27`) has no entry in
  `MONO_EPAPER_PROFILES` and falls back to the default one.

Seen in the models, each a behaviour that a property is worded around:

* `reset_runtime_state` forgets the registered workers and in-flight ids while threads are
  probing (`app.py:1441-1449`), and the next step starts a second worker of the same key:
  `NoOverlap` fails under `ResetSpec`. `docs/spec.md:378-379` wants no overlap. On the device
  it forgets the completions of the hosts too, so the gap is not kept across a reset.
* A poll drops the rows of its service before it adds them again (`state.py:183`), counters
  included. With the default thresholds a child that fails in every poll shows DEG for ever;
  `OutageIsShown` holds of direct checks. `docs/spec.md:278` and `:352`.
* Rows that appear above the selection push it to another page than the one shown, until
  the next press or page turn (`state.py:80`); `SelectedIsVisible` asks for `steady` rows.
  `docs/spec.md:416`.
* Transitions are detected on what the probe reported (`app.py:1675`), so DEG to FAIL, which
  only the thresholds see, is none, and an e-paper panel shows DEG until the periodic
  refresh; `ChangeIsKnown` holds where `AsReported` does. `docs/spec.md:526`.
* An edge inside a poll makes it restore `pressed_since_ms` from a transition the interrupt
  handler has already counted (`firmware/input.py:221`): one press of Key 1 is two steps, and
  `StepsMatchHold` holds only while no edge falls into a poll. `docs/reference.md:51`.
* The watchdog waits 8.4 s, and nothing keeps one batch below that. A lookup has no limit
  and feeds nobody, the reads of a TELNET check may take 5.8 s (`checks.py:1997-2127`),
  `uping` 6 s (`checks.py:612-617`), and the wait for the next check of a host
  `same_host_backoff_ms`, 0.25 s or more (`app.py:1084`). Two such checks in a row, or
  lookups that hang, restart the device; `docs/research/matrix-view/handover.md:209` wants no reset
  with a target powered off. `FedInTime` bounds the time, by a sum that may be longer.
* `page_interval_s` may be shorter than `min_interval_s`, for the two are validated apart
  (`core/display.py:671-690`, `1053-1077`), and the periodic refresh asks only the first
  (`firmware/runtime.py:1184`, `1195`): an e-paper panel is then redrawn sooner than
  `min_interval_s`. `RefreshesAreSpaced` says which interval holds for which refresh.
* If a command means to the panel what it means in the set-up, the first 2.7-inch mono
  driver sends its picture to a waveform table (`waveshare_epaper_mono.py:375`, `:502`) and
  the second 4.2-inch one resets the panel instead of refreshing it (`:468`, `:534`).
  `GlassShowsState` leaves out these two, `Misread`.
* The draws of the button self test and the settings read after it (`resolve_syslog_config`,
  numbers out of range) are not guarded: the startup ends with the exception
  (`firmware/runtime.py:700-722`, `docs/spec.md:734`).
* An HTTP server that accepts and then closes or resets before a status line makes
  `http.client` drop its connection, so the runner under CPython finds `sock` empty and
  reports FAIL (`checks.py:1011`), against the comment at `checks.py:1001-1003`;
  `OutageMeansUnreached` excepts it as `LostByHttpClient`.
* An unchanged OK result is summarised every tenth time only (`app.py:744`), where
  `docs/spec.md:691` asks for a summary of every completed attempt; `DumpTellsStatus` is what
  remains true of the log. The warning of a failed send at boot is printed and not in the
  ring (`docs/spec.md:705`), and since `_warned` is never reset there is one in the life
  of the device. A wall clock set back holds the sink back for as long (`syslog.py:174`).
* The busy waits of the mono and three-colour drivers feed nothing
  (`waveshare_epaper_tricolor.py:83`); a refresh longer than the watchdog's 8.4 s restarts the
  device. `WatchdogIsFed` of Panels speaks of the three-colour 2.13-inch driver.
* In `vivipulse` a resumed host keeps its last success from before the failure, prompts of
  two threads may overlap, and the pass index of a duration run stays where it was.

Seen while modelling:

* A check that waits at the snapshot of due checks and is probed before it is queued is
  probed twice in its interval (`app.py:1398`).
* A fault while the main loop drains a queue itself escapes with the key registered
  (`app.py:1346`); no later worker is started for it. The model has no such fault.
* The page clock undoes a press at once if another page's turn has come
  (`app.py:1739`; `docs/spec.md:440`).
* In compact mode the detail screen jumps to another check when its own recovers
  (`state.py:79`; `docs/spec.md:314`).
* The row a failed poll leaves for the service itself stays after the service answers
  again (`execution.py:358`; `docs/spec.md:353`).
* The id of a child may equal a direct check's; the next poll then removes that row
  (`state.py:189`; `docs/spec.md:307`).
* With `successes_to_recover` = 2, FAIL, OK, FAIL shows DEG: the single success cleared
  the failures.
* A failed draw is not retried when the state returns to the last frame drawn
  (`app.py:489`; `docs/spec.md:739`); `PanelIsCurrent` therefore speaks of `retryAt = None`.
* A failed periodic e-paper draw waits for the next period; the e-paper loop has no
  exception handling at all; transitions of a service's children start no refresh.
* A manual refresh dates the check back to the request.
* A contact that opens briefly during a press makes a second press.
* A multi-line FTP reply whose lines come in different segments shifts every later
  answer, and the probe of a healthy server is DEG (`checks.py:1355`; `README.md:261`): set
  `MultiLine` to TRUE and `GoodPeerIsOK` fails.
* An escape sequence or negotiation cut by a segment is read as text (`checks.py:1868`).
* A connected probe that times out is DEG, where `docs/spec.md:371` says FAIL.
* A TELNET probe is OK on enough visible text, or when chunks or time run out with
  text, though the output was not drained (`README.md:260`).
* An HTTP body of more than some 47 reads, or a server that keeps the connection open,
  is DEG on the device; HTTP 401 and 403 and refused FTP logins are OK
  (`README.md:261-262`).
* `_recv_datagram` documents one slice between feeds on every path; a wakeup at the
  end of a slice followed by a receive that times out makes two (`checks.py:1334`), so
  `WatchdogIsFed` allows two. TELNET feeds nothing while it reads: at worst 48 operations
  of 120 ms, 5.8 s of the 8.4 s the watchdog waits, plus the name lookup.

## What is not modelled

Every part is in the components of `PROJECT.json` with its reason. In short:
configuration is parsed and validated once, before anything runs, and its results are the
constants of the models; metrics and parity traces decide nothing; the e-paper summary loop
of `firmware/eink_runtime.py` is never started; build, deploy and capture tooling, the ADB
service, the shims and the scripts keep no state and share none with the device.

Left out of modules that are there: the direct path of `run_all_checks` beside background
workers and the queue of pending traces (ProbeWorkers), the connect operation in a thread
of its own (DeviceLoop connects in the main loop, as the device does), worker threads that
log beside the main loop (RuntimeLog), the artifacts `vivipulse` writes at its end, names,
details and latencies (CheckTable), and the texts of probe results (ProbeSession).

## What is left

All modules of the plan are written, and every safety property that a passing run checks
is a theorem. Beyond the plan are the parts that no module covers, listed above.
