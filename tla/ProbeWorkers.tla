---------------------------- MODULE ProbeWorkers ----------------------------
(***************************************************************************)
(* The background probe workers of RuntimeApp (src/vivipi/runtime/app.py). *)
(*                                                                         *)
(* The main loop queues due or manually requested checks.  Every check     *)
(* belongs to a worker key, every worker key has a queue and at most one   *)
(* registered worker thread, which takes the queued checks one by one,     *)
(* probes, gives the in-flight slot of the check back and reports the      *)
(* result in a list that the main loop drains.  When no thread can be      *)
(* started the main loop works through the queue itself.                   *)
(*                                                                         *)
(* A section of the code that runs under background_lock is one action.    *)
(* Time is abstracted to the set of checks whose interval has elapsed, the *)
(* order in which one batch is queued is left open.                        *)
(***************************************************************************)
EXTENDS Integers, Sequences, FiniteSets

CONSTANTS
  Checks,                   \* identifiers of the check definitions
  Hosts,                    \* normalised target hosts
  HostOf,                   \* probe_host_key of each check
  AllowConcurrentHosts,     \* ProbeSchedulingPolicy.allow_concurrent_hosts
  AllowConcurrentSameHost,  \* ProbeSchedulingPolicy.allow_concurrent_same_host
  Threads,                  \* threads the platform can run at once
  Main,                     \* the main loop, when it drains a queue itself
  NoKey, NoRun,             \* "no worker key", "no run"
  MaxBacklog,               \* bound: a refresh is requested below this backlog
  MaxFaults,                \* bound: worker faults in a behaviour
  MaxResets                 \* bound: runtime resets in a behaviour

ASSUME ConstantsAssumption ==
  /\ HostOf \in [Checks -> Hosts]
  /\ AllowConcurrentHosts \in BOOLEAN
  /\ AllowConcurrentSameHost \in BOOLEAN
  /\ IsFiniteSet(Threads) /\ Main \notin Threads
  /\ MaxBacklog \in Nat /\ MaxFaults \in Nat /\ MaxResets \in Nat

Runners == Threads \cup {Main}

(* Checks with the same key are probed by the same worker. *)
WorkerKey(c) ==
  IF ~AllowConcurrentHosts THEN "__all__"
  ELSE IF AllowConcurrentSameHost THEN <<HostOf[c], c>>
  ELSE HostOf[c]

Keys == {WorkerKey(c) : c \in Checks}

ASSUME SentinelAssumption == NoKey \notin Keys

(* A PendingCheckRun: the check and whether a refresh asked for it. *)
Runs == [check : Checks, manual : BOOLEAN]

ASSUME NoRunAssumption == NoRun \notin Runs

VARIABLES
  due,        \* checks whose interval has elapsed since last_started_at
  pending,    \* pending_checks_by_worker; a missing entry is <<>>
  active,     \* active_workers
  inflight,   \* inflight_check_ids
  completed,  \* completed_checks, as the checks the results belong to
  pc, key, job, \* per runner: next step, worker key, run in hand
  main,       \* what the main loop does next
  caller,     \* who filled the batch: a step or a refresh request
  batch,      \* runs still to be queued
  spawn,      \* key whose worker the main loop is about to start
  owed,       \* history: accepted runs whose result is not applied yet
  faults, resets

queueVars == <<pending, active, inflight, completed>>
runnerVars == <<pc, key, job>>
mainVars == <<main, caller, batch, spawn>>
countVars == <<faults, resets>>
vars == <<due, queueVars, runnerVars, mainVars, owed, countVars>>

CountOf(s, c) == Cardinality({i \in DOMAIN s : s[i] = c})
ChecksIn(runs) == {runs[i].check : i \in DOMAIN runs}

Live(t) == pc[t] # "gone"
Holding(t) == pc[t] \in {"ready", "probe", "release", "report"}
HoldsSlot(t) == pc[t] \in {"ready", "probe", "release"}

Init ==
  /\ due = Checks
  /\ pending = [k \in Keys |-> <<>>]
  /\ active = {} /\ inflight = {} /\ completed = <<>>
  /\ pc = [t \in Runners |-> "gone"]
  /\ key = [t \in Runners |-> NoKey]
  /\ job = [t \in Runners |-> NoRun]
  /\ main = "poll" /\ caller = "step" /\ batch = {} /\ spawn = NoKey
  /\ owed = [c \in Checks |-> 0]
  /\ faults = 0 /\ resets = 0

-----------------------------------------------------------------------------
(* The main loop. *)

IntervalElapses(c) ==
  /\ c \notin due
  /\ due' = due \cup {c}
  /\ UNCHANGED <<queueVars, runnerVars, mainVars, owed, countVars>>

PopCompleted == completed' = <<>>

(* Mutant: the results are taken, but applying the first one fails. *)
DrainLoses ==
  /\ PopCompleted
  /\ UNCHANGED <<due, pending, active, inflight, owed, runnerVars, countVars>>

(* _drain_completed_checks: take all results and apply them. *)
DrainCompleted ==
  /\ owed' = [c \in Checks |-> owed[c] - CountOf(completed, c)]
  /\ PopCompleted
  /\ UNCHANGED <<due, pending, active, inflight, runnerVars, countVars>>

BeginStep ==
  /\ main = "poll" /\ main' = "due"
  /\ DrainCompleted
  /\ UNCHANGED <<caller, batch, spawn>>

(* _run_due_checks works on a copy of last_started_at. *)
SnapshotDue ==
  /\ main = "due" /\ main' = "queue"
  /\ caller' = "step"
  /\ batch' = {[check |-> c, manual |-> FALSE] : c \in due}
  /\ UNCHANGED <<due, queueVars, runnerVars, spawn, owed, countVars>>

RequestRefresh ==
  /\ main = "poll" /\ main' = "queue"
  /\ Len(completed) < MaxBacklog
  /\ caller' = "refresh"
  /\ batch' = {[check |-> c, manual |-> TRUE] : c \in Checks}
  /\ UNCHANGED <<due, queueVars, runnerVars, spawn, owed, countVars>>

SkipInflight(r) ==
  /\ main = "queue" /\ r \in batch
  /\ r.check \in inflight
  /\ batch' = batch \ {r}
  /\ UNCHANGED <<due, queueVars, runnerVars, main, caller, spawn, owed, countVars>>

(* The two decisions of _queue_check, and a mutant of each. *)
AcceptsAll(c) == TRUE
Accepts(c) == c \notin inflight

NeverServed(k) == FALSE
IsServed(k) == k \in active

QueueCheck(r) ==
  LET k == WorkerKey(r.check) IN
  /\ main = "queue" /\ r \in batch
  /\ Accepts(r.check)
  /\ batch' = batch \ {r}
  /\ inflight' = inflight \cup {r.check}
  /\ pending' = [pending EXCEPT ![k] = Append(@, r)]
  /\ active' = active \cup {k}
  /\ owed' = [owed EXCEPT ![r.check] = @ + 1]
  /\ IF IsServed(k) THEN UNCHANGED <<main, spawn>>
                   ELSE main' = "spawn" /\ spawn' = k
  /\ UNCHANGED <<due, completed, runnerVars, caller, countVars>>

StartThread(t) ==
  /\ main = "spawn" /\ main' = "queue"
  /\ t \in Threads /\ pc[t] = "gone"
  /\ pc' = [pc EXCEPT ![t] = "next"]
  /\ key' = [key EXCEPT ![t] = spawn]
  /\ spawn' = NoKey
  /\ UNCHANGED <<due, queueVars, job, caller, batch, owed, countVars>>

(* No thread: _drain_worker_synchronously makes the main loop the worker. *)
StartFails ==
  /\ main = "spawn" /\ main' = "drain"
  /\ pc' = [pc EXCEPT ![Main] = "next"]
  /\ key' = [key EXCEPT ![Main] = spawn]
  /\ spawn' = NoKey
  /\ UNCHANGED <<due, queueVars, job, caller, batch, owed, countVars>>

FlushDrained ==
  /\ main = "flush" /\ main' = "queue"
  /\ DrainCompleted
  /\ UNCHANGED <<caller, batch, spawn>>

FinishBatch ==
  /\ main = "queue" /\ batch = {}
  /\ main' = IF caller = "step" THEN "settle" ELSE "poll"
  /\ UNCHANGED <<due, queueVars, runnerVars, caller, batch, spawn, owed, countVars>>

EndStep ==
  /\ main = "settle" /\ main' = "poll"
  /\ DrainCompleted
  /\ UNCHANGED <<caller, batch, spawn>>

-----------------------------------------------------------------------------
(* The worker loop, run by a thread or by the draining main loop. *)

(* queue.pop(0); the mutant leaves the run in the queue. *)
Peek(k) == UNCHANGED pending
Dequeue(k) == pending' = [pending EXCEPT ![k] = Tail(@)]

TakeNext(t) ==
  /\ pc[t] = "next" /\ pending[key[t]] # <<>>
  /\ job' = [job EXCEPT ![t] = Head(pending[key[t]])]
  /\ Dequeue(key[t])
  /\ pc' = [pc EXCEPT ![t] = "ready"]
  /\ UNCHANGED <<due, active, inflight, completed, key, mainVars, owed, countVars>>

(* An empty queue: the worker deregisters under the lock and returns. *)
Retire(t) ==
  /\ pc[t] = "next" /\ pending[key[t]] = <<>>
  /\ active' = active \ {key[t]}
  /\ pc' = [pc EXCEPT ![t] = "gone"]
  /\ key' = [key EXCEPT ![t] = NoKey]
  /\ main' = IF t = Main THEN "flush" ELSE main
  /\ UNCHANGED <<due, pending, inflight, completed, job, caller, batch, spawn,
                 owed, countVars>>

(* The probe starts: last_started_at of the check is set. *)
StartProbe(t) ==
  /\ pc[t] = "ready"
  /\ due' = due \ {job[t].check}
  /\ pc' = [pc EXCEPT ![t] = "probe"]
  /\ UNCHANGED <<queueVars, key, job, mainVars, owed, countVars>>

(* The executor returned or raised; either way there is a completed run. *)
FinishProbe(t) ==
  /\ pc[t] = "probe"
  /\ pc' = [pc EXCEPT ![t] = "release"]
  /\ UNCHANGED <<due, queueVars, key, job, mainVars, owed, countVars>>

(* An exception before the start was recorded: the run completes in error. *)
ExecutionRaises(t) ==
  /\ pc[t] = "ready" /\ faults < MaxFaults
  /\ faults' = faults + 1
  /\ pc' = [pc EXCEPT ![t] = "release"]
  /\ UNCHANGED <<due, queueVars, key, job, mainVars, owed, resets>>

(* The finally clause of _process_pending_check. *)
GiveBack(c) == inflight' = inflight \ {c}

ReleaseSlot(t) ==
  /\ pc[t] = "release"
  /\ GiveBack(job[t].check)
  /\ pc' = [pc EXCEPT ![t] = "report"]
  /\ UNCHANGED <<due, pending, active, completed, key, job, mainVars, owed, countVars>>

(* completed_checks.append; the mutant clears the run in hand first. *)
ReportCleared(t) == completed' = Append(completed, NoRun)
Report(t) == completed' = Append(completed, job[t].check)

ReportResult(t) ==
  /\ pc[t] = "report"
  /\ Report(t)
  /\ job' = [job EXCEPT ![t] = NoRun]
  /\ pc' = [pc EXCEPT ![t] = "next"]
  /\ UNCHANGED <<due, pending, active, inflight, key, mainVars, owed, countVars>>

(* A fault outside the probe: the result in hand is lost, and             *)
(* _abandon_worker deregisters the key and gives up its whole queue. The  *)
(* Abandon variants are mutants: one of its three statements is missing.  *)
LostRuns(t, c) ==
  (IF pc[t] = "report" /\ job[t].check = c THEN 1 ELSE 0)
    + Cardinality({i \in DOMAIN pending[key[t]] : pending[key[t]][i].check = c})

AbandonStrands(k) ==
  /\ active' = active \ {k}
  /\ pending' = [pending EXCEPT ![k] = <<>>]
  /\ UNCHANGED inflight

AbandonStaysRegistered(k) ==
  /\ inflight' = inflight \ ChecksIn(pending[k])
  /\ pending' = [pending EXCEPT ![k] = <<>>]
  /\ UNCHANGED active

AbandonWorker(k) ==
  /\ active' = active \ {k}
  /\ inflight' = inflight \ ChecksIn(pending[k])
  /\ pending' = [pending EXCEPT ![k] = <<>>]

WorkerFaults(t) ==
  /\ t \in Threads /\ pc[t] \in {"next", "report"} /\ faults < MaxFaults
  /\ faults' = faults + 1
  /\ AbandonWorker(key[t])
  /\ owed' = [c \in Checks |-> owed[c] - LostRuns(t, c)]
  /\ pc' = [pc EXCEPT ![t] = "gone"]
  /\ key' = [key EXCEPT ![t] = NoKey]
  /\ job' = [job EXCEPT ![t] = NoRun]
  /\ UNCHANGED <<due, completed, mainVars, resets>>

-----------------------------------------------------------------------------
(* Its four background collections; the mutant forgets the in-flight set. *)
ClearKeepsInflight ==
  /\ pending' = [k \in Keys |-> <<>>]
  /\ active' = {} /\ completed' = <<>>
  /\ UNCHANGED inflight

ClearBackground ==
  /\ pending' = [k \in Keys |-> <<>>]
  /\ active' = {} /\ inflight' = {} /\ completed' = <<>>

(* reset_runtime_state, between two steps, whatever the workers are doing. *)
Reset ==
  /\ main = "poll" /\ resets < MaxResets
  /\ resets' = resets + 1
  /\ due' = Checks
  /\ ClearBackground
  /\ owed' = [c \in Checks |-> Cardinality({t \in Runners : Holding(t) /\ job[t].check = c})]
  /\ UNCHANGED <<runnerVars, mainVars, faults>>

MainNext ==
  \/ BeginStep \/ SnapshotDue \/ RequestRefresh
  \/ \E r \in Runs : SkipInflight(r) \/ QueueCheck(r)
  \/ \E t \in Threads : StartThread(t)
  \/ StartFails \/ FlushDrained \/ FinishBatch \/ EndStep

WorkerStep(t) ==
  \/ TakeNext(t) \/ Retire(t) \/ StartProbe(t) \/ FinishProbe(t)
  \/ ReleaseSlot(t) \/ ReportResult(t)

Next ==
  \/ \E c \in Checks : IntervalElapses(c)
  \/ MainNext
  \/ \E t \in Runners : WorkerStep(t) \/ ExecutionRaises(t) \/ WorkerFaults(t)

Spec == Init /\ [][Next]_vars
ResetSpec == Init /\ [][Next \/ Reset]_vars

(* The loop keeps stepping, threads keep being scheduled, probes have a    *)
(* deadline; refreshes, faults and resets are never owed.                  *)
Fairness ==
  /\ SF_vars(BeginStep)
  /\ WF_vars(SnapshotDue) /\ WF_vars(FlushDrained)
  /\ WF_vars(FinishBatch) /\ WF_vars(EndStep)
  /\ WF_vars(\E r \in Runs : SkipInflight(r) \/ QueueCheck(r))
  /\ WF_vars(StartFails \/ \E t \in Threads : StartThread(t))
  /\ \A t \in Runners : WF_vars(WorkerStep(t))

FairResetSpec == ResetSpec /\ Fairness
=============================================================================
