-------------------------- MODULE ProbeWorkersProps --------------------------
(* What the background probe workers guarantee. *)
EXTENDS ProbeWorkers

TypeOK ==
  /\ due \subseteq Checks
  /\ pending \in [Keys -> Seq(Runs)]
  /\ active \subseteq Keys
  /\ inflight \subseteq Checks
  /\ completed \in Seq(Checks)
  /\ pc \in [Runners -> {"gone", "next", "ready", "probe", "release", "report"}]
  /\ key \in [Runners -> Keys \cup {NoKey}]
  /\ job \in [Runners -> Runs \cup {NoRun}]
  /\ main \in {"poll", "due", "queue", "spawn", "drain", "flush", "settle"}
  /\ caller \in {"step", "refresh"}
  /\ batch \subseteq Runs
  /\ spawn \in Keys \cup {NoKey}
  /\ owed \in [Checks -> Int]
  /\ faults \in 0..MaxFaults /\ resets \in 0..MaxResets

(* docs/spec.md:378-379: probes that must not run concurrently do not      *)
(* overlap. Two runners are never inside the executor for checks of one    *)
(* worker key, whatever main-loop and worker steps interleave.             *)
NoOverlap ==
  \A t, u \in Runners :
    t # u /\ pc[t] = "probe" /\ pc[u] = "probe"
      => WorkerKey(job[t].check) # WorkerKey(job[u].check)

(* A check is queued or held before its release at most once: the in-flight *)
(* guard of _queue_check is not defeated by the release of an earlier run.  *)
SingleFlight ==
  /\ \A k, l \in Keys : \A i \in DOMAIN pending[k], j \in DOMAIN pending[l] :
       pending[k][i].check = pending[l][j].check => k = l /\ i = j
  /\ \A t, u \in Runners :
       t # u /\ HoldsSlot(t) /\ HoldsSlot(u) => job[t].check # job[u].check
  /\ \A t \in Runners, k \in Keys :
       HoldsSlot(t) => job[t].check \notin ChecksIn(pending[k])

(* app.py:1246-1248: an in-flight slot has an owner that will release it, a *)
(* queued run or a runner; a slot without one is never scheduled again.     *)
NoStrandedCheck ==
  \A c \in inflight :
    \/ \E k \in Keys : c \in ChecksIn(pending[k])
    \/ \E t \in Runners : HoldsSlot(t) /\ job[t].check = c

(* app.py:1320-1324: a registered worker key has a runner, or the main loop *)
(* is about to start one; a registered dead worker would wedge its queue.   *)
RegisteredWorkerLives ==
  \A k \in active : spawn = k \/ \E t \in Runners : key[t] = k

(* A queue with work in it belongs to a registered worker. *)
QueuedHasWorker ==
  \A k \in Keys : pending[k] # <<>> => k \in active

(* The two together: whatever faults and resets come in between, no queue   *)
(* waits for a worker that will not come, and no key refuses a new one.     *)
NotWedged == RegisteredWorkerLives /\ QueuedHasWorker

(* Every accepted run that no fault dropped is in exactly one place until   *)
(* the main loop applies its result: no result is lost or applied twice.    *)
Outstanding(c) ==
  Cardinality({p \in UNION {{k} \X DOMAIN pending[k] : k \in Keys} :
                 pending[p[1]][p[2]].check = c})
    + Cardinality({t \in Runners : Holding(t) /\ job[t].check = c})
    + CountOf(completed, c)

NoLostResult == \A c \in Checks : owed[c] = Outstanding(c)

(* The phase of a check in ProbeLifecycle: what its queued runs and runners *)
(* amount to. Between probe and release the check is still being probed.    *)
PhaseOf(c) ==
  IF \E t \in Runners : pc[t] \in {"probe", "release"} /\ job[t].check = c
    THEN "probing"
  ELSE IF \/ \E k \in Keys : c \in ChecksIn(pending[k])
          \/ \E t \in Runners : pc[t] = "ready" /\ job[t].check = c
    THEN "waiting"
  ELSE "idle"

Lifecycle == INSTANCE ProbeLifecycle WITH
  KeyOf <- WorkerKey, phase <- [c \in Checks |-> PhaseOf(c)]

(* The queues, threads and locks of app.py implement the life cycle: every  *)
(* step accepts an idle check, begins a waiting one while its key is free,  *)
(* ends a probe, withdraws waiting checks, or changes no phase.             *)
ImplementsLifecycle == Lifecycle!LifecycleSpec

(* A due check is eventually probed, also after worker faults and resets:   *)
(* tests/unit/runtime/test_app.py:1111-1114 "most checks stopped probing".  *)
DueIsProbed == \A c \in Checks : c \in due ~> c \notin due
=============================================================================
