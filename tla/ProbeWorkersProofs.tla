------------------------- MODULE ProbeWorkersProofs -------------------------
(***************************************************************************)
(* Proofs about the probe workers, for every set of checks, hosts and      *)
(* threads and every scheduling policy.                                    *)
(***************************************************************************)
EXTENDS ProbeWorkersProps, FiniteSetTheorems, TLAPS

-----------------------------------------------------------------------------
(* Types. *)

(* A run is queued under one of the worker keys (_worker_key).             *)
LEMMA RunKey == \A r \in Runs : r.check \in Checks /\ WorkerKey(r.check) \in Keys
  BY DEF Runs, Keys

LEMMA BatchType ==
  ASSUME NEW S \in SUBSET Checks, NEW manual \in BOOLEAN
  PROVE  {[check |-> c, manual |-> manual] : c \in S} \subseteq Runs
  BY DEF Runs

(* The positions at which a queue or a result list holds something of      *)
(* interest can be counted.                                                *)
LEMMA CountIsNat ==
  ASSUME NEW S, NEW s \in Seq(S), NEW T \in SUBSET DOMAIN s
  PROVE  Cardinality(T) \in Nat
<1>1. IsFiniteSet(DOMAIN s)
  BY FS_Interval
<1> QED BY <1>1, FS_Subset, FS_CardinalityType

(* So can the runners that hold a run of a check.                          *)
LEMMA RunnersAreFinite ==
  ASSUME NEW T \in SUBSET Runners PROVE Cardinality(T) \in Nat
<1>1. IsFiniteSet(Runners)
  BY ConstantsAssumption, FS_AddElement DEF Runners, ConstantsAssumption
<1> QED BY <1>1, FS_Subset, FS_CardinalityType

(* The results that a drain of completed_checks takes off owed.            *)
LEMMA DrainType ==
  ASSUME TypeOK, DrainCompleted, PopCompleted
  PROVE  owed' \in [Checks -> Int] /\ completed' \in Seq(Checks)
<1>1. \A c \in Checks : CountOf(completed, c) \in Nat
  BY CountIsNat DEF TypeOK, CountOf
<1> QED BY <1>1 DEF TypeOK, DrainCompleted, PopCompleted

(* The runs that a fault takes off owed.                                   *)
LEMMA LostType ==
  ASSUME TypeOK, NEW t \in Runners, key[t] \in Keys, NEW c \in Checks
  PROVE  LostRuns(t, c) \in Nat
<1>1. pending[key[t]] \in Seq(Runs)
  BY DEF TypeOK
<1>2. Cardinality({i \in DOMAIN pending[key[t]] : pending[key[t]][i].check = c}) \in Nat
  BY <1>1, CountIsNat
<1> QED BY <1>2 DEF LostRuns

(* The types alone are not inductive. A live runner has a key and a runner *)
(* that holds something holds a run; a key waits for its worker exactly    *)
(* while the main loop starts one; and the main loop is a worker itself    *)
(* exactly while it drains a queue.                                        *)
RunnersOK ==
  /\ \A t \in Runners : IF pc[t] = "gone" THEN key[t] = NoKey ELSE key[t] \in Keys
  /\ \A t \in Runners : Holding(t) => job[t] \in Runs
  /\ IF main = "spawn" THEN spawn \in Keys ELSE spawn = NoKey
  /\ main = "drain" <=> pc[Main] # "gone"

Typed == TypeOK /\ RunnersOK

LEMMA InitTyped == Init => Typed
  BY ConstantsAssumption
  DEF Init, Typed, TypeOK, RunnersOK, Holding, Runners, ConstantsAssumption

LEMMA MainTyped == Typed /\ (MainNext \/ \E c \in Checks : IntervalElapses(c)) => Typed'
<1> SUFFICES ASSUME Typed, MainNext \/ \E c \in Checks : IntervalElapses(c)
             PROVE  Typed'
  OBVIOUS
<1> USE DEF Typed, TypeOK, RunnersOK, Holding, Runners
<1>1. ASSUME NEW c \in Checks, IntervalElapses(c) PROVE Typed'
  BY <1>1 DEF IntervalElapses, queueVars, runnerVars, mainVars, countVars
<1>2. CASE BeginStep
  BY <1>2, DrainType DEF BeginStep, DrainCompleted, PopCompleted, runnerVars, countVars
<1>3. CASE SnapshotDue
  BY <1>3, BatchType DEF SnapshotDue, queueVars, runnerVars, countVars
<1>4. CASE RequestRefresh
  BY <1>4, BatchType DEF RequestRefresh, queueVars, runnerVars, countVars
<1>5. ASSUME NEW r \in Runs, SkipInflight(r) PROVE Typed'
  BY <1>5 DEF SkipInflight, queueVars, runnerVars, countVars
<1>6. ASSUME NEW r \in Runs, QueueCheck(r) PROVE Typed'
  BY <1>6, RunKey DEF QueueCheck, Accepts, IsServed, runnerVars, countVars
<1>7. ASSUME NEW t \in Threads, StartThread(t) PROVE Typed'
  BY <1>7, ConstantsAssumption DEF StartThread, ConstantsAssumption, queueVars, countVars
<1>8. CASE StartFails
  BY <1>8 DEF StartFails, queueVars, countVars
<1>9. CASE FlushDrained
  BY <1>9, DrainType DEF FlushDrained, DrainCompleted, PopCompleted, runnerVars, countVars
<1>10. CASE FinishBatch
  BY <1>10 DEF FinishBatch, queueVars, runnerVars, countVars
<1>11. CASE EndStep
  BY <1>11, DrainType DEF EndStep, DrainCompleted, PopCompleted, runnerVars, countVars
<1> QED BY <1>1, <1>2, <1>3, <1>4, <1>5, <1>6, <1>7, <1>8, <1>9, <1>10, <1>11 DEF MainNext

LEMMA WorkerTyped ==
  ASSUME Typed, NEW t \in Runners, WorkerStep(t) \/ ExecutionRaises(t) \/ WorkerFaults(t)
  PROVE  Typed'
<1> USE DEF Typed, TypeOK, RunnersOK, Holding, Runners
<1>1. CASE TakeNext(t)
  BY <1>1 DEF TakeNext, Dequeue, mainVars, countVars
<1>2. CASE Retire(t)
  BY <1>2 DEF Retire, countVars
<1>3. CASE StartProbe(t)
  BY <1>3 DEF StartProbe, queueVars, mainVars, countVars
<1>4. CASE FinishProbe(t)
  BY <1>4 DEF FinishProbe, queueVars, mainVars, countVars
<1>5. CASE ReleaseSlot(t)
  BY <1>5 DEF ReleaseSlot, GiveBack, mainVars, countVars
<1>6. CASE ReportResult(t)
  BY <1>6, RunKey DEF ReportResult, Report, mainVars, countVars
<1>7. CASE ExecutionRaises(t)
  BY <1>7, ConstantsAssumption
  DEF ExecutionRaises, ConstantsAssumption, queueVars, mainVars
<1>8. CASE WorkerFaults(t)
  <2>1. key[t] \in Keys
    BY <1>8 DEF WorkerFaults
  <2>2. \A c \in Checks : LostRuns(t, c) \in Nat
    BY <2>1, LostType
  <2>3. t # Main
    BY <1>8, ConstantsAssumption DEF WorkerFaults, ConstantsAssumption
  <2> QED BY <1>8, <2>1, <2>2, <2>3, ConstantsAssumption
          DEF WorkerFaults, AbandonWorker, ConstantsAssumption, mainVars
<1> QED BY <1>1, <1>2, <1>3, <1>4, <1>5, <1>6, <1>7, <1>8 DEF WorkerStep

LEMMA ResetTyped == Typed /\ Reset => Typed'
<1> SUFFICES ASSUME Typed, Reset PROVE Typed'
  OBVIOUS
<1>1. \A c \in Checks :
        Cardinality({t \in Runners : Holding(t) /\ job[t].check = c}) \in Nat
  BY RunnersAreFinite
<1> QED BY <1>1, ConstantsAssumption
        DEF Typed, TypeOK, RunnersOK, Holding, Runners, Reset, ClearBackground,
            ConstantsAssumption, runnerVars, mainVars

LEMMA TypedStep == Typed /\ [Next \/ Reset]_vars => Typed'
<1>1. Typed /\ UNCHANGED vars => Typed'
  BY DEF Typed, TypeOK, RunnersOK, Holding, vars, queueVars, runnerVars, mainVars, countVars
<1> QED BY <1>1, MainTyped, WorkerTyped, ResetTyped DEF Next

(* Every variable keeps its type, through faults and resets as well.       *)
THEOREM TypeCorrect == ResetSpec => []TypeOK
<1>1. Typed => TypeOK
  BY DEF Typed
<1> QED BY <1>1, InitTyped, TypedStep, PTL DEF ResetSpec

(* Without a reset, a step is a step of either specification.              *)
LEMMA SpecTyped == Spec => []Typed
<1>1. [Next]_vars => [Next \/ Reset]_vars
  OBVIOUS
<1> QED BY <1>1, InitTyped, TypedStep, PTL DEF Spec

-----------------------------------------------------------------------------
(* No check is stranded and no key is left without a worker. Each of these *)
(* invariants is inductive on top of the types.                            *)

LEMMA RegisteredStep ==
  Typed /\ RegisteredWorkerLives /\ [Next \/ Reset]_vars => RegisteredWorkerLives'
<1> SUFFICES ASSUME Typed, RegisteredWorkerLives, [Next \/ Reset]_vars
             PROVE  RegisteredWorkerLives'
  OBVIOUS
<1> USE DEF RegisteredWorkerLives, Typed, TypeOK, RunnersOK, Runners
<1>1. CASE UNCHANGED <<active, spawn, key>>
  BY <1>1
<1>2. ASSUME NEW r \in Runs, QueueCheck(r) PROVE RegisteredWorkerLives'
  BY <1>2 DEF QueueCheck, IsServed, runnerVars
<1>3. ASSUME NEW t \in Threads, StartThread(t) PROVE RegisteredWorkerLives'
  BY <1>3, SentinelAssumption DEF StartThread, queueVars, SentinelAssumption
<1>4. CASE StartFails
  BY <1>4, SentinelAssumption DEF StartFails, queueVars, SentinelAssumption
<1>5. ASSUME NEW t \in Runners, Retire(t) PROVE RegisteredWorkerLives'
  BY <1>5 DEF Retire
<1>6. ASSUME NEW t \in Runners, WorkerFaults(t) PROVE RegisteredWorkerLives'
  BY <1>6 DEF WorkerFaults, AbandonWorker, mainVars
<1>7. CASE Reset
  BY <1>7 DEF Reset, ClearBackground
<1> QED
  BY <1>1, <1>2, <1>3, <1>4, <1>5, <1>6, <1>7
  DEF Next, MainNext, WorkerStep, vars, queueVars, runnerVars, mainVars, IntervalElapses,
      BeginStep, SnapshotDue, RequestRefresh, SkipInflight, FlushDrained, FinishBatch,
      EndStep, DrainCompleted, PopCompleted, TakeNext, StartProbe, FinishProbe, ReleaseSlot,
      ReportResult, ExecutionRaises

LEMMA QueuedStep ==
  Typed /\ QueuedHasWorker /\ [Next \/ Reset]_vars => QueuedHasWorker'
<1> SUFFICES ASSUME Typed, QueuedHasWorker, [Next \/ Reset]_vars
             PROVE  QueuedHasWorker'
  OBVIOUS
<1> USE DEF QueuedHasWorker, Typed, TypeOK, RunnersOK, Runners
<1>1. CASE UNCHANGED <<pending, active>>
  BY <1>1
<1>2. ASSUME NEW r \in Runs, QueueCheck(r) PROVE QueuedHasWorker'
  BY <1>2 DEF QueueCheck
<1>3. ASSUME NEW t \in Runners, TakeNext(t) PROVE QueuedHasWorker'
  BY <1>3 DEF TakeNext, Dequeue
<1>4. ASSUME NEW t \in Runners, Retire(t) PROVE QueuedHasWorker'
  BY <1>4 DEF Retire
<1>5. ASSUME NEW t \in Runners, WorkerFaults(t) PROVE QueuedHasWorker'
  BY <1>5 DEF WorkerFaults, AbandonWorker
<1>6. CASE Reset
  BY <1>6 DEF Reset, ClearBackground
<1> QED
  BY <1>1, <1>2, <1>3, <1>4, <1>5, <1>6
  DEF Next, MainNext, WorkerStep, vars, queueVars, IntervalElapses,
      BeginStep, SnapshotDue, RequestRefresh, SkipInflight, FlushDrained, FinishBatch,
      EndStep, DrainCompleted, PopCompleted, StartThread, StartFails, StartProbe, FinishProbe,
      ReleaseSlot, ReportResult, ExecutionRaises

(* An owner of an in-flight slot goes on owning it until the slot is given *)
(* back: from the queue the run passes to a runner.                        *)
Queued(c) == \E k \in Keys : \E i \in DOMAIN pending[k] : pending[k][i].check = c
Held(c) == \E t \in Runners : HoldsSlot(t) /\ job[t].check = c

LEMMA OwnedIsQueuedOrHeld ==
  NoStrandedCheck <=> \A c \in inflight : Queued(c) \/ Held(c)
  BY DEF NoStrandedCheck, ChecksIn, Queued, Held

LEMMA OwnedNext ==
  NoStrandedCheck' <=> \A c \in inflight' : Queued(c)' \/ Held(c)'
  BY DEF NoStrandedCheck, ChecksIn, Queued, Held, HoldsSlot

LEMMA QueueKeeps ==
  ASSUME Typed, NEW r \in Runs, QueueCheck(r)
  PROVE  Queued(r.check)' /\ \A c : Queued(c) => Queued(c)'
<1> DEFINE k == WorkerKey(r.check)
           q == pending[k]
<1>1. k \in Keys /\ q \in Seq(Runs)
  BY RunKey DEF Typed, TypeOK
<1>2. pending' = [pending EXCEPT ![k] = Append(q, r)]
  BY DEF QueueCheck
<1>3. \A l \in Keys : l # k => pending'[l] = pending[l]
  BY <1>2 DEF Typed, TypeOK
<1>4. pending'[k] = Append(q, r)
  BY <1>1, <1>2 DEF Typed, TypeOK
<1>5. \A i \in DOMAIN q : i \in DOMAIN Append(q, r) /\ Append(q, r)[i] = q[i]
  BY <1>1
<1>6. Len(q) + 1 \in DOMAIN Append(q, r) /\ Append(q, r)[Len(q) + 1] = r
  BY <1>1
<1>7. Queued(r.check)'
  BY <1>1, <1>4, <1>6 DEF Queued
<1>8. ASSUME NEW c, NEW l \in Keys, NEW i \in DOMAIN pending[l], pending[l][i].check = c
      PROVE  Queued(c)'
  <2>1. CASE l = k
    BY <1>1, <1>4, <1>5, <1>8, <2>1 DEF Queued
  <2>2. CASE l # k
    BY <1>3, <1>8, <2>2 DEF Queued
  <2> QED BY <2>1, <2>2
<1> QED BY <1>7, <1>8 DEF Queued

LEMMA TakeKeeps ==
  ASSUME Typed, NEW t \in Runners, TakeNext(t)
  PROVE  \A c : Queued(c) => Queued(c)' \/ Held(c)'
<1> DEFINE k == key[t]
           q == pending[k]
<1>1. k \in Keys /\ q \in Seq(Runs) /\ q # <<>>
  BY DEF Typed, TypeOK, RunnersOK, TakeNext
<1>2. pending' = [pending EXCEPT ![k] = Tail(q)]
  BY DEF TakeNext, Dequeue
<1>3. \A l \in Keys : l # k => pending'[l] = pending[l]
  BY <1>2 DEF Typed, TypeOK
<1>4. pending'[k] = Tail(q)
  BY <1>1, <1>2 DEF Typed, TypeOK
<1>5. job'[t] = q[1] /\ pc'[t] = "ready"
  BY <1>1 DEF TakeNext, Typed, TypeOK
<1>6. \A i \in DOMAIN q : i # 1 => i - 1 \in DOMAIN Tail(q) /\ Tail(q)[i - 1] = q[i]
  BY <1>1
<1>7. ASSUME NEW c, NEW l \in Keys, NEW i \in DOMAIN pending[l], pending[l][i].check = c
      PROVE  Queued(c)' \/ Held(c)'
  <2>1. CASE l # k
    BY <1>3, <1>7, <2>1 DEF Queued
  <2>2. CASE l = k /\ i = 1
    BY <1>5, <1>7, <2>2 DEF Held, HoldsSlot
  <2>3. CASE l = k /\ i # 1
    BY <1>1, <1>4, <1>6, <1>7, <2>3 DEF Queued
  <2> QED BY <2>1, <2>2, <2>3
<1> QED BY <1>7 DEF Queued

(* A runner that neither starts nor stops holding a slot leaves who holds  *)
(* what as it is.                                                          *)
LEMMA HeldKept ==
  ASSUME Typed, NEW t \in Runners,
         \A u \in Runners \ {t} : pc'[u] = pc[u] /\ job'[u] = job[u],
         HoldsSlot(t) => HoldsSlot(t)' /\ job'[t] = job[t]
  PROVE  \A c : Held(c) => Held(c)'
  BY DEF Held, HoldsSlot

LEMMA OwnedStep ==
  Typed /\ NoStrandedCheck /\ [Next \/ Reset]_vars => NoStrandedCheck'
<1> SUFFICES ASSUME Typed, \A c \in inflight : Queued(c) \/ Held(c),
                    [Next \/ Reset]_vars, NEW c \in inflight'
             PROVE  Queued(c)' \/ Held(c)'
  BY OwnedIsQueuedOrHeld, OwnedNext
<1>1. CASE UNCHANGED <<inflight, pending, pc, job>>
  BY <1>1 DEF Queued, Held, HoldsSlot
<1>2. ASSUME NEW r \in Runs, QueueCheck(r) PROVE Queued(c)' \/ Held(c)'
  <2>1. Held(c) => Held(c)'
    BY <1>2 DEF QueueCheck, runnerVars, Held, HoldsSlot
  <2> QED BY <1>2, <2>1, QueueKeeps DEF QueueCheck
<1>3. ASSUME NEW t \in Runners, TakeNext(t) PROVE Queued(c)' \/ Held(c)'
  <2>1. Held(c) => Held(c)'
    BY <1>3, HeldKept DEF TakeNext, HoldsSlot, Typed, TypeOK
  <2> QED BY <1>3, <2>1, TakeKeeps DEF TakeNext
<1>4. ASSUME NEW t \in Runners,
             Retire(t) \/ StartProbe(t) \/ FinishProbe(t) \/ ExecutionRaises(t) \/ ReportResult(t)
      PROVE  Queued(c)' \/ Held(c)'
  <2>1. UNCHANGED <<inflight, pending>>
    BY <1>4 DEF Retire, StartProbe, FinishProbe, ExecutionRaises, ReportResult, queueVars
  <2>2. Held(c) => Held(c)'
    BY <1>4, HeldKept
    DEF Retire, StartProbe, FinishProbe, ExecutionRaises, ReportResult, HoldsSlot,
        Typed, TypeOK
  <2> QED BY <2>1, <2>2 DEF Queued
<1>5. ASSUME NEW t \in Runners, ReleaseSlot(t) PROVE Queued(c)' \/ Held(c)'
  <2>1. inflight' = inflight \ {job[t].check} /\ UNCHANGED <<pending, job>>
    BY <1>5 DEF ReleaseSlot, GiveBack
  <2>2. \A u \in Runners \ {t} : pc'[u] = pc[u]
    BY <1>5 DEF ReleaseSlot, Typed, TypeOK
  <2> QED BY <2>1, <2>2 DEF Queued, Held, HoldsSlot
<1>6. ASSUME NEW t \in Runners, WorkerFaults(t) PROVE Queued(c)' \/ Held(c)'
  <2>1. key[t] \in Keys /\ ~HoldsSlot(t)
    BY <1>6 DEF WorkerFaults, HoldsSlot, Typed, RunnersOK
  <2>2. c \in inflight /\ c \notin ChecksIn(pending[key[t]])
    BY <1>6 DEF WorkerFaults, AbandonWorker
  <2>3. \A l \in Keys : l # key[t] => pending'[l] = pending[l]
    BY <1>6 DEF WorkerFaults, AbandonWorker, Typed, TypeOK
  <2>4. Held(c) => Held(c)'
    BY <1>6, <2>1, HeldKept DEF WorkerFaults, Typed, TypeOK
  <2> QED BY <2>2, <2>3, <2>4 DEF Queued, ChecksIn
<1>7. CASE Reset
  BY <1>7 DEF Reset, ClearBackground
<1>8. ASSUME NEW t \in Runners, StartThread(t) \/ (t = Main /\ StartFails)
      PROVE  Queued(c)' \/ Held(c)'
  <2>1. UNCHANGED <<inflight, pending, job>> /\ pc[t] = "gone"
    BY <1>8 DEF StartThread, StartFails, queueVars, Typed, RunnersOK
  <2>2. \A u \in Runners \ {t} : pc'[u] = pc[u]
    BY <1>8 DEF StartThread, StartFails, Typed, TypeOK
  <2>3. Held(c) => Held(c)'
    BY <2>1, <2>2, HeldKept DEF HoldsSlot
  <2> QED BY <2>1, <2>3 DEF Queued
<1> QED
  BY <1>1, <1>2, <1>3, <1>4, <1>5, <1>6, <1>7, <1>8
  DEF Next, MainNext, WorkerStep, vars, queueVars, runnerVars, IntervalElapses, Runners,
      BeginStep, SnapshotDue, RequestRefresh, SkipInflight, FlushDrained, FinishBatch,
      EndStep, DrainCompleted, PopCompleted

(* No in-flight slot is ever without an owner.                             *)
THEOREM NeverStranded == ResetSpec => []NoStrandedCheck
<1>1. Init => NoStrandedCheck
  BY DEF Init, NoStrandedCheck
<1> QED BY <1>1, InitTyped, TypedStep, OwnedStep, PTL DEF ResetSpec

(* A registered key has a live worker, or one about to be started: queued  *)
(* checks are worked off also after faults and resets.                     *)
THEOREM NeverWedged == ResetSpec => []NotWedged
<1>1. Init => RegisteredWorkerLives /\ QueuedHasWorker
  BY DEF Init, RegisteredWorkerLives, QueuedHasWorker
<1> QED BY <1>1, InitTyped, TypedStep, RegisteredStep, QueuedStep, PTL
           DEF ResetSpec, NotWedged

-----------------------------------------------------------------------------
(* A check has one slot at most: it is queued once or held once before its *)
(* release, as long as nobody resets the runtime. That is inductive only   *)
(* together with the converse of NoStrandedCheck: whoever is queued or     *)
(* holds a slot is in flight, so the guard of _queue_check sees it.        *)
SlotsAreTaken == \A c \in Checks : Queued(c) \/ Held(c) => c \in inflight

OneSlot == SingleFlight /\ SlotsAreTaken

LEMMA SlotsAreTakenNext ==
  SlotsAreTaken' <=> \A c \in Checks : Queued(c)' \/ Held(c)' => c \in inflight'
  BY DEF SlotsAreTaken

(* What the two steps that move one run do to the queues.                 *)
LEMMA QueueGrows ==
  ASSUME Typed, NEW r \in Runs, QueueCheck(r)
  PROVE  \A l \in Keys : \A i \in DOMAIN pending'[l] :
           \/ i \in DOMAIN pending[l] /\ pending'[l][i] = pending[l][i]
           \/ l = WorkerKey(r.check) /\ i = Len(pending[l]) + 1 /\ pending'[l][i] = r
<1> DEFINE k == WorkerKey(r.check)
           q == pending[k]
<1>1. k \in Keys /\ q \in Seq(Runs)
  BY RunKey DEF Typed, TypeOK
<1>2. pending' = [pending EXCEPT ![k] = Append(q, r)]
  BY DEF QueueCheck
<1>3. \A i \in DOMAIN Append(q, r) :
        \/ i \in DOMAIN q /\ Append(q, r)[i] = q[i]
        \/ i = Len(q) + 1 /\ Append(q, r)[i] = r
  BY <1>1
<1>4. pending'[k] = Append(q, r)
  BY <1>1, <1>2 DEF Typed, TypeOK
<1>5. \A l \in Keys : l # k => pending'[l] = pending[l]
  BY <1>2 DEF Typed, TypeOK
<1> QED BY <1>3, <1>4, <1>5

LEMMA QueueShrinks ==
  ASSUME Typed, NEW t \in Runners, TakeNext(t)
  PROVE  /\ key[t] \in Keys /\ 1 \in DOMAIN pending[key[t]]
         /\ job' = [job EXCEPT ![t] = pending[key[t]][1]]
         /\ pending[key[t]][1] \in Runs
         /\ \A i \in DOMAIN pending'[key[t]] :
              i \in Nat /\ i + 1 # 1 /\ i + 1 \in DOMAIN pending[key[t]] /\ pending'[key[t]][i] = pending[key[t]][i + 1]
         /\ \A l \in Keys : l # key[t] => pending'[l] = pending[l]
<1> DEFINE k == key[t]
           q == pending[k]
<1>1. k \in Keys /\ q \in Seq(Runs) /\ q # <<>>
  BY DEF Typed, TypeOK, RunnersOK, TakeNext
<1>2. pending' = [pending EXCEPT ![k] = Tail(q)]
  BY DEF TakeNext, Dequeue
<1>3. \A l \in Keys : l # k => pending'[l] = pending[l]
  BY <1>2 DEF Typed, TypeOK
<1>4. pending'[k] = Tail(q)
  BY <1>1, <1>2 DEF Typed, TypeOK
<1>5. \A i \in DOMAIN Tail(q) : i \in Nat /\ i + 1 # 1 /\ i + 1 \in DOMAIN q /\ Tail(q)[i] = q[i + 1]
  BY <1>1
<1>6. 1 \in DOMAIN q /\ q[1] = Head(q) /\ q[1] \in Runs
  BY <1>1
<1>7. job' = [job EXCEPT ![t] = Head(q)]
  BY DEF TakeNext
<1> QED BY <1>1, <1>3, <1>4, <1>5, <1>6, <1>7

(* What every step does to who is queued and who is held. The check of a   *)
(* run in hand is named d: primed, job[t] is another run.                  *)
LEMMA QueueCheckEffect ==
  ASSUME Typed, NEW r \in Runs, QueueCheck(r)
  PROVE  \A c : /\ Queued(c)' <=> Queued(c) \/ c = r.check
                /\ Held(c)' <=> Held(c)
<1>1. \A c : Queued(c)' => Queued(c) \/ c = r.check
  BY QueueGrows DEF Queued
<1>2. \A c : Held(c)' <=> Held(c)
  BY DEF QueueCheck, runnerVars, Held, HoldsSlot
<1> QED BY <1>1, <1>2, QueueKeeps

LEMMA TakeNextEffect ==
  ASSUME Typed, SingleFlight, NEW t \in Runners, TakeNext(t),
         NEW d, d = pending[key[t]][1].check
  PROVE  /\ d \in Checks /\ Queued(d) /\ ~Held(d)
         /\ \A c : /\ Queued(c)' <=> Queued(c) /\ c # d
                   /\ Held(c)' <=> Held(c) \/ c = d
<1> DEFINE k == key[t]
<1>1. k \in Keys /\ 1 \in DOMAIN pending[k] /\ d \in Checks
  BY QueueShrinks, RunKey
<1>2. Queued(d)
  BY <1>1 DEF Queued
<1>3. ~Held(d)
  BY <1>1 DEF SingleFlight, Held, ChecksIn
<1>4. ASSUME NEW c, NEW l \in Keys, NEW i \in DOMAIN pending'[l], pending'[l][i].check = c
      PROVE  Queued(c) /\ c # d
  <2>1. CASE l = k
    BY <1>1, <1>4, <2>1, QueueShrinks DEF SingleFlight, Queued
  <2>2. CASE l # k
    BY <1>1, <1>4, <2>2, QueueShrinks DEF SingleFlight, Queued
  <2> QED BY <2>1, <2>2
<1>5. /\ pc' = [pc EXCEPT ![t] = "ready"] /\ pc[t] = "next"
      /\ job' = [job EXCEPT ![t] = pending[k][1]]
  BY QueueShrinks DEF TakeNext
<1>6. \A c : Held(c)' <=> Held(c) \/ c = d
  BY <1>5 DEF Held, HoldsSlot, Typed, TypeOK
<1>7. \A c : Queued(c) => ~Held(c)
  BY DEF Queued, Held, SingleFlight, ChecksIn
<1>8. \A c : Queued(c)' => Queued(c) /\ c # d
  BY <1>4 DEF Queued
<1> QED BY <1>1, <1>2, <1>3, <1>6, <1>7, <1>8, TakeKeeps

LEMMA ReleaseEffect ==
  ASSUME Typed, SingleFlight, NEW t \in Runners, ReleaseSlot(t),
         NEW d, d = job[t].check
  PROVE  /\ d \in Checks /\ Held(d) /\ ~Queued(d)
         /\ \A c : /\ Queued(c)' <=> Queued(c)
                   /\ Held(c)' <=> Held(c) /\ c # d
<1>1. /\ pc[t] = "release" /\ pc' = [pc EXCEPT ![t] = "report"]
      /\ UNCHANGED <<pending, job>>
  BY DEF ReleaseSlot
<1>2. d \in Checks /\ Held(d) /\ ~Queued(d)
  BY <1>1, RunKey DEF Held, HoldsSlot, Holding, Queued, SingleFlight, ChecksIn, Typed, RunnersOK
<1>3. \A c : Queued(c)' <=> Queued(c)
  BY <1>1 DEF Queued
<1>4. \A c : Held(c)' <=> Held(c) /\ c # d
  BY <1>1 DEF Held, HoldsSlot, SingleFlight, Typed, TypeOK
<1> QED BY <1>2, <1>3, <1>4

LEMMA FaultEffect ==
  ASSUME Typed, SingleFlight, NEW t \in Runners, WorkerFaults(t),
         NEW S, S = ChecksIn(pending[key[t]])
  PROVE  /\ \A c \in S : Queued(c) /\ ~Held(c)
         /\ \A c : /\ Queued(c)' <=> Queued(c) /\ c \notin S
                   /\ Held(c)' <=> Held(c)
<1> DEFINE k == key[t]
<1>1. k \in Keys /\ pending' = [pending EXCEPT ![k] = <<>>]
  BY DEF WorkerFaults, AbandonWorker, Typed, RunnersOK
<1>2. pending'[k] = <<>> /\ \A l \in Keys : l # k => pending'[l] = pending[l]
  BY <1>1 DEF Typed, TypeOK
<1>3. \A c \in S : Queued(c) /\ ~Held(c)
  BY <1>1 DEF ChecksIn, Queued, Held, SingleFlight
<1>4. \A c : Queued(c)' => Queued(c) /\ c \notin S
  BY <1>1, <1>2 DEF Queued, ChecksIn, SingleFlight
<1>5. \A c : Queued(c) /\ c \notin S => Queued(c)'
  BY <1>1, <1>2 DEF Queued, ChecksIn
<1>6. \A c : Held(c)' <=> Held(c)
  BY DEF WorkerFaults, Held, HoldsSlot, Typed, TypeOK
<1> QED BY <1>3, <1>4, <1>5, <1>6

(* Every other step leaves the queues and the holders of slots alone.      *)
Moves == \/ \E r \in Runs : QueueCheck(r)
         \/ \E t \in Runners : TakeNext(t) \/ ReleaseSlot(t) \/ WorkerFaults(t)

LEMMA OtherSteps ==
  ASSUME Typed, [Next]_vars, ~Moves
  PROVE  /\ UNCHANGED <<pending, inflight>>
         /\ \A t \in Runners : HoldsSlot(t)' <=> HoldsSlot(t)
         /\ \A t \in Runners : HoldsSlot(t) => job'[t] = job[t]
<1>1. ASSUME NEW t \in Runners,
             Retire(t) \/ StartProbe(t) \/ FinishProbe(t) \/ ReportResult(t)
               \/ ExecutionRaises(t)
      PROVE  /\ UNCHANGED <<pending, inflight>>
             /\ \A u \in Runners : HoldsSlot(u)' <=> HoldsSlot(u)
             /\ \A u \in Runners : HoldsSlot(u) => job'[u] = job[u]
  BY <1>1 DEF Retire, StartProbe, FinishProbe, ReportResult, ExecutionRaises, queueVars,
              HoldsSlot, Typed, TypeOK
<1>2. ASSUME NEW t \in Runners, StartThread(t) \/ (t = Main /\ StartFails)
      PROVE  /\ UNCHANGED <<pending, inflight>>
             /\ \A u \in Runners : HoldsSlot(u)' <=> HoldsSlot(u)
             /\ \A u \in Runners : HoldsSlot(u) => job'[u] = job[u]
  BY <1>2 DEF StartThread, StartFails, queueVars, HoldsSlot, Typed, TypeOK, RunnersOK
<1>3. CASE UNCHANGED <<pending, inflight, pc, job>>
  BY <1>3 DEF HoldsSlot
<1> QED
  BY <1>1, <1>2, <1>3
  DEF Moves, Next, MainNext, WorkerStep, vars, queueVars, runnerVars, IntervalElapses, Runners,
      BeginStep, SnapshotDue, RequestRefresh, SkipInflight, FlushDrained, FinishBatch,
      EndStep, DrainCompleted, PopCompleted

LEMMA SlotsStep == Typed /\ OneSlot /\ [Next]_vars => SlotsAreTaken'
<1> SUFFICES ASSUME Typed, SingleFlight, \A c \in Checks : Queued(c) \/ Held(c) => c \in inflight,
                    [Next]_vars, NEW c \in Checks, Queued(c)' \/ Held(c)'
             PROVE  c \in inflight'
  BY SlotsAreTakenNext DEF OneSlot, SlotsAreTaken
<1>1. ASSUME NEW r \in Runs, QueueCheck(r) PROVE c \in inflight'
  BY <1>1, QueueCheckEffect DEF QueueCheck
<1>2. ASSUME NEW t \in Runners, TakeNext(t) PROVE c \in inflight'
  BY <1>2, TakeNextEffect DEF TakeNext
<1>3. ASSUME NEW t \in Runners, ReleaseSlot(t) PROVE c \in inflight'
  BY <1>3, ReleaseEffect DEF ReleaseSlot, GiveBack
<1>4. ASSUME NEW t \in Runners, WorkerFaults(t) PROVE c \in inflight'
  BY <1>4, FaultEffect DEF WorkerFaults, AbandonWorker
<1>5. CASE ~Moves
  BY <1>5, OtherSteps DEF Queued, Held
<1> QED BY <1>1, <1>2, <1>3, <1>4, <1>5 DEF Moves

LEMMA SingleStep == Typed /\ OneSlot /\ [Next]_vars => SingleFlight'
<1> SUFFICES ASSUME Typed, OneSlot, [Next]_vars PROVE SingleFlight'
  OBVIOUS
<1> DEFINE
      Unique == \A k, l \in Keys : \A i \in DOMAIN pending'[k], j \in DOMAIN pending'[l] :
                  pending'[k][i].check = pending'[l][j].check => k = l /\ i = j
      Apart == \A t, u \in Runners :
                 t # u /\ HoldsSlot(t)' /\ HoldsSlot(u)' => job'[t].check # job'[u].check
      Moved == \A t \in Runners, k \in Keys : \A i \in DOMAIN pending'[k] :
                 HoldsSlot(t)' => job'[t].check # pending'[k][i].check
<1> SUFFICES Unique /\ Apart /\ Moved
  BY DEF SingleFlight, ChecksIn, HoldsSlot
<1> HIDE DEF Unique, Apart, Moved
<1>1. ASSUME NEW r \in Runs, QueueCheck(r) PROVE Unique /\ Apart /\ Moved
  <2>1. ~Queued(r.check) /\ ~Held(r.check)
    BY <1>1, RunKey DEF QueueCheck, Accepts, OneSlot, SlotsAreTaken
  <2>2. UNCHANGED <<pc, job>>
    BY <1>1 DEF QueueCheck, runnerVars
  <2>3. Unique
    BY <1>1, <2>1, QueueGrows DEF Unique, Queued, OneSlot, SingleFlight
  <2>4. Apart
    BY <2>2 DEF Apart, HoldsSlot, OneSlot, SingleFlight
  <2>5. Moved
    BY <1>1, <2>1, <2>2, QueueGrows DEF Moved, Held, HoldsSlot, OneSlot, SingleFlight, ChecksIn
  <2> QED BY <2>3, <2>4, <2>5
<1>2. ASSUME NEW t \in Runners, TakeNext(t) PROVE Unique /\ Apart /\ Moved
  <2> DEFINE k == key[t]
             d == pending[k][1].check
  <2>1. k \in Keys /\ 1 \in DOMAIN pending[k] /\ job' = [job EXCEPT ![t] = pending[k][1]]
    BY <1>2, QueueShrinks
  <2>2. ASSUME NEW l \in Keys, NEW i \in DOMAIN pending'[l]
        PROVE  /\ l = k => i \in Nat /\ i + 1 \in DOMAIN pending[l] /\ i + 1 # 1
                           /\ pending'[l][i] = pending[l][i + 1]
               /\ l # k => pending'[l] = pending[l]
    BY <1>2, QueueShrinks
  <2>3. pc' = [pc EXCEPT ![t] = "ready"] /\ pc[t] = "next"
    BY <1>2 DEF TakeNext
  <2> HIDE DEF k
  <2>4. Unique
    BY <2>1, <2>2 DEF Unique, OneSlot, SingleFlight
  <2>5. Apart
    BY <2>1, <2>3 DEF Apart, HoldsSlot, OneSlot, SingleFlight, ChecksIn, Typed, TypeOK
  <2>6. Moved
    <3> SUFFICES ASSUME NEW u \in Runners, NEW l \in Keys, NEW i \in DOMAIN pending'[l], HoldsSlot(u)'
                 PROVE  job'[u].check # pending'[l][i].check
      BY DEF Moved
    <3>1. PICK j \in DOMAIN pending[l] : pending'[l][i] = pending[l][j] /\ (l = k => j # 1)
      BY <2>2
    <3>2. CASE u = t
      <4>1. job'[u].check = pending[k][1].check
        BY <2>1, <3>2 DEF Typed, TypeOK
      <4> QED BY <2>1, <3>1, <4>1 DEF OneSlot, SingleFlight
    <3>3. CASE u # t
      <4>1. HoldsSlot(u) /\ job'[u] = job[u]
        BY <2>1, <2>3, <3>3 DEF HoldsSlot, Typed, TypeOK
      <4> QED BY <3>1, <4>1 DEF OneSlot, SingleFlight, ChecksIn
    <3> QED BY <3>2, <3>3
  <2> QED BY <2>4, <2>5, <2>6
<1>3. ASSUME NEW t \in Runners, ReleaseSlot(t) PROVE Unique /\ Apart /\ Moved
  <2>1. UNCHANGED <<pending, job>> /\ \A u \in Runners : HoldsSlot(u)' => HoldsSlot(u)
    BY <1>3 DEF ReleaseSlot, HoldsSlot, Typed, TypeOK
  <2> QED BY <2>1 DEF Unique, Apart, Moved, OneSlot, SingleFlight, ChecksIn
<1>4. ASSUME NEW t \in Runners, WorkerFaults(t) PROVE Unique /\ Apart /\ Moved
  <2>1. key[t] \in Keys /\ pending' = [pending EXCEPT ![key[t]] = <<>>]
    BY <1>4 DEF WorkerFaults, AbandonWorker, Typed, RunnersOK
  <2>2. ASSUME NEW l \in Keys, NEW i \in DOMAIN pending'[l]
        PROVE  pending'[l] = pending[l]
    BY <2>1 DEF Typed, TypeOK
  <2>3. \A u \in Runners : HoldsSlot(u)' => HoldsSlot(u) /\ job'[u] = job[u]
    BY <1>4 DEF WorkerFaults, HoldsSlot, Typed, TypeOK
  <2> QED BY <2>2, <2>3 DEF Unique, Apart, Moved, OneSlot, SingleFlight, ChecksIn
<1>5. CASE ~Moves
  BY <1>5, OtherSteps DEF Unique, Apart, Moved, OneSlot, SingleFlight, ChecksIn
<1> QED BY <1>1, <1>2, <1>3, <1>4, <1>5 DEF Moves

LEMMA InitOneSlot == Init => OneSlot
  BY DEF Init, OneSlot, SingleFlight, SlotsAreTaken, Queued, Held, HoldsSlot

(* No check is queued twice, held twice, or queued while it is held.       *)
THEOREM SlotsAreSingle == Spec => []SingleFlight
<1>1. OneSlot => SingleFlight
  BY DEF OneSlot
<1>2. Typed /\ OneSlot /\ [Next]_vars => OneSlot'
  BY SlotsStep, SingleStep DEF OneSlot
<1> QED BY <1>1, <1>2, InitOneSlot, SpecTyped, PTL DEF Spec

-----------------------------------------------------------------------------
(* Every accepted run is in one place until its result is applied. The     *)
(* places are counted: with a single slot per check the queues hold one or *)
(* no run of it, the runners a finite set, the results a number.           *)
LEMMA CountInQueues ==
  ASSUME NEW q, NEW c,
         \A k, l \in Keys : \A i \in DOMAIN q[k], j \in DOMAIN q[l] :
           q[k][i].check = q[l][j].check => k = l /\ i = j
  PROVE  Cardinality({p \in UNION {{k} \X DOMAIN q[k] : k \in Keys} : q[p[1]][p[2]].check = c})
           = IF \E k \in Keys : \E i \in DOMAIN q[k] : q[k][i].check = c THEN 1 ELSE 0
<1> DEFINE P == {p \in UNION {{k} \X DOMAIN q[k] : k \in Keys} : q[p[1]][p[2]].check = c}
<1>1. CASE \E k \in Keys : \E i \in DOMAIN q[k] : q[k][i].check = c
  <2>1. PICK k \in Keys : \E i \in DOMAIN q[k] : q[k][i].check = c
    BY <1>1
  <2>2. PICK i \in DOMAIN q[k] : q[k][i].check = c
    BY <2>1
  <2>3. P = {<<k, i>>}
    BY <2>2
  <2>4. Cardinality(P) = 1
    BY <2>3, FS_Singleton
  <2> QED BY <1>1, <2>4
<1>2. CASE ~\E k \in Keys : \E i \in DOMAIN q[k] : q[k][i].check = c
  <2>1. P = {}
    BY <1>2
  <2> QED BY <1>2, <2>1, FS_EmptySet
<1> QED BY <1>1, <1>2

LEMMA CountInQueue ==
  ASSUME NEW q, NEW c,
         \A i, j \in DOMAIN q : q[i].check = q[j].check => i = j
  PROVE  Cardinality({i \in DOMAIN q : q[i].check = c})
           = IF \E i \in DOMAIN q : q[i].check = c THEN 1 ELSE 0
<1> DEFINE P == {i \in DOMAIN q : q[i].check = c}
<1>1. CASE \E i \in DOMAIN q : q[i].check = c
  <2>1. PICK i \in DOMAIN q : q[i].check = c
    BY <1>1
  <2>2. P = {i}
    BY <2>1
  <2> QED BY <1>1, <2>2, FS_Singleton
<1>2. CASE ~\E i \in DOMAIN q : q[i].check = c
  <2>1. P = {}
    BY <1>2
  <2> QED BY <1>2, <2>1, FS_EmptySet
<1> QED BY <1>1, <1>2

LEMMA CountAppended ==
  ASSUME NEW s \in Seq(Checks), NEW d \in Checks, NEW c
  PROVE  CountOf(Append(s, d), c) = CountOf(s, c) + (IF c = d THEN 1 ELSE 0)
<1> DEFINE old == {i \in DOMAIN s : s[i] = c}
           new == {i \in DOMAIN Append(s, d) : Append(s, d)[i] = c}
<1>1. IsFiniteSet(old) /\ Cardinality(old) \in Nat
  <2>1. IsFiniteSet(DOMAIN s)
    BY FS_Interval
  <2> QED BY <2>1, FS_Subset, FS_CardinalityType
<1>2. Len(s) + 1 \notin old
  OBVIOUS
<1>3. new = IF c = d THEN old \cup {Len(s) + 1} ELSE old
  OBVIOUS
<1>4. Cardinality(old \cup {Len(s) + 1}) = Cardinality(old) + 1
  BY <1>1, <1>2, FS_AddElement
<1>5. CountOf(s, c) = Cardinality(old) /\ CountOf(Append(s, d), c) = Cardinality(new)
  BY DEF CountOf
<1> HIDE DEF old, new
<1> QED BY <1>1, <1>3, <1>4, <1>5

LEMMA CountEmpty == \A c : CountOf(<<>>, c) = 0
  BY FS_EmptySet DEF CountOf

LEMMA RunnerAdded ==
  ASSUME NEW T \in SUBSET Runners, NEW t \in Runners, t \notin T
  PROVE  Cardinality(T \cup {t}) = Cardinality(T) + 1
<1>1. IsFiniteSet(T)
  BY ConstantsAssumption, FS_AddElement, FS_Subset DEF Runners, ConstantsAssumption
<1> QED BY <1>1, FS_AddElement

(* Who holds a run of a check, and what the three places add up to.        *)
HolderSet(c) == {t \in Runners : Holding(t) /\ job[t].check = c}
QueuedCount(c) == IF Queued(c) THEN 1 ELSE 0

LEMMA OutstandingIs ==
  SingleFlight => \A c : Outstanding(c) = QueuedCount(c) + Cardinality(HolderSet(c)) + CountOf(completed, c)
<1> SUFFICES ASSUME SingleFlight, NEW c
             PROVE  Outstanding(c) = QueuedCount(c) + Cardinality(HolderSet(c)) + CountOf(completed, c)
  OBVIOUS
<1>1. \A k, l \in Keys : \A i \in DOMAIN pending[k], j \in DOMAIN pending[l] :
           pending[k][i].check = pending[l][j].check => k = l /\ i = j
  BY DEF SingleFlight
<1>2. Cardinality({p \in UNION {{k} \X DOMAIN pending[k] : k \in Keys} :
                 pending[p[1]][p[2]].check = c}) = QueuedCount(c)
  BY ONLY <1>1, CountInQueues DEF QueuedCount, Queued
<1> QED BY <1>2 DEF Outstanding, HolderSet

LEMMA OutstandingNext ==
  SingleFlight' => \A c : Outstanding(c)' = QueuedCount(c)' + Cardinality(HolderSet(c)') + CountOf(completed', c)
<1>1. (SingleFlight => \A c : Outstanding(c) = QueuedCount(c) + Cardinality(HolderSet(c)) + CountOf(completed, c))'
  BY OutstandingIs, PTL
<1> QED BY <1>1 DEF CountOf, HolderSet

LEMMA CountTypes ==
  ASSUME Typed, NEW c \in Checks
  PROVE  /\ QueuedCount(c) \in Nat /\ Cardinality(HolderSet(c)) \in Nat
         /\ CountOf(completed, c) \in Nat /\ owed[c] \in Int
<1>1. completed \in Seq(Checks) /\ owed \in [Checks -> Int]
  BY DEF Typed, TypeOK
<1>2. CountOf(completed, c) \in Nat
  BY <1>1, CountIsNat DEF CountOf
<1>3. Cardinality(HolderSet(c)) \in Nat
  BY RunnersAreFinite DEF HolderSet
<1> QED BY <1>1, <1>2, <1>3 DEF QueuedCount

LEMMA NothingLostStep ==
  Typed /\ OneSlot /\ NoLostResult /\ [Next]_vars => NoLostResult'
<1> SUFFICES ASSUME Typed, OneSlot, NoLostResult, [Next]_vars, NEW c \in Checks
             PROVE  owed'[c] = Outstanding(c)'
  BY DEF NoLostResult
<1> DEFINE q == QueuedCount(c)
           h == Cardinality(HolderSet(c))
           n == CountOf(completed, c)
           q1 == QueuedCount(c)'
           h1 == Cardinality(HolderSet(c)')
           n1 == CountOf(completed', c)
<1>1. owed[c] = q + h + n
  BY OutstandingIs DEF OneSlot, NoLostResult
<1>2. q \in Nat /\ h \in Nat /\ n \in Nat /\ owed[c] \in Int
  BY CountTypes
<1> SUFFICES owed'[c] = q1 + h1 + n1
  BY OutstandingNext, SingleStep
<1>3. (\A u \in Runners : (Holding(u)' <=> Holding(u)) /\ (Holding(u) => job'[u] = job[u])) => h1 = h
  BY DEF HolderSet
<1>4. pending' = pending => q1 = q
  BY DEF QueuedCount, Queued
<1>5. completed' = completed => n1 = n
  OBVIOUS
<1>6. UNCHANGED <<pc, job>> => h1 = h
  BY DEF HolderSet, Holding
<1> HIDE DEF q, h, n, q1, h1, n1
<1>7. CASE BeginStep \/ FlushDrained \/ EndStep
  <2>1. UNCHANGED <<pending, pc, job>> /\ completed' = <<>> /\ owed'[c] = owed[c] - n
    BY <1>7 DEF BeginStep, FlushDrained, EndStep, DrainCompleted, PopCompleted, runnerVars, n
  <2>2. n1 = 0
    BY <2>1, CountEmpty DEF n1
  <2> QED BY <1>1, <1>2, <1>4, <1>6, <2>1, <2>2
<1>8. ASSUME NEW r \in Runs, QueueCheck(r) PROVE owed'[c] = q1 + h1 + n1
  <2>1. UNCHANGED <<completed, pc, job>> /\ owed' = [owed EXCEPT ![r.check] = @ + 1]
    BY <1>8 DEF QueueCheck, runnerVars
  <2>2. ~Queued(r.check)
    BY <1>8, RunKey DEF QueueCheck, Accepts, OneSlot, SlotsAreTaken
  <2>3. q1 = IF c = r.check THEN q + 1 ELSE q
    BY <1>8, <2>2, QueueCheckEffect DEF q, q1, QueuedCount
  <2>4. owed'[c] = IF c = r.check THEN owed[c] + 1 ELSE owed[c]
    BY <2>1 DEF Typed, TypeOK
  <2> QED BY <1>1, <1>2, <1>5, <1>6, <2>1, <2>3, <2>4
<1>9. ASSUME NEW t \in Runners, TakeNext(t) PROVE owed'[c] = q1 + h1 + n1
  <2> DEFINE k == key[t]
  <2>1. PICK d : d = pending[k][1].check
    OBVIOUS
  <2>2. Queued(d) /\ (Queued(c)' <=> Queued(c) /\ c # d)
    BY <1>9, <2>1, TakeNextEffect DEF OneSlot
  <2>3. q1 = IF c = d THEN q - 1 ELSE q
    BY <2>2 DEF q, q1, QueuedCount
  <2>4. /\ UNCHANGED <<completed, owed>> /\ pc[t] = "next" /\ pc' = [pc EXCEPT ![t] = "ready"]
        /\ job' = [job EXCEPT ![t] = pending[k][1]]
    BY <1>9, QueueShrinks DEF TakeNext
  <2>5. t \notin HolderSet(c) /\ HolderSet(c) \in SUBSET Runners
    BY <2>4 DEF HolderSet, Holding
  <2>6. HolderSet(c)' = IF c = d THEN HolderSet(c) \cup {t} ELSE HolderSet(c)
    BY <2>1, <2>4 DEF HolderSet, Holding, Typed, TypeOK
  <2>7. h1 = IF c = d THEN h + 1 ELSE h
    BY <2>5, <2>6, RunnerAdded DEF h, h1
  <2> QED BY <1>1, <1>2, <1>5, <2>3, <2>4, <2>7
<1>10. ASSUME NEW t \in Runners, ReportResult(t) PROVE owed'[c] = q1 + h1 + n1
  <2>1. /\ pc[t] = "report" /\ pc' = [pc EXCEPT ![t] = "next"]
        /\ job' = [job EXCEPT ![t] = NoRun] /\ UNCHANGED <<pending, owed>>
        /\ completed' = Append(completed, job[t].check)
    BY <1>10 DEF ReportResult, Report
  <2>2. job[t].check \in Checks
    BY <2>1, RunKey DEF Typed, RunnersOK, Holding
  <2>3. n1 = n + (IF c = job[t].check THEN 1 ELSE 0)
    BY <2>1, <2>2, CountAppended DEF n, n1, Typed, TypeOK
  <2>4. t \notin HolderSet(c)' /\ HolderSet(c)' \in SUBSET Runners
    BY <2>1 DEF HolderSet, Holding, Typed, TypeOK
  <2>5. HolderSet(c) = IF c = job[t].check THEN HolderSet(c)' \cup {t} ELSE HolderSet(c)'
    BY <2>1 DEF HolderSet, Holding, Typed, TypeOK
  <2>6. h = IF c = job[t].check THEN h1 + 1 ELSE h1
    BY <2>4, <2>5, RunnerAdded DEF h, h1
  <2>7. h1 \in Nat
    BY <2>4, RunnersAreFinite DEF h1
  <2> QED BY <1>1, <1>2, <1>4, <2>1, <2>3, <2>6, <2>7
<1>11. ASSUME NEW t \in Runners, WorkerFaults(t) PROVE owed'[c] = q1 + h1 + n1
  <2> DEFINE k == key[t]
             lost == Cardinality({i \in DOMAIN pending[k] : pending[k][i].check = c})
  <2>1. PICK S : S = ChecksIn(pending[k])
    OBVIOUS
  <2>2. k \in Keys
    BY <1>11 DEF WorkerFaults, Typed, RunnersOK
  <2>3. \A i, j \in DOMAIN pending[k] : pending[k][i].check = pending[k][j].check => i = j
    BY <2>2 DEF OneSlot, SingleFlight
  <2>4. lost = IF c \in S THEN 1 ELSE 0
    <3>1. lost = IF \E i \in DOMAIN pending[k] : pending[k][i].check = c THEN 1 ELSE 0
      BY ONLY <2>3, CountInQueue
    <3> QED BY <2>1, <3>1 DEF ChecksIn
  <2>5. (c \in S => Queued(c)) /\ (Queued(c)' <=> Queued(c) /\ c \notin S)
    BY <1>11, <2>1, FaultEffect DEF OneSlot
  <2>6. q1 = IF c \in S THEN q - 1 ELSE q
    BY <2>5 DEF q, q1, QueuedCount
  <2>7. /\ pc[t] \in {"next", "report"} /\ pc' = [pc EXCEPT ![t] = "gone"]
        /\ job' = [job EXCEPT ![t] = NoRun] /\ UNCHANGED completed
        /\ owed'[c] = owed[c] - LostRuns(t, c)
    BY <1>11 DEF WorkerFaults
  <2>8. t \notin HolderSet(c)' /\ HolderSet(c)' \in SUBSET Runners
    BY <2>7 DEF HolderSet, Holding, Typed, TypeOK
  <2>9. HolderSet(c) = IF pc[t] = "report" /\ job[t].check = c THEN HolderSet(c)' \cup {t} ELSE HolderSet(c)'
    BY <2>7 DEF HolderSet, Holding, Typed, TypeOK
  <2>10. h = IF pc[t] = "report" /\ job[t].check = c THEN h1 + 1 ELSE h1
    BY <2>8, <2>9, RunnerAdded DEF h, h1
  <2>11. h1 \in Nat
    BY <2>8, RunnersAreFinite DEF h1
  <2>12. LostRuns(t, c) = (IF pc[t] = "report" /\ job[t].check = c THEN 1 ELSE 0) + lost
    BY DEF LostRuns
  <2> HIDE DEF lost
  <2> QED BY <1>1, <1>2, <1>5, <2>4, <2>6, <2>7, <2>10, <2>11, <2>12
<1>12. ASSUME NEW t \in Runners,
              \/ Retire(t) \/ StartProbe(t) \/ FinishProbe(t) \/ ReleaseSlot(t) \/ ExecutionRaises(t)
              \/ StartThread(t) \/ (t = Main /\ StartFails)
       PROVE  owed'[c] = q1 + h1 + n1
  <2>1. UNCHANGED <<pending, completed, owed, job>>
    BY <1>12 DEF Retire, StartProbe, FinishProbe, ReleaseSlot, ExecutionRaises, StartThread,
                 StartFails, queueVars
  <2>2. \A u \in Runners : Holding(u)' <=> Holding(u)
    BY <1>12 DEF Retire, StartProbe, FinishProbe, ReleaseSlot, ExecutionRaises, StartThread,
                 StartFails, Holding, Typed, TypeOK, RunnersOK
  <2> QED BY <1>1, <1>3, <1>4, <1>5, <2>1, <2>2
<1>13. CASE UNCHANGED <<pending, completed, owed, pc, job>>
  BY <1>1, <1>4, <1>5, <1>6, <1>13
<1> QED
  BY <1>7, <1>8, <1>9, <1>10, <1>11, <1>12, <1>13
  DEF Next, MainNext, WorkerStep, vars, queueVars, runnerVars, IntervalElapses, Runners,
      SnapshotDue, RequestRefresh, SkipInflight, FinishBatch

(* No result is lost or applied twice, however many checks, threads and    *)
(* faults there are: a fault drops exactly the runs it takes off owed.     *)
THEOREM NothingIsLost == Spec => []NoLostResult
<1>1. Init => NoLostResult
  <2> SUFFICES ASSUME Init, NEW c \in Checks PROVE owed[c] = Outstanding(c)
    BY DEF NoLostResult
  <2>1. owed[c] = 0 /\ completed = <<>> /\ HolderSet(c) = {} /\ ~Queued(c)
    BY DEF Init, HolderSet, Holding, Queued
  <2>2. Cardinality(HolderSet(c)) = 0
    BY <2>1, FS_EmptySet
  <2> QED BY <2>1, <2>2, CountEmpty, OutstandingIs, InitOneSlot DEF QueuedCount, OneSlot
<1>2. Typed /\ OneSlot /\ [Next]_vars => OneSlot'
  BY SlotsStep, SingleStep DEF OneSlot
<1> QED BY <1>1, <1>2, InitOneSlot, SpecTyped, NothingLostStep, PTL DEF Spec

-----------------------------------------------------------------------------
(* Probes of one worker key do not overlap, as long as nobody resets the   *)
(* runtime. The invariant behind it: a key is registered from before its   *)
(* runner starts until it has stopped, so a second runner is never started *)
(* for it, and a run stays with the key it was queued under.               *)
OneRunnerPerKey ==
  /\ \A t \in Runners : Live(t) => key[t] \in active
  /\ \A t, u \in Runners : Live(t) /\ Live(u) /\ key[t] = key[u] => t = u
  /\ main = "spawn" => spawn \in active /\ \A t \in Runners : Live(t) => key[t] # spawn

RunsUnderTheirKey ==
  /\ \A k \in Keys : \A i \in DOMAIN pending[k] : WorkerKey(pending[k][i].check) = k
  /\ \A t \in Runners : HoldsSlot(t) => WorkerKey(job[t].check) = key[t]

LEMMA OneRunnerStep ==
  Typed /\ OneRunnerPerKey /\ [Next]_vars => OneRunnerPerKey'
<1> SUFFICES ASSUME Typed, OneRunnerPerKey, [Next]_vars
             PROVE  OneRunnerPerKey'
  OBVIOUS
<1> USE DEF OneRunnerPerKey, Live, Typed, TypeOK, RunnersOK, Runners
<1>1. CASE UNCHANGED <<active, key, pc>> /\ main # "spawn" /\ main' # "spawn"
  BY <1>1
<1>2. CASE UNCHANGED <<active, key, pc, main, spawn>>
  BY <1>2
<1>3. ASSUME NEW r \in Runs, QueueCheck(r) PROVE OneRunnerPerKey'
  BY <1>3 DEF QueueCheck, IsServed, runnerVars
<1>4. ASSUME NEW t \in Threads, StartThread(t) PROVE OneRunnerPerKey'
  BY <1>4 DEF StartThread, queueVars
<1>5. CASE StartFails
  BY <1>5 DEF StartFails, queueVars
<1>6. ASSUME NEW t \in Runners,
             UNCHANGED <<active, key, main, spawn>>,
             pc[t] # "gone", \E p : pc' = [pc EXCEPT ![t] = p] /\ p # "gone"
      PROVE  OneRunnerPerKey'
  BY <1>6
<1>7. ASSUME NEW t \in Runners, Retire(t) PROVE OneRunnerPerKey'
  BY <1>7 DEF Retire
<1>8. ASSUME NEW t \in Runners, WorkerFaults(t) PROVE OneRunnerPerKey'
  BY <1>8 DEF WorkerFaults, AbandonWorker, mainVars
<1>9. ASSUME NEW t \in Runners,
             TakeNext(t) \/ StartProbe(t) \/ FinishProbe(t) \/ ReleaseSlot(t)
               \/ ReportResult(t) \/ ExecutionRaises(t)
      PROVE  OneRunnerPerKey'
  <2>1. UNCHANGED <<active, key, main, spawn>> /\ pc[t] # "gone"
    BY <1>9 DEF TakeNext, StartProbe, FinishProbe, ReleaseSlot, ReportResult,
                ExecutionRaises, queueVars, mainVars
  <2>2. \E p : pc' = [pc EXCEPT ![t] = p] /\ p # "gone"
    BY <1>9 DEF TakeNext, StartProbe, FinishProbe, ReleaseSlot, ReportResult,
                ExecutionRaises
  <2> QED BY <1>6, <2>1, <2>2
<1> QED
  BY <1>1, <1>2, <1>3, <1>4, <1>5, <1>7, <1>8, <1>9
  DEF Next, MainNext, WorkerStep, vars, queueVars, runnerVars, mainVars, IntervalElapses,
      BeginStep, SnapshotDue, RequestRefresh, SkipInflight, FlushDrained, FinishBatch,
      EndStep, DrainCompleted, PopCompleted

LEMMA UnderKeyStep ==
  Typed /\ RunsUnderTheirKey /\ [Next]_vars => RunsUnderTheirKey'
<1> SUFFICES ASSUME Typed, RunsUnderTheirKey, [Next]_vars
             PROVE  RunsUnderTheirKey'
  OBVIOUS
<1> USE DEF RunsUnderTheirKey, HoldsSlot, Typed, TypeOK, RunnersOK, Runners
<1>1. CASE UNCHANGED <<pending, pc, job, key>>
  BY <1>1
<1>2. ASSUME NEW r \in Runs, QueueCheck(r) PROVE RunsUnderTheirKey'
  <2> DEFINE k == WorkerKey(r.check)
             q == pending[k]
  <2>1. k \in Keys /\ q \in Seq(Runs)
    BY RunKey
  <2>2. pending' = [pending EXCEPT ![k] = Append(q, r)] /\ UNCHANGED <<pc, job, key>>
    BY <1>2 DEF QueueCheck, runnerVars
  <2>3. \A i \in DOMAIN Append(q, r) :
          Append(q, r)[i] = r \/ (i \in DOMAIN q /\ Append(q, r)[i] = q[i])
    BY <2>1
  <2>4. \A i \in DOMAIN pending'[k] : WorkerKey(pending'[k][i].check) = k
    BY <2>1, <2>2, <2>3
  <2>5. \A l \in Keys : l # k => pending'[l] = pending[l]
    BY <2>2
  <2> QED BY <2>2, <2>4, <2>5
<1>3. ASSUME NEW t \in Runners, TakeNext(t) PROVE RunsUnderTheirKey'
  <2> DEFINE k == key[t]
             q == pending[k]
  <2>1. k \in Keys /\ q \in Seq(Runs) /\ q # <<>>
    BY <1>3 DEF TakeNext
  <2>2. pending' = [pending EXCEPT ![k] = Tail(q)] /\ UNCHANGED key
    BY <1>3 DEF TakeNext, Dequeue
  <2>3. \A i \in DOMAIN Tail(q) : i + 1 \in DOMAIN q /\ Tail(q)[i] = q[i + 1]
    BY <2>1
  <2>4. \A i \in DOMAIN pending'[k] : WorkerKey(pending'[k][i].check) = k
    BY <2>1, <2>2, <2>3
  <2>5. \A l \in Keys : l # k => pending'[l] = pending[l]
    BY <2>2
  <2>6. WorkerKey(job'[t].check) = k
    BY <1>3, <2>1 DEF TakeNext
  <2>7. \A u \in Runners \ {t} : pc'[u] = pc[u] /\ job'[u] = job[u]
    BY <1>3 DEF TakeNext
  <2>8. \A l \in Keys : \A i \in DOMAIN pending'[l] : WorkerKey(pending'[l][i].check) = l
    BY <2>4, <2>5
  <2>9. \A u \in Runners : HoldsSlot(u)' => WorkerKey(job'[u].check) = key'[u]
    BY <2>2, <2>6, <2>7
  <2> QED BY <2>8, <2>9
<1>4. ASSUME NEW t \in Runners, UNCHANGED pending,
             \A u \in Runners \ {t} : pc'[u] = pc[u] /\ job'[u] = job[u] /\ key'[u] = key[u],
             HoldsSlot(t)' => HoldsSlot(t) /\ job'[t] = job[t] /\ key'[t] = key[t]
      PROVE  RunsUnderTheirKey'
  BY <1>4
<1>5. ASSUME NEW t \in Runners,
             Retire(t) \/ StartProbe(t) \/ FinishProbe(t) \/ ReleaseSlot(t)
               \/ ReportResult(t) \/ ExecutionRaises(t)
      PROVE  RunsUnderTheirKey'
  <2>1. UNCHANGED pending
    BY <1>5 DEF Retire, StartProbe, FinishProbe, ReleaseSlot, ReportResult,
                ExecutionRaises, queueVars
  <2>2. ASSUME NEW u \in Runners \ {t}
        PROVE  pc'[u] = pc[u] /\ job'[u] = job[u] /\ key'[u] = key[u]
    BY <1>5 DEF Retire, StartProbe, FinishProbe, ReleaseSlot, ReportResult, ExecutionRaises
  <2>3. HoldsSlot(t)' => HoldsSlot(t) /\ job'[t] = job[t] /\ key'[t] = key[t]
    BY <1>5 DEF Retire, StartProbe, FinishProbe, ReleaseSlot, ReportResult, ExecutionRaises
  <2> QED BY <1>4, <2>1, <2>2, <2>3
<1>6. ASSUME NEW t \in Runners, StartThread(t) \/ (t = Main /\ StartFails)
      PROVE  RunsUnderTheirKey'
  BY <1>4, <1>6 DEF StartThread, StartFails, queueVars
<1>7. ASSUME NEW t \in Runners, WorkerFaults(t) PROVE RunsUnderTheirKey'
  BY <1>7 DEF WorkerFaults, AbandonWorker
<1> QED
  BY <1>1, <1>2, <1>3, <1>5, <1>6, <1>7
  DEF Next, MainNext, WorkerStep, vars, queueVars, runnerVars, mainVars, IntervalElapses,
      BeginStep, SnapshotDue, RequestRefresh, SkipInflight, FlushDrained, FinishBatch,
      EndStep, DrainCompleted, PopCompleted

(* docs/spec.md:378-379, for any number of checks, hosts and threads.      *)
THEOREM ProbesDoNotOverlap == Spec => []NoOverlap
<1>1. Init => OneRunnerPerKey /\ RunsUnderTheirKey
  BY DEF Init, OneRunnerPerKey, RunsUnderTheirKey, Live, HoldsSlot
<1>2. OneRunnerPerKey /\ RunsUnderTheirKey => NoOverlap
  BY DEF OneRunnerPerKey, RunsUnderTheirKey, NoOverlap, Live, HoldsSlot
<1> QED BY <1>1, <1>2, SpecTyped, OneRunnerStep, UnderKeyStep, PTL DEF Spec

-----------------------------------------------------------------------------
(* The queues, threads and locks implement ProbeLifecycle. Each step moves *)
(* one check through its phases, withdraws a queue, or changes no phase.   *)
Ready(c) == \E t \in Runners : pc[t] = "ready" /\ job[t].check = c
Probing(c) == \E t \in Runners : pc[t] \in {"probe", "release"} /\ job[t].check = c

LEMMA PhaseIs ==
  \A c : PhaseOf(c) = IF Probing(c) THEN "probing"
                      ELSE IF Queued(c) \/ Ready(c) THEN "waiting" ELSE "idle"
  BY DEF PhaseOf, Probing, Ready, Queued, ChecksIn

LEMMA PhaseNext ==
  \A c : PhaseOf(c)' = IF Probing(c)' THEN "probing"
                       ELSE IF Queued(c)' \/ Ready(c)' THEN "waiting" ELSE "idle"
<1>1. (\A c : PhaseOf(c) = IF Probing(c) THEN "probing"
                      ELSE IF Queued(c) \/ Ready(c) THEN "waiting" ELSE "idle")'
  BY PhaseIs, PTL
<1> QED BY <1>1

LEMMA HeldIs == \A c : Held(c) <=> Ready(c) \/ Probing(c)
  BY DEF Held, HoldsSlot, Ready, Probing

phases == [c \in Checks |-> PhaseOf(c)]

(* From the phases of single checks to the function of all of them.        *)
LEMMA SamePhases ==
  ASSUME \A c \in Checks : PhaseOf(c)' = PhaseOf(c)
  PROVE  UNCHANGED phases
  BY DEF phases

LEMMA OnePhase ==
  ASSUME NEW d \in Checks, NEW p, PhaseOf(d)' = p,
         \A c \in Checks : c # d => PhaseOf(c)' = PhaseOf(c)
  PROVE  phases' = [phases EXCEPT ![d] = p]
  BY DEF phases

(* A run is accepted for an idle check only.                               *)
LEMMA RunIsAccepted ==
  ASSUME Typed, OneSlot, NEW r \in Runs, QueueCheck(r)
  PROVE  Lifecycle!Accept(r.check)
<1>1. r.check \in Checks /\ ~Queued(r.check) /\ ~Held(r.check)
  BY RunKey DEF QueueCheck, Accepts, OneSlot, SlotsAreTaken
<1>2. UNCHANGED <<pc, job>>
  BY DEF QueueCheck, runnerVars
<1>3. \A c : (Ready(c)' <=> Ready(c)) /\ (Probing(c)' <=> Probing(c))
  BY <1>2 DEF Ready, Probing
<1>4. \A c : Queued(c)' <=> Queued(c) \/ c = r.check
  BY QueueCheckEffect
<1>5. PhaseOf(r.check) = "idle" /\ PhaseOf(r.check)' = "waiting"
  BY <1>1, <1>3, <1>4, PhaseIs, PhaseNext, HeldIs
<1>6. \A c \in Checks : c # r.check => PhaseOf(c)' = PhaseOf(c)
  BY <1>3, <1>4, PhaseIs, PhaseNext
<1> QED BY <1>1, <1>5, <1>6, OnePhase DEF Lifecycle!Accept, phases

(* A run that is dequeued goes on waiting.                                 *)
LEMMA RunIsTaken ==
  ASSUME Typed, OneSlot, NEW t \in Runners, TakeNext(t)
  PROVE  UNCHANGED phases
<1>1. PICK d : d = pending[key[t]][1].check
  OBVIOUS
<1>2. /\ Queued(d) /\ ~Held(d)
      /\ \A c : (Queued(c)' <=> Queued(c) /\ c # d) /\ (Held(c)' <=> Held(c) \/ c = d)
  BY <1>1, TakeNextEffect DEF OneSlot
<1>3. /\ pc' = [pc EXCEPT ![t] = "ready"] /\ pc[t] = "next"
      /\ job' = [job EXCEPT ![t] = pending[key[t]][1]]
  BY QueueShrinks DEF TakeNext
<1>4. \A c : (Probing(c)' <=> Probing(c)) /\ (Ready(c)' <=> Ready(c) \/ c = d)
  BY <1>1, <1>3 DEF Probing, Ready, Typed, TypeOK
<1> QED BY <1>2, <1>4, PhaseIs, PhaseNext, HeldIs, SamePhases

(* The probe of a check, or the exception instead of it, begins: nobody    *)
(* else probes under its key.                                              *)
LEMMA ProbeBegins ==
  ASSUME Typed, OneRunnerPerKey, RunsUnderTheirKey, OneSlot,
         NEW t \in Runners, StartProbe(t) \/ ExecutionRaises(t),
         NEW d, d = job[t].check
  PROVE  Lifecycle!Begin(d)
<1>1. /\ pc[t] = "ready" /\ UNCHANGED <<pending, job>>
      /\ \E p \in {"probe", "release"} : pc' = [pc EXCEPT ![t] = p]
  BY DEF StartProbe, ExecutionRaises, queueVars
<1>2. d \in Checks /\ WorkerKey(d) = key[t]
  BY <1>1, RunKey DEF Typed, RunnersOK, Holding, HoldsSlot, RunsUnderTheirKey
<1>3. \A u \in Runners : u # t /\ HoldsSlot(u) => job[u].check # d
  BY <1>1 DEF OneSlot, SingleFlight, HoldsSlot
<1>4. \A c \in Checks : WorkerKey(c) = WorkerKey(d) => ~Probing(c)
  BY <1>1, <1>2 DEF Probing, OneRunnerPerKey, RunsUnderTheirKey, HoldsSlot, Live
<1>5. Ready(d)
  BY <1>1 DEF Ready
<1>6. \A c : Queued(c)' <=> Queued(c)
  BY <1>1 DEF Queued
<1>7. \A c : c # d => (Ready(c)' <=> Ready(c)) /\ (Probing(c)' <=> Probing(c))
  BY <1>1 DEF Ready, Probing, Typed, TypeOK
<1>8. Probing(d)'
  BY <1>1 DEF Probing, Typed, TypeOK
<1>9. PhaseOf(d) = "waiting" /\ PhaseOf(d)' = "probing"
  BY <1>2, <1>4, <1>5, <1>8, PhaseIs, PhaseNext
<1>10. \A c \in Checks : c # d => PhaseOf(c)' = PhaseOf(c)
  BY <1>6, <1>7, PhaseIs, PhaseNext
<1>11. \A c \in Checks : WorkerKey(c) = WorkerKey(d) => PhaseOf(c) # "probing"
  BY <1>4, PhaseIs
<1>12. phases' = [phases EXCEPT ![d] = "probing"]
  BY <1>2, <1>9, <1>10, OnePhase
<1> QED BY <1>2, <1>9, <1>11, <1>12 DEF Lifecycle!Begin, phases

(* The slot is given back, and nothing else of the check is left waiting.  *)
LEMMA ProbeEnds ==
  ASSUME Typed, OneSlot, NEW t \in Runners, ReleaseSlot(t),
         NEW d, d = job[t].check
  PROVE  Lifecycle!End(d)
<1>1. pc[t] = "release" /\ pc' = [pc EXCEPT ![t] = "report"] /\ UNCHANGED <<pending, job>>
  BY DEF ReleaseSlot
<1>2. /\ d \in Checks /\ Held(d) /\ ~Queued(d)
      /\ \A c : (Queued(c)' <=> Queued(c)) /\ (Held(c)' <=> Held(c) /\ c # d)
  BY ReleaseEffect DEF OneSlot
<1>3. \A c : c # d => (Probing(c)' <=> Probing(c)) /\ (Ready(c)' <=> Ready(c))
  BY <1>1 DEF Probing, Ready, Typed, TypeOK
<1>4. Probing(d)
  BY <1>1 DEF Probing
<1>5. ~Probing(d)' /\ ~Ready(d)'
  <2>1. (\A c : Held(c) <=> Ready(c) \/ Probing(c))'
    BY HeldIs, PTL
  <2> QED BY <1>2, <2>1
<1>6. PhaseOf(d) = "probing" /\ PhaseOf(d)' = "idle"
  BY <1>2, <1>4, <1>5, PhaseIs, PhaseNext
<1>7. \A c \in Checks : c # d => PhaseOf(c)' = PhaseOf(c)
  BY <1>2, <1>3, PhaseIs, PhaseNext
<1>8. phases' = [phases EXCEPT ![d] = "idle"]
  BY <1>2, <1>6, <1>7, OnePhase
<1> QED BY <1>2, <1>6, <1>8 DEF Lifecycle!End, phases

(* A fault withdraws the queue of the worker's key.                        *)
LEMMA QueueIsWithdrawn ==
  ASSUME Typed, OneSlot, NEW t \in Runners, WorkerFaults(t),
         NEW S, S = ChecksIn(pending[key[t]])
  PROVE  S \in SUBSET Checks /\ Lifecycle!Withdraw(S)
<1>1. /\ \A c \in S : Queued(c) /\ ~Held(c)
      /\ \A c : (Queued(c)' <=> Queued(c) /\ c \notin S) /\ (Held(c)' <=> Held(c))
  BY FaultEffect DEF OneSlot
<1>2. \A c : (Ready(c)' <=> Ready(c)) /\ (Probing(c)' <=> Probing(c))
  BY DEF WorkerFaults, Ready, Probing, Typed, TypeOK
<1>3. S \subseteq Checks
  <2>1. pending[key[t]] \in Seq(Runs)
    BY DEF WorkerFaults, Typed, TypeOK, RunnersOK
  <2> QED BY <2>1, RunKey DEF ChecksIn
<1>4. \A c \in S : PhaseOf(c) = "waiting"
  BY <1>1, PhaseIs, HeldIs
<1>5. \A c : PhaseOf(c)' = IF c \in S THEN "idle" ELSE PhaseOf(c)
  BY <1>1, <1>2, PhaseIs, PhaseNext, HeldIs
<1> QED BY <1>3, <1>4, <1>5 DEF Lifecycle!Withdraw

LEMMA LifecycleStep ==
  Typed /\ OneRunnerPerKey /\ RunsUnderTheirKey /\ OneSlot /\ [Next]_vars
    => [Lifecycle!LifecycleNext]_phases
<1> SUFFICES ASSUME Typed, OneRunnerPerKey, RunsUnderTheirKey, OneSlot, [Next]_vars
             PROVE  Lifecycle!LifecycleNext \/ UNCHANGED phases
  OBVIOUS
<1>1. ASSUME NEW r \in Runs, QueueCheck(r) PROVE Lifecycle!LifecycleNext
  BY <1>1, RunIsAccepted, RunKey DEF Lifecycle!LifecycleNext
<1>2. ASSUME NEW t \in Runners, TakeNext(t) PROVE UNCHANGED phases
  BY <1>2, RunIsTaken
<1>3. ASSUME NEW t \in Runners, StartProbe(t) \/ ExecutionRaises(t)
      PROVE  Lifecycle!LifecycleNext
  <2>1. PICK d : d = job[t].check
    OBVIOUS
  <2>2. Lifecycle!Begin(d) /\ d \in Checks
    BY <1>3, <2>1, ProbeBegins, RunKey
    DEF StartProbe, ExecutionRaises, Typed, RunnersOK, Holding
  <2> QED BY <2>2 DEF Lifecycle!LifecycleNext
<1>4. ASSUME NEW t \in Runners, ReleaseSlot(t) PROVE Lifecycle!LifecycleNext
  <2>1. PICK d : d = job[t].check
    OBVIOUS
  <2>2. Lifecycle!End(d) /\ d \in Checks
    BY <1>4, <2>1, ProbeEnds, ReleaseEffect DEF OneSlot
  <2> QED BY <2>2 DEF Lifecycle!LifecycleNext
<1>5. ASSUME NEW t \in Runners, WorkerFaults(t) PROVE Lifecycle!LifecycleNext
  <2>1. PICK S : S = ChecksIn(pending[key[t]])
    OBVIOUS
  <2> QED BY <1>5, <2>1, QueueIsWithdrawn DEF Lifecycle!LifecycleNext
<1>6. ASSUME NEW t \in Runners,
             \/ Retire(t) \/ FinishProbe(t) \/ ReportResult(t)
             \/ StartThread(t) \/ (t = Main /\ StartFails)
      PROVE  UNCHANGED phases
  <2>1. UNCHANGED pending
    BY <1>6 DEF Retire, FinishProbe, ReportResult, StartThread, StartFails, queueVars
  <2>2. \A c : (Ready(c)' <=> Ready(c)) /\ (Probing(c)' <=> Probing(c))
    BY <1>6 DEF Retire, FinishProbe, ReportResult, StartThread, StartFails, queueVars,
                Ready, Probing, Typed, TypeOK, RunnersOK
  <2>3. \A c : Queued(c)' <=> Queued(c)
    BY <2>1 DEF Queued
  <2> QED BY <2>2, <2>3, PhaseIs, PhaseNext, SamePhases
<1>7. CASE UNCHANGED <<pending, pc, job>>
  BY <1>7 DEF phases, PhaseOf, ChecksIn
<1> QED
  BY <1>1, <1>2, <1>3, <1>4, <1>5, <1>6, <1>7
  DEF Next, MainNext, WorkerStep, vars, queueVars, runnerVars, IntervalElapses, Runners,
      BeginStep, SnapshotDue, RequestRefresh, SkipInflight, FlushDrained, FinishBatch,
      EndStep, DrainCompleted, PopCompleted

(* The workers implement the life cycle of a check, step by step.          *)
THEOREM WorkersImplementLifecycle == Spec => ImplementsLifecycle
<1>1. Init => Lifecycle!LifecycleInit
  BY DEF Init, Lifecycle!LifecycleInit, PhaseOf, ChecksIn
<1>2. Init => OneRunnerPerKey /\ RunsUnderTheirKey
  BY DEF Init, OneRunnerPerKey, RunsUnderTheirKey, Live, HoldsSlot
<1>3. Typed /\ OneSlot /\ [Next]_vars => OneSlot'
  BY SlotsStep, SingleStep DEF OneSlot
<1>4. Typed /\ OneRunnerPerKey /\ RunsUnderTheirKey /\ OneSlot /\ [Next]_vars
        => [Lifecycle!LifecycleNext]_([c \in Checks |-> PhaseOf(c)])
  BY LifecycleStep DEF phases
<1> QED BY <1>1, <1>2, <1>3, <1>4, InitOneSlot, SpecTyped, OneRunnerStep, UnderKeyStep, PTL
        DEF Spec, ImplementsLifecycle, Lifecycle!LifecycleSpec
=============================================================================
