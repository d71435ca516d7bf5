---------------------------- MODULE HostProbeRunner ----------------------------
(***************************************************************************)
(* vivipulse on the host (core/vivipulse.py, driven by                     *)
(* tooling/vivipulse.py): the checks run in passes or for a duration, the  *)
(* hosts one after the other or each in a thread, the checks of a host     *)
(* likewise.  The first transport failure of a host that answered before   *)
(* is recorded with its last success, the host is left alone from then on, *)
(* and an operator may ask for it to be resumed.  A search runs the passes *)
(* again with other profiles and keeps the best.                           *)
(*                                                                         *)
(* There is no time here: a sleep is a step that other threads interleave  *)
(* with, and what is due in a duration run is any set of checks.           *)
(***************************************************************************)
EXTENDS Integers, Sequences, FiniteSets, SequencesExt, FiniteSetsExt

CONSTANTS
  Checks,         \* the selected definitions
  HostOf,         \* probe_host_key of each, None where there is none
  None,           \* Python's None
  Results,        \* what the executor may return or raise
  TypeOf,         \* check_type of each
  IdPlace,        \* the place of each identifier in their order
  Rounds,         \* --passes, of a search too; bound on the rounds of a duration run
  MaxExperiments  \* --max-experiments

Hosts == {HostOf[c] : c \in Checks}
Kinds == {"passes", "duration", "search"}
NetworkOrder == <<"PING", "IDENT", "DMA", "TELNET", "FTP", "HTTP", "SERVICE">>

ASSUME ResultsAssumption ==
  Results \subseteq {"payload", "OK", "transport", "executor error", "other", "raises"}
ASSUME RunnerAssumption ==
  /\ IsFiniteSet(Checks) /\ DOMAIN HostOf = Checks
  /\ TypeOf \in [Checks -> ToSet(NetworkOrder)]
  /\ IdPlace \in [Checks -> Nat] /\ IsInjective(IdPlace)
  /\ Rounds \in [Kinds -> Nat \ {0}] /\ MaxExperiments \in Nat

VARIABLES
  kind,        \* what main runs
  options,     \* stop_on_failure; interactive_recovery with resume_after_recovery
  profile,     \* the profile's choices that are not times
  rounds,      \* passes that have begun
  running,     \* the runner is in run_passes or run_duration
  order,       \* the place of each check in the round
  groups,      \* host groups still to start
  todo,        \* checks each group has still to start
  open,        \* groups that run
  pc,          \* where each check's _run_definition is
  trace,       \* trace_events, by host
  lastSuccess, \* last_success_by_host, as a position in its trace
  boundaries,  \* failure_boundaries
  recorded,    \* boundary_recorded_for_host
  blocked,     \* blocked_host_keys
  recoveries,  \* recovery_count
  aborted,
  search       \* run_search: the experiments so far and the selected one

schedule == <<rounds, running, order, groups, todo, open>>
runner == <<trace, lastSuccess, boundaries, recorded, blocked, recoveries>>
config == <<kind, options, profile, search>>
vars == <<config, schedule, pc, runner, aborted>>

Off == [c \in Checks |-> "idle"]
NoSearch == [tried |-> 0, problem |-> None, base |-> None, score |-> <<>>, cost |-> 0]

(* A new HostProbeRunner. *)
Fresh ==
  /\ rounds' = 0 /\ running' = TRUE /\ order' = <<>> /\ groups' = {} /\ open' = {}
  /\ todo' = [h \in Hosts |-> {}]
  /\ pc' = Off /\ trace' = [h \in Hosts |-> <<>>]
  /\ lastSuccess' = [h \in Hosts |-> 0] /\ boundaries' = <<>>
  /\ recorded' = {} /\ blocked' = {} /\ recoveries' = 0 /\ aborted' = FALSE

Init ==
  /\ kind \in Kinds
  /\ options \in [stop : BOOLEAN, asks : BOOLEAN]
  /\ profile \in [hosts : BOOLEAN, same : BOOLEAN, disabled : {{}}]
  /\ search = NoSearch
  /\ rounds = 0 /\ running = TRUE /\ order = <<>> /\ groups = {} /\ open = {}
  /\ todo = [h \in Hosts |-> {}]
  /\ pc = Off /\ trace = [h \in Hosts |-> <<>>]
  /\ lastSuccess = [h \in Hosts |-> 0] /\ boundaries = <<>>
  /\ recorded = {} /\ blocked = {} /\ recoveries = 0 /\ aborted = FALSE

-----------------------------------------------------------------------------
(* A round: a pass over all checks, or the checks that are due.            *)

Selected == Checks \ profile.disabled   \* apply_profile

NetworkWeight(c) == CHOOSE i \in DOMAIN NetworkOrder : NetworkOrder[i] = TypeOf[c]

GroupOf(S, h) == {c \in S : HostOf[c] = h}
GroupsOf(S) == {HostOf[c] : c \in S}

(* network-light-first, which every profile of the tool has: host by host  *)
(* in the order of its first identifier, a host's checks by their type.    *)
Precedes(S, c, d) ==
  LET first(x) == Min({IdPlace[e] : e \in GroupOf(S, HostOf[x])})
  IN  \/ first(c) < first(d)
      \/ first(c) = first(d) /\ NetworkWeight(c) < NetworkWeight(d)
      \/ first(c) = first(d) /\ NetworkWeight(c) = NetworkWeight(d) /\ IdPlace[c] < IdPlace[d]

InOrder(S) == [c \in S |-> 1 + Cardinality({d \in S : Precedes(S, d, c)})]

(* A pass has the profile's order, a duration run that of the due times.   *)
Orders(S) ==
  IF kind = "duration" THEN {o \in [S -> 1 .. Cardinality(S)] : IsInjective(o)}
  ELSE {InOrder(S)}

ComesFirst(c, S) == \A d \in S : order[c] <= order[d]

(* _host_groups: the checks of each host in their order, the hosts in the  *)
(* order of their first check.                                             *)
NextGroup(h) ==
  LET waiting == UNION {todo[g] : g \in groups}
  IN  \E c \in todo[h] : ComesFirst(c, waiting)

Launch(S) ==
  /\ rounds' = rounds + 1
  /\ order' \in Orders(S)
  /\ todo' = [h \in Hosts |-> GroupOf(S, h)]
  /\ groups' = IF profile.hosts THEN {} ELSE GroupsOf(S)
  /\ open' = IF profile.hosts THEN GroupsOf(S) ELSE {}
  /\ UNCHANGED <<config, running, pc, runner, aborted>>

RoundIsOver == groups = {} /\ open = {}

StartPass ==
  /\ kind # "duration" /\ running /\ RoundIsOver
  /\ rounds < Rounds[kind] /\ ~ aborted
  /\ Launch(Selected)

StartDue ==
  /\ kind = "duration" /\ running /\ RoundIsOver
  /\ rounds < Rounds[kind] /\ ~ aborted
  /\ \E S \in SUBSET {c \in Selected : HostOf[c] \notin blocked} : S # {} /\ Launch(S)

(* The next group, when the hosts are not concurrent. *)
StartGroup ==
  /\ groups # {} /\ open = {}
  /\ IF aborted
     THEN groups' = {} /\ UNCHANGED open
     ELSE \E h \in groups : NextGroup(h) /\ groups' = groups \ {h} /\ open' = {h}
  /\ UNCHANGED <<config, rounds, running, order, todo, pc, runner, aborted>>

-----------------------------------------------------------------------------
(* One group: _run_host_group.                                             *)

(* The mutant forgets which hosts failed. *)
OnlyAborted(h) == aborted
IsHostBlocked(h) == aborted \/ (h # None /\ h \in blocked)

Busy(h) == \E c \in Checks : HostOf[c] = h /\ pc[c] # "idle"

NextCheck(h) ==
  /\ h \in open /\ ~ profile.same /\ todo[h] # {} /\ ~ Busy(h)
  /\ IF IsHostBlocked(h)
     THEN todo' = [todo EXCEPT ![h] = {}] /\ UNCHANGED pc
     ELSE \E c \in todo[h] :
            /\ ComesFirst(c, todo[h])
            /\ pc' = [pc EXCEPT ![c] = "ready"]
            /\ todo' = [todo EXCEPT ![h] = @ \ {c}]
  /\ UNCHANGED <<config, rounds, running, order, groups, open, runner, aborted>>

(* All checks of the host in threads of their own, filtered beforehand; an *)
(* abort may come while the filter runs.                                   *)
StartThreads(h) ==
  /\ h \in open /\ profile.same /\ todo[h] # {}
  /\ pc' = [c \in Checks |-> IF c \in todo[h] /\ ~ IsHostBlocked(h) THEN "ready" ELSE pc[c]]
  /\ todo' = [todo EXCEPT ![h] = {}]
  /\ UNCHANGED <<config, rounds, running, order, groups, open, runner, aborted>>

EndGroup(h) ==
  /\ h \in open /\ todo[h] = {} /\ ~ Busy(h)
  /\ open' = open \ {h}
  /\ UNCHANGED <<config, rounds, running, order, groups, todo, pc, runner, aborted>>

-----------------------------------------------------------------------------
(* One check: _run_definition.                                             *)

(* The second look at the block ends the thread with a RuntimeError, and   *)
(* with it the rest of a serial group; then the pause before the probe.    *)
Admit(c) ==
  /\ pc[c] = "ready"
  /\ IF IsHostBlocked(HostOf[c])
     THEN /\ pc' = [pc EXCEPT ![c] = "idle"]
          /\ todo' = [todo EXCEPT ![HostOf[c]] = {}]
     ELSE pc' = [pc EXCEPT ![c] = "asleep"] /\ UNCHANGED todo
  /\ UNCHANGED <<config, rounds, running, order, groups, open, runner, aborted>>

(* _reserve_execution_metadata; then the executor is called. *)
StartProbe(c) ==
  /\ pc[c] = "asleep"
  /\ pc' = [pc EXCEPT ![c] = "probing"]
  /\ UNCHANGED <<config, schedule, runner, aborted>>

(* A service that could be read, whatever it says of its checks.           *)
IsServicePayload(result) == result = "payload"

(* A direct observation, by its status and the head of its detail.         *)
FailureClass(result) ==
  CASE result = "OK" -> "success"
    [] result = "transport" -> "transport"
    [] result \in {"executor error", "raises"} -> "unexpected_exception"
    [] OTHER -> "protocol"

(* _summarize_result *)
ClassOf(result) == IF IsServicePayload(result) THEN "success" ELSE FailureClass(result)

(* _record_boundary: whether there is one; the mutant does not remember that a host has its      *)
(* boundary.                                                               *)
RecordsAgain(h, class) == class = "transport" /\ lastSuccess[h] # 0
IsBoundary(h, class) ==
  /\ class = "transport"
  /\ h \notin recorded
  /\ lastSuccess[h] # 0

AddBoundary(h, n) ==
  /\ boundaries' = Append(boundaries, [host |-> h, last |-> lastSuccess[h], first |-> n])
  /\ recorded' = recorded \cup {h}
  /\ blocked' = blocked \cup ({h} \ {None})

(* _record_event, under the lock. *)
Record(c, class) ==
  LET h == HostOf[c]
      n == Len(trace[h]) + 1
  IN  /\ trace' = [trace EXCEPT ![h] = Append(@, [check |-> c, class |-> class])]
      /\ lastSuccess' = IF class = "success" THEN [lastSuccess EXCEPT ![h] = n] ELSE lastSuccess
      /\ IF IsBoundary(h, class)
         THEN /\ AddBoundary(h, n)
              /\ pc' = [pc EXCEPT ![c] = "recover"]
         ELSE pc' = [pc EXCEPT ![c] = "idle"] /\ UNCHANGED <<boundaries, recorded, blocked>>

FinishProbe(c, result) ==
  /\ pc[c] = "probing"
  /\ Record(c, ClassOf(result))
  /\ UNCHANGED <<config, schedule, recoveries, aborted>>

(* _handle_recovery, before and after the operator was asked. *)
Recover(c) ==
  /\ pc[c] = "recover"
  /\ aborted' = (aborted \/ options.stop)
  /\ pc' = [pc EXCEPT ![c] = IF options.asks THEN "prompt" ELSE "idle"]
  /\ UNCHANGED <<config, schedule, runner>>

Resume(h) ==
  /\ blocked' = blocked \ {h}
  /\ recorded' = recorded \ {h}
  /\ recoveries' = recoveries + 1

Answer(c, resume) ==
  /\ pc[c] = "prompt"
  /\ IF resume /\ HostOf[c] # None
     THEN Resume(HostOf[c])
     ELSE UNCHANGED <<blocked, recorded, recoveries>>
  /\ pc' = [pc EXCEPT ![c] = "idle"]
  /\ UNCHANGED <<config, schedule, trace, lastSuccess, boundaries, aborted>>

-----------------------------------------------------------------------------
(* The end of a run, and the search.                                       *)

RunIsOver ==
  /\ running /\ RoundIsOver
  /\ \/ aborted
     \/ rounds = Rounds[kind]
     \/ kind = "duration"

Count(class) ==
  FoldSet(LAMBDA h, n : n + Cardinality({i \in DOMAIN trace[h] : trace[h][i].class = class}), 0, Hosts)

(* _outcome_score; its boolean is 0 or 1. *)
Score == <<Count("transport"), Count("unexpected_exception"),
           IF aborted THEN 1 ELSE 0, Cardinality(blocked)>>

Better(s, t) == \E i \in DOMAIN s : s[i] < t[i] /\ \A j \in 1 .. i - 1 : s[j] = t[j]

EndRun ==
  /\ RunIsOver /\ kind # "search"
  /\ running' = FALSE
  /\ UNCHANGED <<config, rounds, order, groups, todo, open, pc, runner, aborted>>

Clean == Count("transport") = 0 /\ ~ aborted

(* generate_candidate_profiles, as far as a candidate is more than other   *)
(* times.                                                                  *)
Candidates(base, problem) ==
  {base}
    \cup {[base EXCEPT !.same = s] : s \in BOOLEAN}
    \cup (IF problem = None THEN {} ELSE {[base EXCEPT !.disabled = {problem}]})

(* The experiment that just ended, judged; _profile_cost of the baseline   *)
(* is the least.                                                           *)
Judged(cost) ==
  LET first == search.tried = 0
      better == first \/ Better(Score, search.score) \/ (Score = search.score /\ cost < search.cost)
  IN  [tried   |-> search.tried + 1,
       problem |-> IF ~ first THEN search.problem
                   ELSE IF boundaries = <<>> THEN None
                   ELSE trace[boundaries[1].host][boundaries[1].first].check,
       base    |-> IF first THEN profile ELSE search.base,
       score   |-> IF better THEN Score ELSE search.score,
       cost    |-> IF better THEN cost ELSE search.cost]

EndExperiment ==
  /\ RunIsOver /\ kind = "search"
  /\ \E cost \in IF search.tried = 0 THEN {0} ELSE {0, 1} : search' = Judged(cost)
  /\ IF Clean \/ search.tried = MaxExperiments
     THEN /\ running' = FALSE
          /\ UNCHANGED <<profile, rounds, order, groups, todo, open, pc, runner, aborted>>
     ELSE profile' \in Candidates(search'.base, search'.problem) /\ Fresh
  /\ UNCHANGED <<kind, options>>

Ended == ~ running /\ UNCHANGED vars

-----------------------------------------------------------------------------

Next ==
  \/ StartPass \/ StartDue \/ StartGroup \/ EndRun \/ EndExperiment \/ Ended
  \/ \E h \in Hosts : NextCheck(h) \/ StartThreads(h) \/ EndGroup(h)
  \/ \E c \in Checks :
       \/ Admit(c) \/ StartProbe(c) \/ Recover(c)
       \/ \E result \in Results : FinishProbe(c, result)
       \/ \E resume \in BOOLEAN : Answer(c, resume)

Spec == Init /\ [][Next]_vars

-----------------------------------------------------------------------------

TypeOK ==
  /\ kind \in Kinds
  /\ profile \in [hosts : BOOLEAN, same : BOOLEAN, disabled : SUBSET Checks]
  /\ todo \in [Hosts -> SUBSET Checks] /\ open \subseteq Hosts /\ blocked \subseteq recorded
  /\ pc \in [Checks -> {"idle", "ready", "asleep", "probing", "recover", "prompt"}]
  /\ \A h \in Hosts : trace[h] \in Seq([check : Checks, class : {ClassOf(r) : r \in Results}])

(* The report names, for a host that stopped answering, its last success   *)
(* and the first transport failure after it: the last success is a success *)
(* of that host with none between, a failure between the two was reported  *)
(* itself or came while the host had its boundary already, and every       *)
(* boundary is in force unless the operator had the host resumed (_record_boundary, _handle_recovery).                           *)
BoundaryIsTrue ==
  /\ TypeOK
  /\ \A b \in ToSet(boundaries) :
       LET class(i) == trace[b.host][i].class
       IN  /\ class(b.last) = "success" /\ class(b.first) = "transport" /\ b.last < b.first
           /\ \A i \in b.last + 1 .. b.first - 1 :
                /\ class(i) # "success"
                /\ class(i) = "transport" =>
                     \E a \in ToSet(boundaries) : a.host = b.host /\ a.first <= i /\ a.first < b.first
  /\ Len(boundaries) = recoveries + Cardinality(recorded)

(* docs/reference.md:346: once a host has its failure boundary, no further *)
(* probe of it starts before the operator resumes it, in this pass or a    *)
(* later one, as long as the host's probes run one at a time.              *)
BlockedHostIsLeftAlone ==
  [][\A c \in Checks : pc[c] = "asleep" /\ pc'[c] = "probing" =>
       profile.same \/ HostOf[c] \notin blocked]_vars
=============================================================================
