------------------------ MODULE HostProbeRunnerProofs ------------------------
(***************************************************************************)
(* Proofs about HostProbeRunner: what the report says of a host that       *)
(* stopped answering is true, and the host is left alone.                  *)
(***************************************************************************)
EXTENDS HostProbeRunner, FiniteSetTheorems, TLAPS

Profiles == [hosts : BOOLEAN, same : BOOLEAN, disabled : SUBSET Checks]
Classes == {ClassOf(r) : r \in Results}
Events == [check : Checks, class : Classes]
Boundaries == [host : Hosts, last : Nat, first : Nat]

(* The types that TypeOK leaves out.                                       *)
MoreTypes ==
  /\ trace \in [Hosts -> Seq(Events)] /\ lastSuccess \in [Hosts -> Nat]
  /\ boundaries \in Seq(Boundaries) /\ recorded \subseteq Hosts /\ groups \subseteq Hosts
  /\ recoveries \in Nat
  /\ search.tried \in Nat
  /\ search.tried # 0 => search.base \in Profiles /\ search.problem \in Checks \cup {None}
  /\ \A h \in Hosts : \A c \in todo[h] : HostOf[c] = h

Class(h, i) == trace[h][i].class
Reports == ToSet(boundaries)

(* A failure of host h, the i-th event, is covered by a report: it or an   *)
(* earlier one of the host was reported.                                   *)
Covered(h, i) == \E a \in Reports : a.host = h /\ a.first <= i

(* Every boundary names two events of the host's trace, the last success   *)
(* and a failure, and what is between them is no success and covered.      *)
ReportsAreTrue ==
  \A b \in Reports :
    /\ b.last \in Nat \ {0} /\ b.last < b.first /\ b.first <= Len(trace[b.host])
    /\ Class(b.host, b.last) = "success" /\ Class(b.host, b.first) = "transport"
    /\ \A i \in b.last + 1 .. b.first - 1 :
         /\ Class(b.host, i) # "success"
         /\ Class(b.host, i) = "transport" => Covered(b.host, i)

(* The same of the last success so far and the end of the trace, which is  *)
(* where the next boundary will be.                                        *)
LastSuccessIsTrue ==
  \A h \in Hosts :
    /\ lastSuccess[h] <= Len(trace[h])
    /\ lastSuccess[h] # 0 => Class(h, lastSuccess[h]) = "success"
    /\ \A i \in lastSuccess[h] + 1 .. Len(trace[h]) :
         /\ Class(h, i) # "success"
         /\ lastSuccess[h] # 0 /\ Class(h, i) = "transport" => Covered(h, i)

(* A host that has its boundary has a report; whoever waits for the        *)
(* operator waits for a host that has its boundary, and waits alone.       *)
Waits(c) == pc[c] \in {"recover", "prompt"}

RecoveriesAreAlone ==
  /\ \A h \in recorded : \E a \in Reports : a.host = h
  /\ \A c \in Checks : Waits(c) => HostOf[c] \in recorded
  /\ \A c, d \in Checks : Waits(c) /\ Waits(d) /\ HostOf[c] = HostOf[d] => c = d

ReportsAreCounted == Len(boundaries) = recoveries + Cardinality(recorded)

(* Without threads for the checks of a host there is one check of the host *)
(* under way, and it saw that its host is not blocked before it fell       *)
(* asleep.                                                                 *)
ChecksFollowEachOther ==
  /\ None \notin blocked
  /\ ~ profile.same =>
    /\ \A c, d \in Checks :
         pc[c] # "idle" /\ pc[d] # "idle" /\ HostOf[c] = HostOf[d] => c = d
    /\ \A c \in Checks : pc[c] = "asleep" => HostOf[c] \notin blocked

IInv ==
  /\ TypeOK /\ MoreTypes
  /\ ReportsAreTrue /\ LastSuccessIsTrue /\ RecoveriesAreAlone /\ ReportsAreCounted
  /\ ChecksFollowEachOther

-----------------------------------------------------------------------------
(* Sequences that grow at their end.                                       *)

LEMMA ToSetOfAppended ==
  ASSUME NEW S, NEW s \in Seq(S), NEW e \in S
  PROVE  ToSet(Append(s, e)) = ToSet(s) \cup {e}
<1>1. /\ Append(s, e) \in Seq(S) /\ Len(Append(s, e)) = Len(s) + 1 /\ Len(s) \in Nat
      /\ \A i \in 1 .. Len(s) : Append(s, e)[i] = s[i]
      /\ Append(s, e)[Len(s) + 1] = e
  OBVIOUS
<1>2. /\ DOMAIN Append(s, e) = 1 .. Len(s) + 1
      /\ DOMAIN s = 1 .. Len(s)
  BY <1>1
<1>3. ToSet(Append(s, e)) \subseteq ToSet(s) \cup {e}
  BY <1>1, <1>2 DEF ToSet
<1>4. ToSet(s) \subseteq ToSet(Append(s, e)) /\ e \in ToSet(Append(s, e))
  BY <1>1, <1>2 DEF ToSet
<1> QED
  BY <1>3, <1>4

LEMMA ReportsAreBoundaries ==
  ASSUME boundaries \in Seq(Boundaries)
  PROVE  Reports \subseteq Boundaries
BY DEF Reports, ToSet

(* What the record of an event does to the traces.                         *)
LEMMA TraceGrows ==
  ASSUME MoreTypes, NEW c \in Checks, NEW class \in Classes, Record(c, class)
  PROVE  LET h == HostOf[c]
             n == Len(trace[h]) + 1
         IN  /\ h \in Hosts /\ n \in Nat \ {0}
             /\ trace' \in [Hosts -> Seq(Events)]
             /\ Len(trace'[h]) = n /\ trace'[h][n].class = class
             /\ \A g \in Hosts \ {h} : trace'[g] = trace[g]
             /\ \A g \in Hosts : Len(trace[g]) <= Len(trace'[g])
             /\ \A g \in Hosts : \A i \in 1 .. Len(trace[g]) : Class(g, i)' = Class(g, i)
<1> DEFINE h == HostOf[c]
           n == Len(trace[h]) + 1
           e == [check |-> c, class |-> class]
<1>1. h \in Hosts /\ e \in Events
  BY DEF Hosts, Events
<1>2. trace[h] \in Seq(Events) /\ n \in Nat \ {0}
  BY <1>1 DEF MoreTypes
<1>3. trace' = [trace EXCEPT ![h] = Append(@, e)]
  BY DEF Record
<1>4. trace'[h] = Append(trace[h], e) /\ \A g \in Hosts \ {h} : trace'[g] = trace[g]
  BY <1>1, <1>3 DEF MoreTypes
<1>5. /\ trace'[h] \in Seq(Events) /\ Len(trace'[h]) = n /\ trace'[h][n] = e
      /\ \A i \in 1 .. Len(trace[h]) : trace'[h][i] = trace[h][i]
  BY <1>1, <1>2, <1>4
<1>6. trace' \in [Hosts -> Seq(Events)]
  BY <1>1, <1>2, <1>3 DEF MoreTypes
<1>7. \A g \in Hosts : /\ Len(trace[g]) \in Nat /\ Len(trace[g]) <= Len(trace'[g])
                       /\ \A i \in 1 .. Len(trace[g]) : trace'[g][i] = trace[g][i]
  <2>1. ASSUME NEW g \in Hosts \ {h}
        PROVE  /\ Len(trace[g]) \in Nat /\ Len(trace[g]) <= Len(trace'[g])
               /\ \A i \in 1 .. Len(trace[g]) : trace'[g][i] = trace[g][i]
    <3>1. trace[g] \in Seq(Events)
      BY DEF MoreTypes
    <3> QED
      BY <1>4, <3>1
  <2>2. /\ Len(trace[h]) \in Nat /\ Len(trace[h]) <= Len(trace'[h])
        /\ \A i \in 1 .. Len(trace[h]) : trace'[h][i] = trace[h][i]
    BY <1>2, <1>5
  <2> QED
    BY <2>1, <2>2
<1>8. \A g \in Hosts : \A i \in 1 .. Len(trace[g]) : Class(g, i)' = Class(g, i)
  BY <1>7 DEF Class
<1>9. trace'[h][n].class = class
  BY <1>5
<1> QED
  BY <1>1, <1>2, <1>4, <1>5, <1>6, <1>7, <1>8, <1>9

(* And to the reports: a host that has its boundary gets no further one.   *)
LEMMA ReportsGrow ==
  ASSUME TypeOK, MoreTypes, NEW c \in Checks, NEW class \in Classes, Record(c, class)
  PROVE  LET h == HostOf[c]
             b == [host |-> h, last |-> lastSuccess[h], first |-> Len(trace[h]) + 1]
         IN  IF IsBoundary(h, class)
             THEN /\ boundaries' \in Seq(Boundaries) /\ Len(boundaries') = Len(boundaries) + 1
                  /\ Reports' = Reports \cup {b} /\ b \in Boundaries
                  /\ recorded' = recorded \cup {h} /\ h \notin recorded
                  /\ pc' = [pc EXCEPT ![c] = "recover"]
                  /\ blocked' = blocked \cup ({h} \ {None})
             ELSE /\ UNCHANGED <<boundaries, recorded, blocked>> /\ Reports' = Reports
                  /\ pc' = [pc EXCEPT ![c] = "idle"]
<1> DEFINE h == HostOf[c]
           b == [host |-> h, last |-> lastSuccess[h], first |-> Len(trace[h]) + 1]
<1>1. h \in Hosts /\ lastSuccess[h] \in Nat /\ Len(trace[h]) \in Nat
  BY DEF Hosts, MoreTypes
<1>2. b \in Boundaries
  BY <1>1 DEF Boundaries
<1>3. CASE IsBoundary(h, class)
  <2>1. boundaries' = Append(boundaries, b) /\ recorded' = recorded \cup {h}
        /\ pc' = [pc EXCEPT ![c] = "recover"] /\ blocked' = blocked \cup ({h} \ {None})
    BY <1>3 DEF Record, AddBoundary
  <2>2. boundaries' \in Seq(Boundaries) /\ Len(boundaries') = Len(boundaries) + 1
    BY <1>2, <2>1 DEF MoreTypes
  <2>3. Reports' = Reports \cup {b}
    BY <1>2, <2>1, ToSetOfAppended DEF MoreTypes, Reports
  <2> QED
    BY <1>2, <1>3, <2>1, <2>2, <2>3 DEF IsBoundary
<1>4. CASE ~ IsBoundary(h, class)
  BY <1>4 DEF Record, Reports
<1> QED
  BY <1>3, <1>4

-----------------------------------------------------------------------------
(* Types.                                                                  *)

(* A round starts with the checks of each host in the group of the host.   *)
LEMMA LaunchTypes ==
  ASSUME TypeOK, MoreTypes, NEW S \in SUBSET Checks, Launch(S)
  PROVE  TypeOK' /\ MoreTypes'
<1>1. todo' \in [Hosts -> SUBSET Checks] /\ \A h \in Hosts : \A c \in todo'[h] : HostOf[c] = h
  BY DEF Launch, GroupOf
<1>2. open' \subseteq Hosts /\ groups' \subseteq Hosts
  BY DEF Launch, GroupsOf, Hosts
<1> QED
  BY <1>1, <1>2 DEF Launch, TypeOK, MoreTypes, runner, config

(* The end of a probe.                                                     *)
LEMMA RecordTypes ==
  ASSUME TypeOK, MoreTypes, NEW c \in Checks, NEW result \in Results, FinishProbe(c, result)
  PROVE  TypeOK' /\ MoreTypes'
<1> DEFINE class == ClassOf(result)
<1>1. class \in Classes /\ Record(c, class)
  BY DEF FinishProbe, Classes
<1>2. HostOf[c] \in Hosts
  BY DEF Hosts
<1>3. trace' \in [Hosts -> Seq(Events)]
  BY <1>1, TraceGrows
<1>4. lastSuccess' \in [Hosts -> Nat]
  BY <1>1, <1>2, TraceGrows DEF Record, MoreTypes
<1>5. /\ boundaries' \in Seq(Boundaries) /\ recorded' \subseteq Hosts /\ blocked' \subseteq recorded'
      /\ pc' \in [Checks -> {"idle", "ready", "asleep", "probing", "recover", "prompt"}]
  <2>1. CASE IsBoundary(HostOf[c], class)
    <3>1. /\ boundaries' \in Seq(Boundaries) /\ recorded' = recorded \cup {HostOf[c]}
          /\ pc' = [pc EXCEPT ![c] = "recover"] /\ blocked' = blocked \cup ({HostOf[c]} \ {None})
      BY <1>1, <2>1, ReportsGrow
    <3> QED
      BY <1>2, <3>1 DEF TypeOK, MoreTypes
  <2>2. CASE ~ IsBoundary(HostOf[c], class)
    <3>1. UNCHANGED <<boundaries, recorded, blocked>> /\ pc' = [pc EXCEPT ![c] = "idle"]
      BY <1>1, <2>2, ReportsGrow
    <3> QED
      BY <3>1 DEF TypeOK, MoreTypes
  <2> QED
    BY <2>1, <2>2
<1>6. UNCHANGED <<config, schedule, recoveries, aborted>>
  BY DEF FinishProbe
<1>7. \A h \in Hosts : trace'[h] \in Seq([check : Checks, class : {ClassOf(r) : r \in Results}])
  BY <1>3 DEF Events, Classes
<1> QED
  BY <1>3, <1>4, <1>5, <1>6, <1>7 DEF TypeOK, MoreTypes, config, schedule

(* A search keeps a profile to start from and names a check of the trace.  *)
LEMMA JudgedTypes ==
  ASSUME TypeOK, MoreTypes, ReportsAreTrue, NEW cost, search' = Judged(cost)
  PROVE  /\ search'.tried \in Nat
         /\ search'.base \in Profiles /\ search'.problem \in Checks \cup {None}
<1>1. search'.tried = search.tried + 1
  BY DEF Judged
<1>2. search'.base = IF search.tried = 0 THEN profile ELSE search.base
  BY DEF Judged
<1>3. search'.problem = IF search.tried # 0 THEN search.problem
                        ELSE IF boundaries = <<>> THEN None
                        ELSE trace[boundaries[1].host][boundaries[1].first].check
  BY DEF Judged
<1>4. boundaries # <<>> => trace[boundaries[1].host][boundaries[1].first].check \in Checks
  <2> SUFFICES ASSUME boundaries # <<>>
               PROVE  trace[boundaries[1].host][boundaries[1].first].check \in Checks
    OBVIOUS
  <2>1. boundaries[1] \in Reports /\ boundaries[1] \in Boundaries
    <3>1. 1 \in DOMAIN boundaries
      BY DEF MoreTypes
    <3> QED
      BY <3>1 DEF MoreTypes, Reports, ToSet
  <2>2. PICK h \in Hosts, i \in Nat : h = boundaries[1].host /\ i = boundaries[1].first
    BY <2>1 DEF Boundaries
  <2>3. i \in 1 .. Len(trace[h]) /\ trace[h] \in Seq(Events)
    BY <2>1, <2>2 DEF ReportsAreTrue, MoreTypes, Boundaries
  <2>4. trace[h][i] \in Events
    BY <2>3
  <2> QED
    BY <2>2, <2>4 DEF Events
<1> QED
  BY <1>1, <1>2, <1>3, <1>4 DEF TypeOK, MoreTypes, Profiles

(* The end of an experiment, after which the search stops or starts over.  *)
LEMMA ExperimentTypes ==
  ASSUME TypeOK, MoreTypes, ReportsAreTrue, EndExperiment
  PROVE  TypeOK' /\ MoreTypes'
<1>1. /\ search'.tried \in Nat
      /\ search'.base \in Profiles /\ search'.problem \in Checks \cup {None}
  BY JudgedTypes DEF EndExperiment
<1>2. CASE /\ running' = FALSE
           /\ UNCHANGED <<profile, rounds, order, groups, todo, open, pc, runner, aborted>>
  BY <1>1, <1>2 DEF EndExperiment, TypeOK, MoreTypes, schedule, runner
<1>3. CASE profile' \in Candidates(search'.base, search'.problem) /\ Fresh
  <2>1. profile' \in Profiles
    BY <1>1, <1>3 DEF Candidates, Profiles
  <2>2. /\ todo' \in [Hosts -> SUBSET Checks] /\ \A h \in Hosts : todo'[h] = {}
        /\ open' = {} /\ groups' = {} /\ blocked' = {} /\ recorded' = {} /\ recoveries' = 0 /\ boundaries' = <<>>
        /\ trace' \in [Hosts -> Seq(Events)] /\ lastSuccess' \in [Hosts -> Nat]
        /\ pc' \in [Checks -> {"idle"}]
    BY <1>3 DEF Fresh, Off
  <2>3. kind' = kind
    BY DEF EndExperiment
  <2>4. \A h \in Hosts : trace'[h] \in Seq([check : Checks, class : {ClassOf(r) : r \in Results}])
    BY <2>2 DEF Events, Classes
  <2>5. TypeOK'
    BY <2>1, <2>2, <2>3, <2>4 DEF TypeOK, Profiles
  <2>6. MoreTypes'
    BY <1>1, <2>2 DEF MoreTypes
  <2> QED
    BY <2>5, <2>6
<1> QED
  BY <1>2, <1>3 DEF EndExperiment

(* Every step keeps the types.                                             *)
LEMMA TypesStep ==
  ASSUME TypeOK, MoreTypes, ReportsAreTrue, [Next]_vars
  PROVE  TypeOK' /\ MoreTypes'
<1> USE DEF TypeOK, MoreTypes, schedule, runner, config
<1>1. CASE StartPass
  BY <1>1, LaunchTypes DEF StartPass, Selected
<1>2. CASE StartDue
  <2>1. PICK S \in SUBSET Checks : Launch(S)
    BY <1>2 DEF StartDue, Selected
  <2> QED
    BY <2>1, LaunchTypes
<1>3. CASE StartGroup
  <2>1. open' \subseteq Hosts /\ groups' \subseteq Hosts
    BY <1>3 DEF StartGroup
  <2> QED
    BY <1>3, <2>1 DEF StartGroup
<1>4. CASE EndRun \/ Ended
  BY <1>4 DEF EndRun, Ended, vars
<1>5. CASE EndExperiment
  BY <1>5, ExperimentTypes
<1>6. ASSUME NEW h \in Hosts, NextCheck(h) \/ StartThreads(h) \/ EndGroup(h)
      PROVE  TypeOK' /\ MoreTypes'
  <2>1. todo' \in [Hosts -> SUBSET Checks] /\ \A g \in Hosts : todo'[g] \subseteq todo[g]
    <3>1. \E X \in SUBSET todo[h] : todo' = [todo EXCEPT ![h] = X]
      <4>1. CASE NextCheck(h)
        BY <4>1 DEF NextCheck
      <4>2. CASE StartThreads(h)
        BY <4>2 DEF StartThreads
      <4>3. CASE EndGroup(h)
        <5>1. todo' = [todo EXCEPT ![h] = todo[h]]
          BY <4>3 DEF EndGroup
        <5> QED
          BY <5>1
      <4> QED
        BY <1>6, <4>1, <4>2, <4>3
    <3> QED
      BY <3>1
  <2>2. pc' \in [Checks -> {"idle", "ready", "asleep", "probing", "recover", "prompt"}]
    BY <1>6 DEF NextCheck, StartThreads, EndGroup
  <2>3. open' \subseteq open
    BY <1>6 DEF NextCheck, StartThreads, EndGroup
  <2> QED
    BY <1>6, <2>1, <2>2, <2>3 DEF NextCheck, StartThreads, EndGroup
<1>7. ASSUME NEW c \in Checks, Admit(c) \/ StartProbe(c) \/ Recover(c) PROVE TypeOK' /\ MoreTypes'
  BY <1>7 DEF Admit, StartProbe, Recover
<1>8. ASSUME NEW c \in Checks, NEW result \in Results, FinishProbe(c, result)
      PROVE  TypeOK' /\ MoreTypes'
  BY <1>8, RecordTypes
<1>9. ASSUME NEW c \in Checks, NEW resume \in BOOLEAN, Answer(c, resume)
      PROVE  TypeOK' /\ MoreTypes'
  <2>1. /\ blocked' \subseteq recorded' /\ recorded' \subseteq recorded /\ recoveries' \in Nat
        /\ pc' \in [Checks -> {"idle", "ready", "asleep", "probing", "recover", "prompt"}]
    BY <1>9 DEF Answer, Resume
  <2> QED
    BY <1>9, <2>1 DEF Answer
<1>10. CASE UNCHANGED vars
  BY <1>10 DEF vars
<1> QED
  BY <1>1, <1>2, <1>3, <1>4, <1>5, <1>6, <1>7, <1>8, <1>9, <1>10 DEF Next

-----------------------------------------------------------------------------
(* The reports.                                                            *)

(* Only the end of a probe and a new runner touch the trace.               *)
LEMMA QuietSteps ==
  ASSUME [Next]_vars
  PROVE  \/ UNCHANGED <<trace, lastSuccess, boundaries>>
         \/ \E c \in Checks, result \in Results : FinishProbe(c, result)
         \/ Fresh
<1>1. CASE StartPass \/ StartDue \/ StartGroup \/ EndRun \/ Ended
  BY <1>1 DEF StartPass, StartDue, StartGroup, EndRun, Ended, Launch, vars, runner
<1>2. CASE EndExperiment
  BY <1>2 DEF EndExperiment, runner
<1>3. CASE \E h \in Hosts : NextCheck(h) \/ StartThreads(h) \/ EndGroup(h)
  BY <1>3 DEF NextCheck, StartThreads, EndGroup, runner
<1>4. CASE \E c \in Checks : Admit(c) \/ StartProbe(c) \/ Recover(c)
  BY <1>4 DEF Admit, StartProbe, Recover, runner
<1>5. CASE \E c \in Checks, resume \in BOOLEAN : Answer(c, resume)
  BY <1>5 DEF Answer
<1>6. CASE UNCHANGED vars
  BY <1>6 DEF vars, runner
<1> QED
  BY <1>1, <1>2, <1>3, <1>4, <1>5, <1>6 DEF Next

(* Every step keeps the reports true: a new one runs from the host's last  *)
(* success to the failure just recorded, and a failure that is not         *)
(* reported comes while its host has its boundary.                         *)
LEMMA ReportsStep ==
  ASSUME TypeOK, MoreTypes, ReportsAreTrue, LastSuccessIsTrue, RecoveriesAreAlone, [Next]_vars
  PROVE  ReportsAreTrue' /\ LastSuccessIsTrue'
<1>1. CASE UNCHANGED <<trace, lastSuccess, boundaries>>
  BY <1>1 DEF ReportsAreTrue, LastSuccessIsTrue, Covered, Class, Reports
<1>2. CASE Fresh
  <2>1. Reports' = {}
    BY <1>2 DEF Fresh, Reports, ToSet
  <2>2. \A h \in Hosts : lastSuccess'[h] = 0 /\ Len(trace'[h]) = 0
    BY <1>2 DEF Fresh
  <2> QED
    BY <2>1, <2>2 DEF ReportsAreTrue, LastSuccessIsTrue
<1>3. ASSUME NEW c \in Checks, NEW result \in Results, FinishProbe(c, result)
      PROVE  ReportsAreTrue' /\ LastSuccessIsTrue'
  <2>1. PICK class \in Classes : Record(c, class)
    BY <1>3 DEF FinishProbe, Classes
  <2>2. PICK h \in Hosts : h = HostOf[c]
    BY DEF Hosts
  <2>3. PICK last \in Nat : last = lastSuccess[h]
    BY DEF MoreTypes
  <2>4. PICK n \in Nat \ {0} : n = Len(trace[h]) + 1
    BY <2>1, <2>2, TraceGrows
  <2>5. /\ Len(trace'[h]) = n /\ Class(h, n)' = class
        /\ \A g \in Hosts \ {h} : trace'[g] = trace[g]
        /\ \A g \in Hosts : Len(trace[g]) \in Nat /\ Len(trace[g]) <= Len(trace'[g])
                            /\ Len(trace'[g]) \in Nat
        /\ \A g \in Hosts : \A i \in 1 .. Len(trace[g]) : Class(g, i)' = Class(g, i)
    BY <2>1, <2>2, <2>4, TraceGrows DEF Class, MoreTypes
  <2> DEFINE b == [host |-> h, last |-> last, first |-> n]
  <2>6. Reports' = IF IsBoundary(h, class) THEN Reports \cup {b} ELSE Reports
    BY <2>1, <2>2, <2>3, <2>4, ReportsGrow
  <2>7. Reports \subseteq Boundaries
    BY ReportsAreBoundaries DEF MoreTypes
  <2>8. \A g \in Hosts, i \in Nat : Covered(g, i) => Covered(g, i)'
    BY <2>6 DEF Covered
  <2>9. ReportsAreTrue'
    <3>1. ASSUME NEW a \in Reports
          PROVE  /\ a.last \in Nat \ {0} /\ a.last < a.first /\ a.first <= Len(trace'[a.host])
                 /\ Class(a.host, a.last)' = "success" /\ Class(a.host, a.first)' = "transport"
                 /\ \A i \in a.last + 1 .. a.first - 1 :
                      /\ Class(a.host, i)' # "success"
                      /\ Class(a.host, i)' = "transport" => Covered(a.host, i)'
      <4>1. a.host \in Hosts /\ a.first \in Nat
        BY <2>7 DEF Boundaries
      <4>2. a.last \in Nat \ {0} /\ a.last < a.first /\ a.first <= Len(trace[a.host])
        BY DEF ReportsAreTrue
      <4>3. \A i \in a.last .. a.first : Class(a.host, i)' = Class(a.host, i)
        BY <2>5, <4>1, <4>2
      <4>4. \A i \in a.last + 1 .. a.first - 1 :
               Class(a.host, i) # "success" /\ (Class(a.host, i) = "transport" => Covered(a.host, i))
        BY DEF ReportsAreTrue
      <4>5. \A i \in a.last + 1 .. a.first - 1 : i \in a.last .. a.first /\ i \in Nat
        BY <4>1, <4>2
      <4>6. \A i \in a.last + 1 .. a.first - 1 :
               Class(a.host, i)' # "success" /\ (Class(a.host, i)' = "transport" => Covered(a.host, i)')
        BY <2>8, <4>1, <4>3, <4>4, <4>5
      <4>7. Class(a.host, a.last)' = "success" /\ Class(a.host, a.first)' = "transport"
        BY <4>1, <4>2, <4>3 DEF ReportsAreTrue
      <4> QED
        BY <2>5, <4>1, <4>2, <4>6, <4>7
    <3>2. ASSUME IsBoundary(h, class)
          PROVE  /\ last \in Nat \ {0} /\ last < n /\ n <= Len(trace'[h])
                 /\ Class(h, last)' = "success" /\ Class(h, n)' = "transport"
                 /\ \A i \in last + 1 .. n - 1 :
                      /\ Class(h, i)' # "success"
                      /\ Class(h, i)' = "transport" => Covered(h, i)'
      <4>1. last # 0 /\ class = "transport"
        BY <2>3, <3>2 DEF IsBoundary
      <4>2. last <= n - 1 /\ Class(h, last) = "success"
        BY <2>3, <2>4, <4>1 DEF LastSuccessIsTrue
      <4>3. \A i \in last .. n - 1 : Class(h, i)' = Class(h, i)
        BY <2>4, <2>5, <4>1
      <4>4. \A i \in last + 1 .. n - 1 :
               Class(h, i) # "success" /\ (Class(h, i) = "transport" => Covered(h, i))
        BY <2>3, <2>4, <4>1 DEF LastSuccessIsTrue
      <4> QED
        BY <2>5, <2>8, <4>1, <4>2, <4>3, <4>4
    <3> QED
      BY <2>6, <3>1, <3>2 DEF ReportsAreTrue
  <2>10. LastSuccessIsTrue'
    <3>1. ASSUME NEW g \in Hosts \ {h}
          PROVE  /\ lastSuccess'[g] = lastSuccess[g] /\ trace'[g] = trace[g]
                 /\ \A i \in Nat : Class(g, i)' = Class(g, i)
      BY <2>1, <2>2, <2>5 DEF Record, Class, MoreTypes
    <3>2. CASE class = "success"
      <4>1. lastSuccess'[h] = n
        BY <2>1, <2>2, <2>4, <3>2 DEF Record, MoreTypes
      <4> QED
        BY <2>5, <2>8, <3>1, <3>2, <4>1 DEF LastSuccessIsTrue, MoreTypes
    <3>3. CASE class # "success"
      <4>1. lastSuccess'[h] = last
        BY <2>1, <2>2, <2>3, <3>3 DEF Record
      <4>2. last <= n - 1 /\ (last # 0 => Class(h, last) = "success")
        BY <2>3, <2>4 DEF LastSuccessIsTrue
      <4>3. \A i \in 1 .. n - 1 : Class(h, i)' = Class(h, i)
        BY <2>4, <2>5
      <4>4. \A i \in last + 1 .. n - 1 :
              Class(h, i)' # "success" /\ (last # 0 /\ Class(h, i)' = "transport" => Covered(h, i)')
        BY <2>3, <2>4, <2>8, <4>2, <4>3 DEF LastSuccessIsTrue
      <4>5. last # 0 /\ class = "transport" => Covered(h, n)'
        <5>1. CASE IsBoundary(h, class)
          <6>1. b \in Reports' /\ b.host = h /\ b.first = n /\ n <= n
            BY <2>6, <5>1
          <6> QED
            BY <6>1 DEF Covered
        <5>2. CASE ~ IsBoundary(h, class) /\ last # 0 /\ class = "transport"
          <6>1. h \in recorded
            BY <2>3, <5>2 DEF IsBoundary
          <6>2. PICK a \in Reports : a.host = h
            BY <6>1 DEF RecoveriesAreAlone
          <6>3. a.first \in Nat /\ a.first <= n - 1
            BY <2>4, <2>7, <6>2 DEF ReportsAreTrue, Boundaries
          <6> QED
            BY <2>6, <6>2, <6>3 DEF Covered
        <5> QED
          BY <5>1, <5>2
      <4>6. \A i \in last + 1 .. n :
              Class(h, i)' # "success" /\ (last # 0 /\ Class(h, i)' = "transport" => Covered(h, i)')
        BY <2>5, <3>3, <4>4, <4>5
      <4>7. last # 0 => Class(h, last)' = "success"
        BY <4>2, <4>3
      <4> QED
        BY <2>5, <2>8, <3>1, <4>1, <4>2, <4>6, <4>7 DEF LastSuccessIsTrue, MoreTypes
    <3> QED
      BY <3>2, <3>3
  <2> QED
    BY <2>9, <2>10
<1> QED
  BY <1>1, <1>2, <1>3, QuietSteps

-----------------------------------------------------------------------------
(* The recoveries and the blocks.                                          *)

LEMMA HostsAreFinite == IsFiniteSet(Hosts)
<1>1. IsFiniteSet(Checks)
  BY RunnerAssumption
<1>2. [c \in Checks |-> HostOf[c]] \in Surjection(Checks, Hosts)
  BY DEF Surjection, Hosts
<1> QED
  BY <1>1, <1>2, FS_Surjection

(* What a step does to the hosts that have their boundary and to those who *)
(* wait, unless a probe ends, the operator answers or a runner begins.     *)
LEMMA QuietRecoveries ==
  ASSUME TypeOK, [Next]_vars
  PROVE  \/ /\ UNCHANGED <<boundaries, recorded, recoveries>>
            /\ \A c \in Checks : Waits(c)' => Waits(c)
         \/ \E c \in Checks, result \in Results : FinishProbe(c, result)
         \/ \E c \in Checks, resume \in BOOLEAN : Answer(c, resume)
         \/ Fresh
<1> USE DEF Waits, runner
<1>1. CASE StartPass \/ StartDue \/ StartGroup \/ EndRun \/ Ended
  BY <1>1 DEF StartPass, StartDue, StartGroup, EndRun, Ended, Launch, vars
<1>2. CASE EndExperiment
  BY <1>2 DEF EndExperiment
<1>3. ASSUME NEW h \in Hosts, NextCheck(h)
      PROVE  /\ UNCHANGED <<boundaries, recorded, recoveries>>
             /\ \A d \in Checks : Waits(d)' => Waits(d)
  BY <1>3 DEF NextCheck, TypeOK
<1>4. CASE \E h \in Hosts : StartThreads(h) \/ EndGroup(h)
  BY <1>4 DEF StartThreads, EndGroup, TypeOK
<1>5. ASSUME NEW c \in Checks, Admit(c) \/ StartProbe(c) \/ Recover(c)
      PROVE  /\ UNCHANGED <<boundaries, recorded, recoveries>>
             /\ \A d \in Checks : Waits(d)' => Waits(d)
  BY <1>5 DEF Admit, StartProbe, Recover, TypeOK
<1>6. CASE UNCHANGED vars
  BY <1>6 DEF vars
<1> QED
  BY <1>1, <1>2, <1>3, <1>4, <1>5, <1>6 DEF Next

(* A host gains its boundary when nobody waits for it, and loses it to the *)
(* one who does: so the reports are the recoveries and the boundaries that *)
(* are in force.                                                           *)
LEMMA RecoveriesStep ==
  ASSUME TypeOK, MoreTypes, RecoveriesAreAlone, ReportsAreCounted, [Next]_vars
  PROVE  RecoveriesAreAlone' /\ ReportsAreCounted'
<1>0. IsFiniteSet(recorded)
  BY HostsAreFinite, FS_Subset DEF MoreTypes
<1>1. CASE /\ UNCHANGED <<boundaries, recorded, recoveries>>
           /\ \A c \in Checks : Waits(c)' => Waits(c)
  BY <1>1 DEF RecoveriesAreAlone, ReportsAreCounted, Reports
<1>2. CASE Fresh
  <2>1. recorded' = {} /\ Len(boundaries') = 0 /\ recoveries' = 0 /\ \A c \in Checks : ~ Waits(c)'
    BY <1>2 DEF Fresh, Waits, Off
  <2>2. Cardinality({}) = 0
    BY FS_EmptySet
  <2> QED
    BY <2>1, <2>2 DEF RecoveriesAreAlone, ReportsAreCounted
<1>3. ASSUME NEW c \in Checks, NEW result \in Results, FinishProbe(c, result)
      PROVE  RecoveriesAreAlone' /\ ReportsAreCounted'
  <2>1. PICK class \in Classes : Record(c, class)
    BY <1>3 DEF FinishProbe, Classes
  <2>2. PICK h \in Hosts : h = HostOf[c]
    BY DEF Hosts
  <2>3. pc[c] = "probing" /\ recoveries' = recoveries
    BY <1>3 DEF FinishProbe
  <2>4. CASE IsBoundary(h, class)
    <3>1. PICK b \in Boundaries : /\ Reports' = Reports \cup {b} /\ b.host = h
                                  /\ Len(boundaries') = Len(boundaries) + 1
                                  /\ recorded' = recorded \cup {h} /\ h \notin recorded
                                  /\ pc' = [pc EXCEPT ![c] = "recover"]
      BY <2>1, <2>2, <2>4, ReportsGrow
    <3>2. \A d \in Checks : Waits(d)' => d = c \/ Waits(d)
      BY <3>1 DEF Waits, TypeOK
    <3>3. \A d \in Checks : Waits(d) => HostOf[d] # h
      BY <3>1 DEF RecoveriesAreAlone
    <3>4. RecoveriesAreAlone'
      BY <2>2, <3>1, <3>2, <3>3 DEF RecoveriesAreAlone
    <3>5. Cardinality(recorded') = Cardinality(recorded) + 1
      BY <1>0, <3>1, FS_AddElement
    <3>6. Cardinality(recorded) \in Nat /\ Len(boundaries) \in Nat /\ recoveries \in Nat
      BY <1>0, FS_CardinalityType DEF MoreTypes
    <3> QED
      BY <2>3, <3>1, <3>4, <3>5, <3>6 DEF ReportsAreCounted
  <2>5. CASE ~ IsBoundary(h, class)
    <3>1. UNCHANGED <<boundaries, recorded>> /\ Reports' = Reports /\ pc' = [pc EXCEPT ![c] = "idle"]
      BY <2>1, <2>2, <2>5, ReportsGrow
    <3>2. \A d \in Checks : Waits(d)' => Waits(d)
      BY <3>1 DEF Waits, TypeOK
    <3> QED
      BY <2>3, <3>1, <3>2 DEF RecoveriesAreAlone, ReportsAreCounted
  <2> QED
    BY <2>4, <2>5
<1>4. ASSUME NEW c \in Checks, NEW resume \in BOOLEAN, Answer(c, resume)
      PROVE  RecoveriesAreAlone' /\ ReportsAreCounted'
  <2>1. Waits(c) /\ ~ Waits(c)' /\ \A d \in Checks : Waits(d)' => Waits(d)
    BY <1>4 DEF Answer, Waits, TypeOK
  <2>2. Reports' = Reports /\ boundaries' = boundaries
    BY <1>4 DEF Answer, Reports
  <2>3. CASE UNCHANGED <<recorded, recoveries>>
    BY <2>1, <2>2, <2>3 DEF RecoveriesAreAlone, ReportsAreCounted
  <2>4. CASE recorded' = recorded \ {HostOf[c]} /\ recoveries' = recoveries + 1
    <3>1. HostOf[c] \in recorded
      BY <2>1 DEF RecoveriesAreAlone
    <3>2. RecoveriesAreAlone'
      BY <2>1, <2>2, <2>4 DEF RecoveriesAreAlone
    <3>3. Cardinality(recorded') = Cardinality(recorded) - 1
      BY <1>0, <2>4, <3>1, FS_RemoveElement
    <3>4. Cardinality(recorded) \in Nat /\ Len(boundaries) \in Nat /\ recoveries \in Nat
      BY <1>0, FS_CardinalityType DEF MoreTypes
    <3> QED
      BY <2>2, <2>4, <3>2, <3>3, <3>4 DEF ReportsAreCounted
  <2> QED
    BY <1>4, <2>3, <2>4 DEF Answer, Resume
<1> QED
  BY <1>1, <1>2, <1>3, <1>4, QuietRecoveries

(* A check follows the one before it, and a host is blocked when its only  *)
(* check ends.                                                             *)
LEMMA ChecksStep ==
  ASSUME TypeOK, MoreTypes, ChecksFollowEachOther, [Next]_vars
  PROVE  ChecksFollowEachOther'
<1> USE DEF ChecksFollowEachOther, runner, config, schedule
<1>1. CASE StartPass \/ StartDue \/ StartGroup \/ EndRun \/ Ended
  BY <1>1 DEF StartPass, StartDue, StartGroup, EndRun, Ended, Launch, vars
<1>2. CASE EndExperiment
  <2>1. CASE Fresh
    BY <2>1 DEF Fresh, Off
  <2>2. CASE UNCHANGED <<profile, pc, runner>>
    BY <2>2
  <2> QED
    BY <1>2, <2>1, <2>2 DEF EndExperiment
<1>3. ASSUME NEW h \in Hosts, NextCheck(h) PROVE ChecksFollowEachOther'
  <2>1. profile' = profile /\ blocked' = blocked /\ ~ Busy(h)
    BY <1>3 DEF NextCheck
  <2>2. CASE pc' = pc
    BY <2>1, <2>2
  <2>3. ASSUME NEW c \in todo[h], pc' = [pc EXCEPT ![c] = "ready"] PROVE ChecksFollowEachOther'
    <3>1. c \in Checks /\ HostOf[c] = h
      BY DEF TypeOK, MoreTypes
    <3>2. \A d \in Checks : d # c => pc'[d] = pc[d]
      BY <2>3 DEF TypeOK
    <3>3. \A d \in Checks : HostOf[d] = h => pc[d] = "idle"
      BY <2>1 DEF Busy
    <3>4. pc'[c] = "ready"
      BY <2>3, <3>1 DEF TypeOK
    <3> QED
      BY <2>1, <3>1, <3>2, <3>3, <3>4
  <2> QED
    BY <1>3, <2>2, <2>3 DEF NextCheck
<1>4. ASSUME NEW h \in Hosts, StartThreads(h) \/ EndGroup(h) PROVE ChecksFollowEachOther'
  BY <1>4 DEF StartThreads, EndGroup
<1>5. ASSUME NEW c \in Checks, Admit(c) \/ StartProbe(c) \/ Recover(c) PROVE ChecksFollowEachOther'
  <2>1. profile' = profile /\ blocked' = blocked /\ pc[c] # "idle"
    BY <1>5 DEF Admit, StartProbe, Recover
  <2>2. \A d \in Checks : d # c => pc'[d] = pc[d]
    BY <1>5 DEF Admit, StartProbe, Recover, TypeOK
  <2>3. pc'[c] = "asleep" => HostOf[c] \notin blocked
    BY <1>5 DEF Admit, StartProbe, Recover, IsHostBlocked, TypeOK
  <2> QED
    BY <2>1, <2>2, <2>3
<1>6. ASSUME NEW c \in Checks, NEW result \in Results, FinishProbe(c, result)
      PROVE  ChecksFollowEachOther'
  <2>1. PICK class \in Classes : Record(c, class)
    BY <1>6 DEF FinishProbe, Classes
  <2>2. profile' = profile /\ pc[c] = "probing"
    BY <1>6 DEF FinishProbe
  <2>3. blocked' \subseteq blocked \cup ({HostOf[c]} \ {None})
    BY <2>1, ReportsGrow
  <2>4. \E x \in {"recover", "idle"} : pc' = [pc EXCEPT ![c] = x]
    BY <2>1, ReportsGrow
  <2>5. /\ \A d \in Checks : d # c => pc'[d] = pc[d]
        /\ pc'[c] # "asleep"
    BY <2>4 DEF TypeOK
  <2> QED
    BY <2>2, <2>3, <2>5
<1>7. ASSUME NEW c \in Checks, NEW resume \in BOOLEAN, Answer(c, resume)
      PROVE  ChecksFollowEachOther'
  <2>1. profile' = profile /\ pc' = [pc EXCEPT ![c] = "idle"] /\ blocked' \subseteq blocked
    BY <1>7 DEF Answer, Resume
  <2>2. \A d \in Checks : pc'[d] = pc[d] \/ pc'[d] = "idle"
    BY <2>1 DEF TypeOK
  <2> QED
    BY <2>1, <2>2
<1>8. CASE UNCHANGED vars
  BY <1>8 DEF vars
<1> QED
  BY <1>1, <1>2, <1>3, <1>4, <1>5, <1>6, <1>7, <1>8 DEF Next

-----------------------------------------------------------------------------

(* The invariant is inductive and holds from the start of the tool on.     *)
LEMMA InvariantHolds == Spec => []IInv
<1>1. Init => IInv
  <2> SUFFICES ASSUME Init PROVE IInv
    OBVIOUS
  <2>1. Reports = {} /\ Len(boundaries) = 0 /\ recorded = {} /\ recoveries = 0
    BY DEF Init, Reports, ToSet
  <2>2. \A h \in Hosts : trace[h] = <<>> /\ lastSuccess[h] = 0 /\ todo[h] = {}
    BY DEF Init
  <2>3. TypeOK
    BY DEF Init, TypeOK, Off
  <2>4. MoreTypes
    BY DEF Init, MoreTypes, NoSearch
  <2>5. ReportsAreTrue /\ LastSuccessIsTrue
    BY <2>1, <2>2 DEF ReportsAreTrue, LastSuccessIsTrue
  <2>6. RecoveriesAreAlone /\ ReportsAreCounted /\ ChecksFollowEachOther
    <3>1. \A c \in Checks : pc[c] = "idle"
      BY DEF Init, Off
    <3>2. Cardinality({}) = 0
      BY FS_EmptySet
    <3> QED
      BY <2>1, <3>1, <3>2
         DEF Init, RecoveriesAreAlone, Waits, ReportsAreCounted, ChecksFollowEachOther
  <2> QED
    BY <2>3, <2>4, <2>5, <2>6 DEF IInv
<1>2. IInv /\ [Next]_vars => IInv'
  BY TypesStep, ReportsStep, RecoveriesStep, ChecksStep DEF IInv
<1> QED
  BY <1>1, <1>2, PTL DEF Spec

(* Every report names a host's last success and a failure after it, with   *)
(* nothing but covered failures between them, and every boundary is in     *)
(* force until it is resumed, for any checks, hosts, results, passes and   *)
(* threads (_record_boundary, _handle_recovery).                           *)
THEOREM BoundariesAreTrue == Spec => []BoundaryIsTrue
<1>1. IInv => BoundaryIsTrue
  <2> SUFFICES ASSUME IInv PROVE BoundaryIsTrue
    OBVIOUS
  <2> USE DEF IInv
  <2>1. Reports \subseteq Boundaries
    BY ReportsAreBoundaries DEF MoreTypes
  <2>2. ASSUME NEW b \in Reports
        PROVE  /\ Class(b.host, b.last) = "success" /\ Class(b.host, b.first) = "transport"
               /\ b.last < b.first
               /\ \A i \in b.last + 1 .. b.first - 1 :
                    /\ Class(b.host, i) # "success"
                    /\ Class(b.host, i) = "transport" =>
                         \E a \in Reports : a.host = b.host /\ a.first <= i /\ a.first < b.first
    <3>1. b.first \in Nat /\ b.last \in Nat
      BY <2>1 DEF Boundaries
    <3>2. ASSUME NEW i \in b.last + 1 .. b.first - 1, Class(b.host, i) = "transport"
          PROVE  \E a \in Reports : a.host = b.host /\ a.first <= i /\ a.first < b.first
      <4>1. PICK a \in Reports : a.host = b.host /\ a.first <= i
        BY <3>2 DEF ReportsAreTrue, Covered
      <4>2. a.first \in Nat /\ i < b.first /\ i \in Nat
        BY <2>1, <3>1 DEF Boundaries
      <4> QED
        BY <3>1, <4>1, <4>2
    <3> QED
      BY <3>2 DEF ReportsAreTrue
  <2> QED
    BY <2>2 DEF BoundaryIsTrue, Reports, Class, ReportsAreCounted
<1> QED
  BY <1>1, InvariantHolds, PTL

(* No probe of a host that has its failure boundary starts before the      *)
(* operator resumes the host, as long as the host's probes run one at a    *)
(* time (_is_host_blocked, _run_host_group).                               *)
THEOREM BlockedHostsAreLeftAlone == Spec => BlockedHostIsLeftAlone
<1>1. IInv /\ [Next]_vars
        => [\A c \in Checks : pc[c] = "asleep" /\ pc'[c] = "probing" =>
              profile.same \/ HostOf[c] \notin blocked]_vars
  BY DEF IInv, ChecksFollowEachOther
<1> QED
  BY <1>1, InvariantHolds, PTL DEF Spec, BlockedHostIsLeftAlone
=============================================================================
