--------------------------- MODULE ProbeLifecycle ---------------------------
(***************************************************************************)
(* What the probe workers promise, without queues, threads or locks: a     *)
(* check is idle, waiting for its turn, or being probed; it is accepted    *)
(* only while idle, and probes of checks that share a worker key exclude   *)
(* each other.                                                             *)
(***************************************************************************)
CONSTANTS Checks, KeyOf(_)

VARIABLE phase

LifecycleInit == phase = [c \in Checks |-> "idle"]

Accept(c) ==
  /\ phase[c] = "idle"
  /\ phase' = [phase EXCEPT ![c] = "waiting"]

Begin(c) ==
  /\ phase[c] = "waiting"
  /\ \A d \in Checks : KeyOf(d) = KeyOf(c) => phase[d] # "probing"
  /\ phase' = [phase EXCEPT ![c] = "probing"]

End(c) ==
  /\ phase[c] = "probing"
  /\ phase' = [phase EXCEPT ![c] = "idle"]

(* A failing worker gives its waiting checks back; none of them is lost.   *)
Withdraw(S) ==
  /\ \A c \in S : phase[c] = "waiting"
  /\ phase' = [c \in Checks |-> IF c \in S THEN "idle" ELSE phase[c]]

LifecycleNext ==
  \/ \E c \in Checks : Accept(c) \/ Begin(c) \/ End(c)
  \/ \E S \in SUBSET Checks : Withdraw(S)

LifecycleSpec == LifecycleInit /\ [][LifecycleNext]_phase
=============================================================================
