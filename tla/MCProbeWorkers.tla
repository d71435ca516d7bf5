--------------------------- MODULE MCProbeWorkers ---------------------------
(* A small instance: two checks on one host, one on another. *)
EXTENDS ProbeWorkersProps

MCChecks == {"dma", "http", "ping"}
MCHosts == {"c64u", "nas"}
MCHostOf == [c \in MCChecks |-> IF c = "ping" THEN "nas" ELSE "c64u"]
MCTwoChecks == {"dma", "http"}
MCOneHostOf == [c \in MCTwoChecks |-> "c64u"]
=============================================================================
