--------------------------- MODULE MCProbeSession ---------------------------
(* ProbeSession on a small scale for TLC. *)
EXTENDS ProbeSessionProps
=============================================================================
