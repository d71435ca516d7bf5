--------------------------- MODULE MCHostProbeRunner ---------------------------
(* Two checks of one host and one whose target has no host; an exception   *)
(* stands for a protocol failure too, which blocks as little.              *)
EXTENDS HostProbeRunner
MCChecks == {"ping", "ftp", "other"}
MCHostOf == [c \in MCChecks |-> IF c = "other" THEN None ELSE "u64"]
MCTypeOf == [c \in MCChecks |-> CASE c = "ping" -> "PING" [] c = "ftp" -> "FTP" [] c = "other" -> "HTTP"]
MCIdPlace == [c \in MCChecks |-> CASE c = "ftp" -> 1 [] c = "other" -> 2 [] c = "ping" -> 3]
MCResults == {"OK", "transport", "raises"}
MCRounds == [passes |-> 2, duration |-> 2, search |-> 1]
=============================================================================
