------------------------------ MODULE MCDeviceLoop ------------------------------
(* Two checks of one host, the first a TELNET one, and one of another. *)
EXTENDS DeviceLoop

CONSTANTS c1, c2, c3

MCChecks == {c1, c2, c3}
MCQuiet == {c1}
MCHostOf == [c \in MCChecks |-> IF c = c3 THEN "h2" ELSE "h1"]
=============================================================================
