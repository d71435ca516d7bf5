------------------------- MODULE ProbeSessionProps --------------------------
(* What a probe on the socket path of runtime/checks.py promises. *)
EXTENDS ProbeSession

Places   == {"idle", "command", "resolve", "open", "wait", "op", "telnet", "done"}
Steps    == {"none", "session", "ident", "ping", "command", "uping"} \cup DOMAIN Codes \cup DOMAIN Needs
Details  == {"none", "ok", "dns", "refused", "timeout", "budget", "reset", "bad", "closed",
             "network", "io", "fault", "unsupported", "lost",
             "stopped", "idle", "plenty", "marker"}
Words    == (UNION {Codes[s] : s \in DOMAIN Codes}) \cup {"stray"}
Items    == [step : Steps, code : Words, eol : BOOLEAN]

Greater(a, b) == IF a > b THEN a ELSE b

\* The probe's locals and the operating system's sockets stay in their ranges;
\* in particular the budget is never overdrawn (_ProbeBudget.charge).
TypeOK ==
    /\ kind \in Streams \cup Datagrams /\ hasPoll \in BOOLEAN
    /\ board \in {"device", "host"} /\ traced \in BOOLEAN
    /\ pc \in Places /\ want \in {"connect", "send", "recv", "datagram"} /\ step \in Steps
    /\ got \in Seq(Items) /\ wire \in Seq(Items)
    /\ budget \in 0..MaxOps /\ now \in Nat /\ unfed \in 0..now
    /\ addrs \in 0..MaxAddrs /\ socks \in 0..1 /\ handle \in BOOLEAN
    /\ tel \in [chunks : 0..MaxChunks, saw : BOOLEAN, shook : BOOLEAN, text : 0..2,
                since : Nat, marker : BOOLEAN]
    /\ status \in {"none", "OK", "DEG", "FAIL"} /\ why \in Details
    /\ peer \in {"open", "closed", "reset"} /\ reached \in BOOLEAN /\ honest \in BOOLEAN

\* The budget is never overdrawn and, whatever fails, at whichever address,
\* every socket a probe created has been closed when its result is returned,
\* and none is open while the runner has no use for one (_open_socket,
\* _close_socket in every finally).
SocketsAreClosed ==
    /\ TypeOK
    /\ pc \in {"idle", "done", "open"} => socks = 0
    /\ handle => socks = 1

\* http.client drops the connection before the runner looks for it, so that a
\* peer lost before its status line is an outage after all.
LostByHttpClient == HttpClient /\ why = "reset"

\* A peer that accepted the connection or answered is never reported as an
\* outage, and one that did neither is never reported as working or degraded
\* (the runners' except clauses; execution.py keeps FAIL for "unreachable").
OutageMeansUnreached ==
    pc = "done" /\ ~LostByHttpClient => (status = "FAIL" <=> ~reached)

\* A peer that answers every command rightly is reported OK unless the probe
\* ran out of time or of socket operations: replies are never cut in the
\* wrong place or taken for the answer to another command.
GoodPeerIsOK ==
    (/\ pc = "done" /\ reached /\ honest /\ why \notin {"timeout", "budget"}
     /\ kind = "telnet" => tel.text > 0)
        => status = "OK"

\* On a device the watchdog is fed at least every two slices while a probe
\* waits (_socket_wait, _recv_datagram); only a name lookup, uping and the
\* reads of a TELNET session go on without feeding, and the last cost budget.
WatchdogIsFed ==
    board = "device" =>
      unfed <= (IF step = "uping" THEN DnsT + UpingT ELSE Greater(DnsT, 2 * SliceT))
               + (IF kind = "telnet" THEN (MaxOps - budget) * IdleT ELSE 0)

\* How far the last blocking call may carry a probe past its deadline, and how
\* long it may take to look at it for the first time.
Overrun == CASE kind = "telnet" -> IdleT * (1 + MaxIac)
             [] step = "command" \/ kind \in Datagrams -> SliceT
             [] OTHER -> 0
Opening == CASE step = "uping" -> DnsT + UpingT
             [] Library -> DnsT + MaxAddrs * TimeoutT
             [] OTHER -> DnsT

\* A probe is over when its time is (a name lookup, uping and the connection
\* of a library aside; http.client and ftplib know no deadline), and with poll
\* it reports a timeout only when its time is over.
DeadlineIsKept ==
    /\ Budgeted => now <= Greater(TimeoutT, Opening) + Overrun
    /\ status # "none" /\ why = "timeout" /\ hasPoll => now >= TimeoutT

\* Every probe that is started returns a result, whatever the peer does.
ProbeEnds == pc \in {"resolve", "command"} ~> pc = "done"
=============================================================================
