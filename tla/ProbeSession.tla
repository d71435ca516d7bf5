---------------------------- MODULE ProbeSession ----------------------------
(***************************************************************************)
(* One direct probe (runtime/checks.py).  On the socket path: name         *)
(* resolution, non-blocking connect over the resolved addresses, the       *)
(* command exchanges of DMA, FTP and HTTP, the TELNET session loop, and    *)
(* the datagram probes PING (raw ICMP) and IDENT, which share one          *)
(* deadline, a budget of socket operations, and waits cut into slices so   *)
(* that the watchdog is fed.  Under CPython, unless the probe is traced,   *)
(* HTTP, FTP and TELNET go through http.client, ftplib and                 *)
(* create_connection, whose calls block; PING runs the ping command, and   *)
(* on a board without raw sockets uping.                                   *)
(*                                                                         *)
(* Time passes only where the code blocks; one tick stands for a fraction  *)
(* of a slice.  A reply is a sequence of items, the pieces TCP may cut it  *)
(* into, each tagged with the command it answers; what an item says is one *)
(* of a few codes.                                                         *)
(***************************************************************************)
EXTENDS Integers, Sequences

CONSTANTS TimeoutT,    \* the check's timeout_s
          SliceT,      \* SOCKET_WAIT_SLICE_MS
          DnsT,        \* longest name lookup (bound of the environment)
          IdleT,       \* TELNET_IDLE_TIMEOUT_S
          QuietT,      \* TELNET_POST_DATA_IDLE_TIMEOUT_S
          StableT,     \* TELNET_STABLE_OPEN_THRESHOLD_MS
          MaxOps,      \* PROBE_MAX_SOCKET_OPS
          MaxChunks,   \* TELNET_MAX_RECV_CHUNKS
          MaxIac,      \* most negotiations in one chunk (bound)
          MaxAddrs,    \* most addresses a name resolves to (bound)
          Traceable,   \* check types a host also probes with a trace (bound)
          MultiLine    \* TRUE when FTP replies may have several lines

ASSUME TimesAreNat == /\ {TimeoutT, SliceT, IdleT, QuietT, StableT} \subseteq Nat \ {0}
                      /\ DnsT \in Nat /\ QuietT <= IdleT
ASSUME BoundsAreNat == {MaxOps, MaxChunks, MaxIac, MaxAddrs} \subseteq Nat \ {0}
ASSUME MultiLineIsBool == MultiLine \in BOOLEAN
ASSUME TraceableAssumption == Traceable \subseteq {"ident", "dma", "http", "ftp", "telnet"}

VARIABLES kind,      \* the check type
          board,     \* "device" under MicroPython, "host" under CPython
          traced,    \* a trace sink was given (on a device it changes nothing)
          hasPoll,   \* select.poll exists and accepts the socket
          pc,        \* where the runner is
          want,      \* the operation the current _socket_wait is for
          step,      \* the exchange under way
          got,       \* items of the current reply read so far
          budget,    \* _ProbeBudget.remaining
          now,       \* time since the probe started
          unfed,     \* time since _emit_probe_activity
          addrs,     \* resolved addresses not tried yet
          socks,     \* sockets created and not closed
          handle,    \* the runner's handle is not None
          tel,       \* state of _read_telnet_until_idle
          status,    \* status of the result, "none" while the probe runs
          why,       \* its detail, or the last connect error
          wire,      \* items the peer sent and the probe has not read
          peer,      \* the peer's side of the connection
          reached,   \* the peer accepted a connection or answered
          honest     \* the peer has done all that was asked so far

net  == <<wire, peer, reached, honest>>
sock == <<addrs, socks, handle>>
time == <<now, unfed>>
run  == <<kind, board, traced, hasPoll>>
vars == <<run, pc, want, step, got, budget, time, sock, tel, status, why, net>>

Exchanges == {"dma", "ftp", "http"}
Streams   == Exchanges \cup {"telnet"}
Datagrams == {"ping", "ident"}

\* The closures of build_executor hand the trace to every runner but PING's.
TraceOf(k) == traced /\ k # "ping"

\* Runners that leave the work to CPython's libraries, and those that
\* measure it by the deadline and the budget.
Library  == board = "host" /\ ~TraceOf(kind) /\ kind \in {"http", "ftp", "telnet"}
Budgeted == ~(Library /\ kind \in {"http", "ftp"})

Least(a, b) == IF a < b THEN a ELSE b

-----------------------------------------------------------------------------
(* What the peer may say.                                                  *)

Item(s, c, end) == [step |-> s, code |-> c, eol |-> end]
Copies(s, c, n) == [i \in 1..n |-> Item(s, c, i = n)]

Codes == [auth  |-> {"ok", "bad"},          debug |-> {"ok"},
          size  |-> {"ok", "bad"},          count |-> {"ok", "bad"},
          doomed |-> {"ok", "bad"},         request |-> {"2xx", "auth", "5xx", "bad"},
          greeting |-> {"220", "bad"},      user  |-> {"331", "230", "530", "bad"},
          pass  |-> {"230", "530", "bad"},  pwd   |-> {"257", "bad"},
          quit  |-> {"221", "bad"},         ident |-> {"ok", "bad"}]

\* Bytes a DMA reply has (the title is sent along with its length).
Needs == [auth |-> 1, identify |-> 1, title |-> 2, debug |-> 1,
          size |-> 2, count |-> 2, doomed |-> 2]

Lines(s, c) ==
    {Copies(s, c, 1), Copies(s, c, 2)} \cup
    (IF MultiLine THEN {<<Item(s, c, TRUE), Item(s, c, TRUE)>>} ELSE {})

Replies(s) ==
    IF s = "identify"
    THEN {Copies(s, "bad", 1)} \cup
         {Copies(s, "ok", 1) \o Copies("title", c, 2) : c \in {"ok", "bad"}}
    ELSE UNION {IF kind = "ftp" THEN Lines(s, c)
                ELSE IF kind = "dma" THEN {Copies(s, c, Needs[s])}
                ELSE {Copies(s, c, 2)} : c \in Codes[s]}

\* The peer answers a command with all or a part of a reply, or not at all,
\* and may close or reset the connection after it.
Answers(s) ==
    IF peer # "open" THEN UNCHANGED <<wire, peer, honest>>
    ELSE \E r \in Replies(s) : \E n \in 0..Len(r) :
           /\ wire' = wire \o SubSeq(r, 1, n)
           /\ peer' \in {"open", "closed", "reset"}
           /\ honest' = (/\ honest /\ n = Len(r)
                         /\ \A i \in 1..n : r[i].code \notin {"bad", "5xx"}
                         /\ \/ peer' = "open" /\ s # "request"
                            \/ peer' = "closed" /\ s \in {"request", "quit"})

-----------------------------------------------------------------------------
(* What a socket call may raise, and how it is told apart.                 *)

Errors == {"EAGAIN", "EINPROGRESS", "EISCONN", "ETIMEDOUT", "ECONNREFUSED",
           "ECONNRESET", "EHOSTUNREACH"}

InProgress(e)       == e \in {"EAGAIN", "EINPROGRESS"}
AlreadyConnected(e) == e = "EISCONN"
WouldBlock(e)       == e = "EAGAIN"

Category(e) == CASE e = "ETIMEDOUT"    -> "timeout"
                 [] e = "ECONNREFUSED" -> "refused"
                 [] e = "EHOSTUNREACH" -> "network"
                 [] e = "ECONNRESET"   -> "reset"
                 [] OTHER              -> "io"

-----------------------------------------------------------------------------
(* Time, the deadline and the watchdog.                                    *)

Left     == IF now < TimeoutT THEN TimeoutT - now ELSE 0
Takes(d) == now' = now + d /\ unfed' = unfed + d
Feeds(d) == now' = now + d /\ unfed' = d     \* fed, then waited for d

-----------------------------------------------------------------------------
(* Endings.  finally: _close_socket(handle).                               *)

Finish(st, w) ==
    /\ status' = st /\ why' = w
    /\ socks' = IF handle THEN socks - 1 ELSE socks
    /\ handle' = FALSE
    /\ pc' = "done"

\* Mutant: any failure is an outage, connected or not.
VerdictOutage(w) == "FAIL"

\* The runners' except clauses: DEG once connected, FAIL otherwise; a
\* datagram probe is DEG only for an answer that is wrong.
Verdict(w) ==
    IF \/ kind \in Streams /\ handle
       \/ kind = "ident" /\ w = "bad"
    THEN "DEG" ELSE "FAIL"

Raise(w) == Finish(Verdict(w), w) /\ UNCHANGED addrs

\* An exception that leaves the runner: _execution_error.
Fault == Finish("FAIL", "fault") /\ UNCHANGED addrs

-----------------------------------------------------------------------------
(* Starting, resolving, connecting.                                        *)

FreshTel == [chunks |-> 0, saw |-> FALSE, shook |-> FALSE, text |-> 0, since |-> 0,
             marker |-> FALSE]

Init ==
    /\ kind \in Streams \cup Datagrams /\ hasPoll \in BOOLEAN
    /\ board \in {"device", "host"} /\ traced \in BOOLEAN
    /\ traced => board = "host" /\ kind \in Traceable
    /\ board = "host" => hasPoll
    /\ pc = "idle" /\ want = "connect" /\ step = "none" /\ got = <<>> /\ budget = MaxOps
    /\ now = 0 /\ unfed = 0 /\ addrs = 0 /\ socks = 0 /\ handle = FALSE
    /\ tel = FreshTel /\ status = "none" /\ why = "none"
    /\ wire = <<>> /\ peer = "open" /\ reached = FALSE /\ honest = TRUE

\* A target: its scheme, and whether it has a host and a port that is one.
Schemes == {"none", "https", "raw64"} \cup Streams \cup Datagrams
Target  == [scheme : Schemes, host : BOOLEAN]

DigitalTarget(t) == t.host /\ t.scheme \in {"none"} \cup (IF kind = "dma" THEN {"dma", "raw64"} ELSE {"ident"})
SocketTarget(t)  == t.host /\ t.scheme \in {"none", kind}
HttpTarget(t)    == t.host /\ t.scheme \in {"http", "https"}

\* https is refused on the socket path.
Accepts(t) == CASE kind \in {"ident", "dma"}  -> DigitalTarget(t)
                [] kind \in {"ftp", "telnet"} -> SocketTarget(t)
                [] kind = "http"              -> HttpTarget(t) /\ (t.scheme = "https" => Library)
                [] OTHER                      -> TRUE

\* PING needs a raw socket.
RawPing == kind = "ping" /\ board = "device"
Opens   == kind = "ident" \/ RawPing

Start ==
    /\ pc = "idle" /\ \E t \in Target : Accepts(t)
    /\ kind = "ping" => RawPing
    /\ pc' = "resolve"
    /\ socks' = IF Opens THEN 1 ELSE 0
    /\ handle' = Opens
    /\ UNCHANGED <<run, want, step, got, budget, time, addrs, tel, status, why, net>>

\* The target is refused before anything is opened.
Refuse ==
    /\ pc = "idle" /\ \E t \in Target : ~Accepts(t)
    /\ Fault
    /\ UNCHANGED <<run, want, step, got, budget, time, tel, net>>

\* PING without a raw socket: uping on a board that has it, the ping command
\* under CPython.
PingFallsBack ==
    /\ pc = "idle" /\ kind = "ping"
    /\ \/ pc' = "command" /\ step' = (IF board = "host" THEN "command" ELSE "uping")
          /\ UNCHANGED <<sock, status, why>>
       \/ board = "device" /\ Raise("unsupported") /\ UNCHANGED step
    /\ UNCHANGED <<run, want, got, budget, time, tel, net>>

\* The next probe of the same executor: every local starts afresh.
Again ==
    /\ pc = "done"
    /\ kind' \in (IF traced THEN Traceable ELSE Streams \cup Datagrams)
    /\ pc' = "idle" /\ want' = "connect" /\ step' = "none" /\ got' = <<>> /\ budget' = MaxOps
    /\ now' = 0 /\ unfed' = 0 /\ addrs' = 0
    /\ tel' = FreshTel /\ status' = "none" /\ why' = "none"
    /\ wire' = <<>> /\ peer' = "open" /\ reached' = FALSE /\ honest' = TRUE
    /\ UNCHANGED <<board, traced, hasPoll, socks, handle>>

\* getaddrinfo blocks without feeding; for IDENT it happens inside sendto.
Resolve ==
    /\ pc = "resolve"
    /\ \E d \in 0..DnsT :
         /\ now' = now + d /\ unfed' = unfed + d
         /\ \/ /\ kind \in Streams
               /\ addrs' \in 1..MaxAddrs
               /\ pc' = "open"
               /\ UNCHANGED <<want, step, socks, handle, status, why, net>>
            \/ /\ kind \in Datagrams
               /\ pc' = "wait" /\ want' = "datagram"
               /\ step' = kind
               /\ \/ UNCHANGED <<wire, honest>>
                  \/ /\ kind = "ident"
                     /\ \E c \in Codes.ident :
                          wire' = Copies(kind, c, 1) /\ honest' = (c = "ok")
                  \/ /\ kind = "ping"
                     /\ wire' \in {Copies(kind, "ok", 1), Copies(kind, "stray", 1),
                                   Copies(kind, "stray", 1) \o Copies(kind, "ok", 1)}
                     /\ UNCHANGED honest
               /\ UNCHANGED <<sock, status, why, peer, reached>>
            \/ Raise("dns") /\ UNCHANGED <<want, step, net>>
    /\ UNCHANGED <<run, got, budget, tel>>

\* _connect_socket returned: what each runner does first with its handle.
Connected ==
    /\ handle' = TRUE /\ reached' = TRUE
    /\ UNCHANGED <<addrs, status, why>>
    /\ \/ /\ kind = "dma" /\ step' \in {"auth", "identify"}
          /\ pc' = "wait" /\ want' = "send" /\ UNCHANGED <<tel, wire, peer, honest>>
       \/ /\ kind = "http" /\ step' = "request"
          /\ pc' = "wait" /\ want' = "send" /\ UNCHANGED <<tel, wire, peer, honest>>
       \/ /\ kind = "ftp" /\ step' = "greeting"
          /\ pc' = "wait" /\ want' = "recv" /\ Answers("greeting") /\ UNCHANGED tel
       \/ /\ kind = "telnet" /\ step' = "session"
          /\ pc' = "telnet" /\ tel' = [FreshTel EXCEPT !.since = now']
          /\ UNCHANGED <<want, wire, peer, honest>>

\* Mutant: the socket of a failed address is not closed.
DropAddressOpen(w) ==
    /\ why' = w /\ addrs' = addrs - 1 /\ pc' = "open"
    /\ UNCHANGED <<want, step, socks, handle, tel, status, net>>

\* except (OSError, TimeoutError): remember the error and close the socket.
DropAddress(w) ==
    /\ why' = w /\ socks' = socks - 1 /\ addrs' = addrs - 1 /\ pc' = "open"
    /\ UNCHANGED <<want, step, handle, tel, status, net>>

\* Opened, refused and closed again.
PassOver(w) ==
    /\ addrs' = addrs - 1 /\ why' = w
    /\ UNCHANGED <<pc, want, step, socks, handle, tel, status, net>>

OpenSocket ==
    /\ pc = "open" /\ ~Library /\ UNCHANGED time
    /\ IF addrs = 0
       THEN Raise(why) /\ UNCHANGED <<want, step, tel, net>>
       ELSE \/ socks' = socks + 1 /\ Connected
            \/ /\ socks' = socks + 1 /\ pc' = "wait" /\ want' = "connect"
               /\ UNCHANGED <<step, addrs, handle, tel, status, why, net>>
            \/ \E e \in {"ECONNREFUSED", "EHOSTUNREACH"} :
                 /\ ~InProgress(e) /\ ~WouldBlock(e)
                 /\ PassOver(Category(e))
    /\ UNCHANGED <<run, got, budget>>

\* create_connection (which http.client and ftplib call too) has the whole
\* timeout for every address.
CreateConnection ==
    /\ pc = "open" /\ Library
    /\ IF addrs = 0
       THEN Raise(why) /\ UNCHANGED <<want, step, tel, time, net>>
       ELSE \E d \in 0..TimeoutT :
              /\ Takes(d)
              /\ \/ socks' = socks + 1 /\ Connected
                 \/ PassOver("refused")
                 \/ d = TimeoutT /\ PassOver("timeout")
    /\ UNCHANGED <<run, got, budget>>

-----------------------------------------------------------------------------
(* _socket_wait.                                                           *)

WaitExpires ==
    /\ pc = "wait" /\ Left = 0 /\ ~Library
    /\ IF want = "connect" THEN DropAddress("timeout")
       ELSE Raise("timeout") /\ UNCHANGED <<want, step, tel, net>>
    /\ UNCHANGED <<run, got, budget, time>>

\* Mutants: a poll that waits for all the time left, and one that always
\* waits a whole slice.
WholeWait   == Left
UncutSlice  == SliceT

\* The longest one poll waits.
PollSlice == Least(Left, SliceT)

\* Whether poll can report the socket ready after d.  A connect still under
\* way takes time; a datagram socket may wake up with nothing to read.
Ready(d) == \/ want \in {"send", "datagram"}
            \/ want = "connect" /\ d > 0
            \/ want = "recv" /\ (wire # <<>> \/ peer # "open")

Poll ==
    /\ pc = "wait" /\ Left > 0 /\ hasPoll /\ ~Library
    /\ \E d \in 0..PollSlice :
         /\ Feeds(d)
         /\ \/ Ready(d) /\ pc' = "op"
            \/ d = PollSlice /\ pc' = "wait"
    /\ UNCHANGED <<run, want, step, got, budget, sock, tel, status, why, net>>

\* Without poll the wait only feeds and sets the socket's timeout.
SetTimeout ==
    /\ pc = "wait" /\ Left > 0 /\ ~hasPoll
    /\ Feeds(0) /\ pc' = "op"
    /\ UNCHANGED <<run, want, step, got, budget, sock, tel, status, why, net>>

\* A library blocks in the operation itself.
LibraryCalls ==
    /\ pc = "wait" /\ Library
    /\ pc' = "op"
    /\ UNCHANGED <<run, want, step, got, budget, time, sock, tel, status, why, net>>

-----------------------------------------------------------------------------
(* The operation a wait was for.                                           *)

\* How long the operation itself may block.
BlockT == CASE want = "datagram" -> SliceT
            [] want # "datagram" /\ Library  -> TimeoutT
            [] want # "datagram" /\ ~Library -> IF hasPoll THEN 0 ELSE PollSlice

\* An error after d: only an operation that blocked times out.
Raises(e, d) == e = "ETIMEDOUT" => BlockT > 0 /\ d = BlockT

Connect ==
    /\ pc = "op" /\ want = "connect"
    /\ \E d \in 0..BlockT :
         /\ Takes(d)
         /\ \/ Connected /\ UNCHANGED socks
            \/ \E e \in Errors :
                 /\ Raises(e, d)
                 /\ \/ AlreadyConnected(e) /\ Connected /\ UNCHANGED socks
                    \/ /\ InProgress(e) \/ WouldBlock(e)
                       /\ hasPoll \/ d > 0
                       /\ pc' = "wait"
                       /\ UNCHANGED <<want, step, sock, tel, status, why, net>>
                    \/ /\ ~AlreadyConnected(e) /\ ~InProgress(e) /\ ~WouldBlock(e)
                       /\ DropAddress(Category(e))
    /\ UNCHANGED <<run, got, budget>>

\* budget.charge raises before the operation.
OutOfBudget ==
    /\ pc = "op" /\ want \in {"send", "recv"} /\ budget = 0
    /\ Raise("budget")
    /\ UNCHANGED <<run, want, step, got, budget, time, tel, net>>

\* Mutants: a charge that does not look at what is left, and one that takes
\* nothing.
ChargeUnchecked == budget' = budget - 1
ChargeNothing   == budget > 0 /\ UNCHANGED budget

Charge == IF Budgeted THEN budget > 0 /\ budget' = budget - 1 ELSE UNCHANGED budget

Send ==
    /\ pc = "op" /\ want = "send" /\ Charge
    /\ \E d \in 0..BlockT :
         /\ Takes(d)
         /\ \/ /\ pc' = "wait" /\ want' = "recv" /\ Answers(step)
               /\ UNCHANGED <<step, sock, status, why, reached>>
            \/ /\ pc' = "wait" /\ ~Library               \* partial or would block
               /\ UNCHANGED <<want, step, sock, status, why, net>>
            \/ \E e \in Errors :
                 /\ Raises(e, d) /\ ~WouldBlock(e)
                 /\ Category(e) = "reset" => peer # "open"
                 /\ Category(e) \in {"reset", "timeout"}
                 /\ Raise(Category(e))
                 /\ UNCHANGED <<want, step, net>>
    /\ UNCHANGED <<run, got, tel>>

\* The exchange that follows a reply, and the replies that end a probe well.
\* DMA goes on after a page size of zero and fails at the end; FTP takes a
\* refused login for an answer.
DmaMoves == {<<"auth", "ok", "identify">>, <<"identify", "ok", "title">>,
             <<"title", "ok", "debug">>, <<"debug", "ok", "size">>,
             <<"size", "ok", "count">>, <<"size", "bad", "doomed">>}
FtpMoves == {<<"greeting", "220", "user">>, <<"user", "331", "pass">>,
             <<"user", "230", "pwd">>, <<"pass", "230", "pwd">>, <<"pwd", "257", "quit">>}
Moves    == DmaMoves \cup FtpMoves

LoginRefused == {<<"user", "530">>, <<"pass", "530">>}
HttpEnds     == {<<"request", "2xx">>, <<"request", "auth">>}
GoodEnds     == {<<"count", "ok">>, <<"quit", "221">>} \cup LoginRefused \cup HttpEnds

\* A whole reply was read; its code is the one of its first bytes.
CodeOf(items) == IF items = <<>> THEN "bad" ELSE Head(items).code

Judge(items) ==
    LET c == CodeOf(items)
        m == {x \in Moves : x[1] = step /\ x[2] = c}
    IN  /\ got' = <<>>
        /\ IF m # {}
           THEN /\ \E x \in m : step' = x[3]
                /\ pc' = "wait"
                /\ want' = IF step' = "title" THEN "recv" ELSE "send"
                /\ UNCHANGED <<sock, status, why>>
           ELSE /\ IF <<step, c>> \in GoodEnds THEN Finish("OK", "ok") /\ UNCHANGED addrs
                   ELSE Raise("bad")
                /\ UNCHANGED <<want, step>>

\* http.client forgets the connection when it is lost before a status line, so
\* the runner takes the peer for unreached; what the body's read raises later
\* is ignored.
HttpClient   == Library /\ kind = "http"
RaiseReading(w) ==
    IF HttpClient /\ got # <<>> THEN Judge(got)
    ELSE /\ IF HttpClient /\ w = "reset" THEN Finish("FAIL", w) /\ UNCHANGED addrs
            ELSE Raise(w)
         /\ UNCHANGED <<want, step, got>>

\* _dma_recv_exact reads what it needs, _ftp_read_response to the end of a
\* line, _recv_until_closed to the end of the stream.
Asks == IF kind = "dma" THEN Needs[step] - Len(got) ELSE Len(wire)
\* (Mutant: the first chunk is taken for the whole reply.)
CompleteEarly(items) ==
    \/ kind = "dma" /\ Len(items) = Needs[step]
    \/ kind = "ftp"
Complete(items) ==
    \/ kind = "dma" /\ Len(items) = Needs[step]
    \/ kind = "ftp" /\ items[Len(items)].eol

Receive ==
    /\ pc = "op" /\ want = "recv" /\ Charge
    /\ \E d \in 0..BlockT :
         /\ Takes(d)
         /\ \/ \E n \in 1..Least(Len(wire), Asks) :
                 LET items == got \o SubSeq(wire, 1, n)
                 IN  /\ wire' = SubSeq(wire, n + 1, Len(wire))
                     /\ UNCHANGED <<peer, reached, honest>>
                     /\ IF Complete(items) THEN Judge(items)
                        ELSE /\ got' = items /\ pc' = "wait"
                             /\ UNCHANGED <<want, step, sock, status, why>>
            \/ /\ wire = <<>> /\ peer = "closed"          \* end of the stream
               /\ CASE kind = "dma" -> Raise("bad") /\ UNCHANGED <<want, step, got>>
                    [] HttpClient /\ got = <<>> -> RaiseReading("reset")
                    [] OTHER -> Judge(got)
               /\ UNCHANGED net
            \/ \E e \in Errors :
                 /\ Raises(e, d)
                 /\ \/ /\ WouldBlock(e) /\ ~Library
                       /\ pc' = "wait"
                       /\ UNCHANGED <<want, step, got, sock, status, why>>
                    \/ /\ \/ Category(e) = "timeout"
                          \/ Category(e) = "reset" /\ peer = "reset"
                       /\ RaiseReading(Category(e))
                 /\ UNCHANGED net
    /\ UNCHANGED <<run, tel>>

\* An IDENT reply is accepted or proves the device reachable but wrong; PING
\* skips every packet that is not the reply to its own request.
IdentJudges(item) ==
    /\ reached' = TRUE /\ UNCHANGED addrs
    /\ IF item.code = "ok" THEN Finish("OK", "ok") ELSE Finish(Verdict("bad"), "bad")
PingJudges(item) ==
    IF item.code = "ok" THEN reached' = TRUE /\ Finish("OK", "ok") /\ UNCHANGED addrs
    ELSE pc' = "wait" /\ UNCHANGED <<sock, status, why, reached>>

\* _recv_datagram: recvfrom with a one-slice timeout; a wakeup with nothing
\* to read goes back to the wait, any other error ends the probe.
ReceiveDatagram ==
    /\ pc = "op" /\ want = "datagram"
    /\ \/ /\ wire # <<>>
          /\ Takes(0)
          /\ wire' = Tail(wire)
          /\ IF kind = "ident" THEN IdentJudges(Head(wire)) ELSE PingJudges(Head(wire))
          /\ UNCHANGED <<peer, honest>>
       \/ Takes(BlockT) /\ pc' = "wait" /\ UNCHANGED <<sock, status, why, net>>
       \/ \E e \in {"ECONNREFUSED", "ECONNRESET", "EHOSTUNREACH"} :
            /\ Takes(0) /\ Raise(Category(e))
            /\ honest' = FALSE /\ UNCHANGED <<wire, peer, reached>>
    /\ UNCHANGED <<run, want, step, got, budget, tel>>

-----------------------------------------------------------------------------
(* PING by other means: the ping command, which has a second more than the *)
(* timeout, and uping, which sends three packets and does not feed.        *)

PacketT  == Least(TimeoutT \div 2, 2 * SliceT)
UpingT   == 3 * (IF PacketT < SliceT THEN SliceT ELSE PacketT)
CommandT == IF step = "uping" THEN DnsT + UpingT ELSE TimeoutT + SliceT

Command ==
    /\ pc = "command"
    /\ \E d \in 0..CommandT :
         /\ Takes(d)
         /\ \/ Finish("OK", "ok") /\ reached' = TRUE /\ UNCHANGED <<addrs, wire, peer, honest>>
            \/ Finish("FAIL", "lost") /\ UNCHANGED <<addrs, net>>
            \/ Fault /\ UNCHANGED net
    /\ UNCHANGED <<run, want, step, got, budget, tel>>

-----------------------------------------------------------------------------
(* _read_telnet_until_idle.                                                *)

Duration   == now - tel.since
Meaningful == tel.shook \/ tel.text > 0
Silent     == ~Meaningful /\ ~tel.saw
ReadT      == IF tel.saw THEN QuietT ELSE IdleT
Stops      == \/ Silent /\ Duration >= StableT
              \/ tel.chunks >= MaxChunks
              \/ now >= TimeoutT

\* _classify_telnet_session on a connected session.
SessionStatus(t) == IF t.text > 0 /\ ~t.marker THEN "OK" ELSE "DEG"

EndSession(t, w) == tel' = t /\ Finish(SessionStatus(t), w) /\ UNCHANGED addrs

\* A read of the session, bounded by the socket's timeout alone.
ReadsChunk == pc = "telnet" /\ ~Stops /\ Charge

TelnetStops ==
    /\ pc = "telnet" /\ Stops
    /\ EndSession(tel, "stopped")
    /\ UNCHANGED <<run, want, step, got, budget, time, net>>

TelnetOutOfBudget ==
    /\ pc = "telnet" /\ ~Stops /\ budget = 0
    /\ Raise("budget")
    /\ UNCHANGED <<run, want, step, got, budget, time, tel, net>>

\* recv timed out: keep waiting while the session is younger than StableT.
TelnetQuiet ==
    /\ ReadsChunk
    /\ Takes(ReadT)
    /\ IF (Meaningful \/ Silent) /\ now' - tel.since < StableT
       THEN UNCHANGED <<pc, sock, tel, status, why>>
       ELSE EndSession(tel, "idle")
    /\ UNCHANGED <<run, want, step, got, net>>

TelnetCloses ==
    /\ ReadsChunk
    /\ \E d \in 0..ReadT : Takes(d)
    /\ peer' \in {"closed", "reset"}
    /\ honest' = (honest /\ peer' = "closed")
    /\ EndSession(tel, peer')
    /\ UNCHANGED <<run, want, step, got, wire, reached>>

\* What one chunk shows: nothing visible, some text, enough text to confirm,
\* or a failure marker.
Sights == {"nothing", "some", "plenty", "marker"}
TextAfter(see) == IF see = "plenty" THEN 2 ELSE IF see = "some" THEN 1 ELSE tel.text

\* How long a read and the answers to n negotiations may block.
ChunkT(n) == ReadT * (1 + Least(n, budget - 1))

\* A chunk with n negotiations, each answered by a send that costs budget and
\* may block as long as the read may.
TelnetChunk ==
    /\ pc = "telnet" /\ ~Stops /\ budget > 0
    /\ \E n \in 0..MaxIac, see \in Sights : \E d \in 0..ChunkT(n) :
         LET t == [tel EXCEPT !.chunks = @ + 1, !.saw = TRUE, !.shook = @ \/ n > 0,
                              !.text = TextAfter(see), !.marker = (see = "marker")]
         IN  /\ Takes(d)
             /\ IF budget - 1 < n
                THEN budget' = 0 /\ Raise("budget") /\ UNCHANGED <<tel, honest>>
                ELSE /\ budget' = budget - 1 - n
                     /\ honest' = (honest /\ see # "marker")
                     /\ IF see \in {"plenty", "marker"} THEN EndSession(t, see)
                        ELSE tel' = t /\ UNCHANGED <<pc, sock, status, why>>
    /\ UNCHANGED <<run, want, step, got, wire, peer, reached>>

\* The reply to a negotiation failed: the chunk's text is not looked at.
TelnetReplyFails ==
    /\ pc = "telnet" /\ ~Stops /\ budget > 1
    /\ budget' = budget - 2
    /\ \E d \in 0..ReadT : Takes(d)
    /\ peer' = "reset" /\ honest' = FALSE
    /\ EndSession([tel EXCEPT !.chunks = @ + 1, !.saw = TRUE], "reset")
    /\ UNCHANGED <<run, want, step, got, wire, reached>>

Telnet == \/ TelnetStops \/ TelnetOutOfBudget \/ TelnetQuiet
          \/ TelnetCloses \/ TelnetChunk \/ TelnetReplyFails

Probe == \/ Start \/ Refuse \/ PingFallsBack \/ Command
         \/ Resolve \/ OpenSocket \/ CreateConnection
         \/ WaitExpires \/ Poll \/ SetTimeout \/ LibraryCalls
         \/ Connect \/ OutOfBudget \/ Send \/ Receive \/ ReceiveDatagram
         \/ Telnet

Next == Probe \/ Again

Spec == Init /\ [][Next]_vars /\ WF_vars(Probe)
=============================================================================
