------------------------- MODULE ProbeSessionProofs --------------------------
(***************************************************************************)
(* What a direct probe promises, for any timeouts, any budget of socket    *)
(* operations and any number of addresses and negotiations. Five           *)
(* invariants, each on top of the first: where the probe is and what it    *)
(* holds, what it knows of the peer, how long the watchdog waits, how long *)
(* the probe takes, and what a peer that answers rightly is told.          *)
(***************************************************************************)
EXTENDS ProbeSessionProps, SequenceTheorems, TLAPS

DmaSteps == {"auth", "identify", "title", "debug", "size", "count", "doomed"}
FtpSteps == {"greeting", "user", "pass", "pwd", "quit"}

(* Before its connection a probe has exchanged nothing. *)
Unconnected == pc \in {"idle", "resolve", "open"} \/ (pc \in {"wait", "op"} /\ want = "connect")

(* Where the probe is tells its kind, its socket and its exchange. *)
PlacesFit ==
  /\ board = "host" => hasPoll
  /\ pc \in {"idle", "command", "open", "done"} => socks = 0 /\ ~handle
  /\ pc = "resolve" => /\ handle = Opens /\ socks = (IF Opens THEN 1 ELSE 0)
                       /\ kind = "ping" => board = "device"
  /\ pc = "command" => kind = "ping" /\ step = (IF board = "host" THEN "command" ELSE "uping")
  /\ pc = "open" => kind \in Streams
  /\ pc \in {"wait", "op"} => /\ socks = 1 /\ handle = (want # "connect")
                              /\ want = "datagram" <=> kind \in Datagrams
                              /\ kind = "telnet" => want = "connect"
                              /\ kind = "ping" => board = "device"
                              /\ want = "connect" => ~Library /\ addrs > 0
                              /\ want = "datagram" => step = kind
  /\ pc = "telnet" => kind = "telnet" /\ handle /\ socks = 1 /\ step = "session"
  /\ Unconnected => step = "none"
  /\ pc \in {"wait", "op"} /\ want \in {"send", "recv"} =>
       /\ kind = "dma" => step \in DmaSteps /\ (want = "send" => step # "title")
       /\ kind = "ftp" => step \in FtpSteps /\ (want = "send" => step # "greeting")
       /\ kind = "http" => step = "request"

Holds == TypeOK /\ PlacesFit

(* TypeOK by groups of variables. *)
RunTyped   == /\ kind \in Streams \cup Datagrams /\ hasPoll \in BOOLEAN
              /\ board \in {"device", "host"} /\ traced \in BOOLEAN
PlaceTyped == pc \in Places /\ want \in {"connect", "send", "recv", "datagram"} /\ step \in Steps
NetTyped   == /\ got \in Seq(Items) /\ wire \in Seq(Items)
              /\ peer \in {"open", "closed", "reset"} /\ reached \in BOOLEAN /\ honest \in BOOLEAN
TimeTyped  == budget \in 0..MaxOps /\ now \in Nat /\ unfed \in 0..now
SockTyped  == addrs \in 0..MaxAddrs /\ socks \in 0..1 /\ handle \in BOOLEAN
TelTyped   == tel \in [chunks : 0..MaxChunks, saw : BOOLEAN, shook : BOOLEAN, text : 0..2,
                       since : Nat, marker : BOOLEAN]
EndTyped   == status \in {"none", "OK", "DEG", "FAIL"} /\ why \in Details

(* A probe has reached its peer when it is connected or has an answer. *)
ReachFits ==
  /\ pc \in {"idle", "resolve", "command", "open"} => ~reached
  /\ pc \in {"wait", "op"} => reached = (want \in {"send", "recv"})
  /\ pc = "telnet" => reached
  /\ OutageMeansUnreached

(* A wait feeds before it blocks, an operation blocks for a slice at most. *)
FedFits ==
  /\ board = "device" =>
       /\ pc \in {"idle", "resolve", "command"} => unfed = 0
       /\ pc \in {"open", "wait"} => unfed <= Greater(DnsT, 2 * SliceT)
       /\ pc = "op" => unfed <= SliceT
       /\ step = "uping" => pc \in {"command", "done"} /\ kind = "ping"
  /\ WatchdogIsFed

(* A wait ends with the deadline; only a datagram's last slice and the     *)
(* addresses that create_connection tries go on.                           *)
TimeFits ==
  /\ pc \in {"idle", "resolve", "command"} => now = 0
  /\ ~Library /\ pc = "open" => now <= Greater(TimeoutT, DnsT)
  /\ ~Library /\ pc = "wait" => now <= Greater(TimeoutT, DnsT) + (IF want = "datagram" THEN SliceT ELSE 0)
  /\ ~Library /\ pc = "op" => now <= TimeoutT
  /\ Library /\ pc = "open" => now <= DnsT + (MaxAddrs - addrs) * TimeoutT
  /\ why = "timeout" /\ hasPoll => now >= TimeoutT
  /\ DeadlineIsKept

(* What a peer that answers rightly has sent and the probe has not judged: *)
(* what is left of one whole and right reply, k items of code c, when g    *)
(* has been read and w has not.                                            *)
Rest(s, c, k, g, w) ==
  /\ Len(g) + Len(w) = k
  /\ \A i \in 1..Len(g) : g[i] = Item(s, c, i = k)
  /\ \A i \in 1..Len(w) : w[i] = Item(s, c, Len(g) + i = k)

Right(s) == Codes[s] \ {"bad", "5xx"}

(* The title of a DMA service follows its identity in the same reply.      *)
Due(s, g, w) ==
  /\ s = "identify" => /\ g = <<>> /\ Len(w) = 3 /\ w[1].code = "ok"
                       /\ Rest("title", "ok", 2, <<>>, SubSeq(w, 2, 3))
  /\ s \in DmaSteps \ {"identify"} => Rest(s, "ok", Needs[s], g, w)
  /\ s = "request" => \E c \in Right(s) : Rest(s, c, 2, g, w)
  /\ s \in FtpSteps => \E c \in Right(s), k \in {1, 2} : Rest(s, c, k, g, w) /\ Len(g) < k

GoodFits ==
  honest =>
    /\ Unconnected => got = <<>> /\ wire = <<>> /\ peer = "open"
    /\ pc \in {"wait", "op"} /\ kind \in Exchanges =>
         /\ step # "doomed"
         /\ want = "send" => got = <<>> /\ wire = <<>> /\ peer = "open"
         /\ want = "recv" => Due(step, got, wire) /\ peer # "reset"
         /\ want = "recv" /\ peer = "closed" => step \in {"request", "quit"}
    /\ kind = "ident" /\ pc # "done" /\ wire # <<>> => wire[1].code = "ok"
    /\ pc = "telnet" => ~tel.marker
    /\ GoodPeerIsOK

-----------------------------------------------------------------------------
(* The constants, and what the peer may send.                              *)

LEMMA Times ==
  /\ TimeoutT \in Nat /\ TimeoutT > 0 /\ SliceT \in Nat /\ SliceT > 0
  /\ IdleT \in Nat /\ IdleT > 0 /\ QuietT \in Nat /\ QuietT > 0 /\ QuietT <= IdleT
  /\ StableT \in Nat /\ StableT > 0 /\ DnsT \in Nat
  /\ MaxOps \in Nat /\ MaxOps > 0 /\ MaxChunks \in Nat /\ MaxChunks > 0
  /\ MaxIac \in Nat /\ MaxIac > 0 /\ MaxAddrs \in Nat /\ MaxAddrs > 0
BY TimesAreNat, BoundsAreNat

LEMMA CodesAreWords ==
  \A s \in DOMAIN Codes : s \in Steps /\ Codes[s] \subseteq Words
BY DEF Steps, Words

LEMMA CopiesAreItems ==
  ASSUME NEW s \in Steps, NEW c \in Words, NEW n \in Nat
  PROVE  Copies(s, c, n) \in Seq(Items) /\ Len(Copies(s, c, n)) = n
<1>1. \A i \in 1..n : Item(s, c, i = n) \in Items
  BY Zenon DEF Item, Items
<1>2. Copies(s, c, n) \in [1..n -> Items]
  BY <1>1 DEF Copies
<1> QED
  BY <1>2, SeqDef

Asked == DOMAIN Codes \cup {"identify"}

LEMMA RepliesAreItems ==
  ASSUME NEW s \in Asked, kind = "dma" => s \in DOMAIN Needs
  PROVE  Replies(s) \subseteq Seq(Items)
<1>1. CASE s = "identify"
  <2>1. "identify" \in Steps /\ "title" \in Steps /\ "ok" \in Words /\ "bad" \in Words
    BY DEF Steps, Words, Codes, Needs
  <2>2. \A c \in {"ok", "bad"} : Copies("identify", "ok", 1) \o Copies("title", c, 2) \in Seq(Items)
    BY <2>1, CopiesAreItems, ConcatProperties
  <2>3. Copies("identify", "bad", 1) \in Seq(Items)
    BY <2>1, CopiesAreItems
  <2>4. Replies("identify") = {Copies("identify", "bad", 1)} \cup
          {Copies("identify", "ok", 1) \o Copies("title", c, 2) : c \in {"ok", "bad"}}
    BY Zenon DEF Replies
  <2> QED
    BY <1>1, <2>2, <2>3, <2>4
<1>2. CASE s # "identify"
  <2>1. s \in DOMAIN Codes
    BY <1>2 DEF Asked
  <2>2. \A c \in Codes[s] : c \in Words /\ s \in Steps
    BY <2>1, CodesAreWords
  <2>3. \A c \in Codes[s] : Lines(s, c) \subseteq Seq(Items)
    <3> SUFFICES ASSUME NEW c \in Codes[s] PROVE Lines(s, c) \subseteq Seq(Items)
      OBVIOUS
    <3>1. Copies(s, c, 1) \in Seq(Items) /\ Copies(s, c, 2) \in Seq(Items)
      BY <2>2, CopiesAreItems
    <3>2. Item(s, c, TRUE) \in Items
      BY <2>2, Zenon DEF Item, Items
    <3>3. \A x \in Items : <<x, x>> \in Seq(Items)
      OBVIOUS
    <3> QED
      BY <3>1, <3>2, <3>3 DEF Lines
  <2>4. kind = "dma" => Needs[s] \in Nat
    BY DEF Needs
  <2>5. \A c \in Codes[s] : /\ Copies(s, c, 2) \in Seq(Items)
                            /\ kind = "dma" => Copies(s, c, Needs[s]) \in Seq(Items)
    BY <2>2, <2>4, CopiesAreItems
  <2> QED
    BY <1>2, <2>3, <2>5 DEF Replies
<1> QED
  BY <1>1, <1>2

(* An answer leaves items on the wire, and tells of the peer. *)
LEMMA AnswersFit ==
  ASSUME NEW s \in Asked, kind = "dma" => s \in DOMAIN Needs, TypeOK, Answers(s)
  PROVE  /\ wire' \in Seq(Items) /\ peer' \in {"open", "closed", "reset"}
         /\ honest' \in BOOLEAN
<1> USE DEF TypeOK
<1>1. CASE peer # "open"
  BY <1>1 DEF Answers
<1>2. CASE peer = "open"
  <2> DEFINE Sent(r, n) ==
           /\ wire' = wire \o SubSeq(r, 1, n)
           /\ peer' \in {"open", "closed", "reset"}
           /\ honest' = (/\ honest /\ n = Len(r)
                         /\ \A i \in 1..n : r[i].code \notin {"bad", "5xx"}
                         /\ \/ peer' = "open" /\ s # "request"
                            \/ peer' = "closed" /\ s \in {"request", "quit"})
  <2>0. PICK r \in Replies(s) : \E n \in 0..Len(r) : Sent(r, n)
    BY <1>2 DEF Answers
  <2>1. PICK n \in 0..Len(r) : Sent(r, n)
    BY <2>0
  <2>2. r \in Seq(Items) /\ Len(r) \in Nat /\ \A i \in 1..n : r[i] \in Items
    BY RepliesAreItems, ElementOfSeq, LenProperties
  <2>3. SubSeq(r, 1, n) \in Seq(Items)
    BY <2>2, SubSeqProperties
  <2>4. wire' \in Seq(Items)
    BY <2>1, <2>3, ConcatProperties
  <2> QED
    BY <2>1, <2>4
<1> QED
  BY <1>1, <1>2

-----------------------------------------------------------------------------
(* Where the probe is.                                                      *)

LEMMA FinishFits ==
  ASSUME Holds, NEW st \in {"OK", "DEG", "FAIL"}, NEW w \in Details, Finish(st, w),
         ~(pc \in {"wait", "op"} /\ want = "connect")
  PROVE  pc' = "done" /\ socks' = 0 /\ handle' = FALSE /\ status' = st /\ why' = w
BY DEF Holds, TypeOK, PlacesFit, Finish, Places

LEMMA RaiseFits ==
  ASSUME Holds, NEW w \in Details, Raise(w), ~(pc \in {"wait", "op"} /\ want = "connect")
  PROVE  /\ pc' = "done" /\ socks' = 0 /\ handle' = FALSE /\ addrs' = addrs
         /\ status' \in {"OK", "DEG", "FAIL"} /\ why' = w
BY FinishFits DEF Raise, Verdict

LEMMA FaultFits ==
  ASSUME Holds, Fault, ~(pc \in {"wait", "op"} /\ want = "connect")
  PROVE  /\ pc' = "done" /\ socks' = 0 /\ handle' = FALSE /\ addrs' = addrs
         /\ status' = "FAIL" /\ why' = "fault"
BY FinishFits DEF Fault, Details

LEMMA StartHolds == Holds /\ Start => Holds'
BY DEF Holds, TypeOK, PlacesFit, Start, run, time, net, Opens, RawPing, Library, TraceOf, Streams,
       Exchanges, Datagrams, Places, Unconnected


LEMMA TypeParts ==
  TypeOK <=> /\ RunTyped /\ PlaceTyped /\ NetTyped /\ TimeTyped /\ SockTyped /\ TelTyped
             /\ EndTyped
BY DEF TypeOK, RunTyped, PlaceTyped, NetTyped, TimeTyped, SockTyped, TelTyped, EndTyped

LEMMA TypePartsNext ==
  TypeOK' <=> /\ RunTyped' /\ PlaceTyped' /\ NetTyped' /\ TimeTyped' /\ SockTyped' /\ TelTyped'
              /\ EndTyped'
BY TypeParts, PTL

(* The parts that a step leaves alone. *)
LEMMA PartsKept ==
  ASSUME TypeOK
  PROVE  /\ UNCHANGED run => RunTyped'
         /\ UNCHANGED time /\ UNCHANGED budget => TimeTyped'
         /\ UNCHANGED sock => SockTyped'
         /\ UNCHANGED tel => TelTyped'
         /\ UNCHANGED <<status, why>> => EndTyped'
         /\ UNCHANGED got /\ UNCHANGED net => NetTyped'
<1> USE DEF TypeOK
<1>1. UNCHANGED run => RunTyped'
  BY DEF run, RunTyped
<1>2. UNCHANGED time /\ UNCHANGED budget => TimeTyped'
  BY DEF time, TimeTyped
<1>3. UNCHANGED sock => SockTyped'
  BY DEF sock, SockTyped
<1>4. UNCHANGED tel => TelTyped'
  BY DEF TelTyped
<1>5. UNCHANGED <<status, why>> => EndTyped'
  BY DEF EndTyped
<1>6. UNCHANGED got /\ UNCHANGED net => NetTyped'
  BY DEF NetTyped, net
<1> QED
  BY <1>1, <1>2, <1>3, <1>4, <1>5, <1>6

(* Time that passes, fed or not, and operations that are charged. *)
LEMMA TimePasses ==
  ASSUME TypeOK, NEW d \in Nat, Takes(d) \/ Feeds(d), budget' \in 0..MaxOps
  PROVE  TimeTyped'
BY DEF TypeOK, TimeTyped, Takes, Feeds

(* However a probe ends, its places fit. *)
LEMMA DoneHolds ==
  ASSUME Holds, pc' = "done", socks' = 0, handle' = FALSE, addrs' = addrs,
         status' \in {"OK", "DEG", "FAIL"}, why' \in Details, UNCHANGED run,
         step' \in Steps, want' = want, NetTyped', TimeTyped', TelTyped'
  PROVE  Holds'
<1>1. RunTyped'
  BY PartsKept DEF Holds
<1>2. PlaceTyped'
  BY DEF PlaceTyped, Holds, TypeOK, Places
<1>3. SockTyped'
  <2>1. addrs' \in 0..MaxAddrs
    BY DEF Holds, TypeOK
  <2>2. socks' \in 0..1
    OBVIOUS
  <2>3. handle' \in BOOLEAN
    OBVIOUS
  <2> QED
    BY <2>1, <2>2, <2>3 DEF SockTyped
<1>4. EndTyped'
  BY DEF EndTyped
<1>5. PlacesFit'
  BY DEF PlacesFit, Holds, run, Unconnected
<1> QED
  BY <1>1, <1>2, <1>3, <1>4, <1>5, TypePartsNext DEF Holds

LEMMA RefuseHolds == Holds /\ Refuse => Holds'
<1> SUFFICES ASSUME Holds, Refuse PROVE Holds'
  OBVIOUS
<1>1. /\ pc' = "done" /\ socks' = 0 /\ handle' = FALSE /\ addrs' = addrs
      /\ status' = "FAIL" /\ why' = "fault"
  BY FaultFits DEF Refuse
<1>2. NetTyped' /\ TimeTyped' /\ TelTyped'
  BY PartsKept DEF Refuse, Holds
<1>3. "fault" \in Details
  BY DEF Details
<1>4. step' \in Steps /\ want' = want /\ UNCHANGED run
  BY DEF Refuse, Holds, TypeOK
<1> QED
  BY <1>1, <1>2, <1>3, <1>4, DoneHolds

LEMMA AgainHolds == Holds /\ Again => Holds'
<1> SUFFICES ASSUME Holds, Again PROVE Holds'
  OBVIOUS
<1> USE DEF Holds
<1>1. RunTyped'
  BY TraceableAssumption DEF Again, Streams, Exchanges, Datagrams, RunTyped, TypeOK
<1>2. TelTyped'
  BY Times DEF FreshTel, TelTyped, Again
<1>3. PlaceTyped' /\ EndTyped'
  BY DEF Again, PlaceTyped, EndTyped, Places, Details, Steps
<1>4. NetTyped'
  BY EmptySeq DEF Again, NetTyped
<1>6. TimeTyped'
  BY Times DEF Again, TimeTyped
<1>7. SockTyped'
  BY Times DEF Again, SockTyped, TypeOK
<1>5. PlacesFit'
  BY DEF TypeOK, PlacesFit, Again, Unconnected
<1> QED
  BY <1>1, <1>2, <1>3, <1>4, <1>5, <1>6, <1>7, TypePartsNext

LEMMA PingFallsBackHolds == Holds /\ PingFallsBack => Holds'
<1> SUFFICES ASSUME Holds, PingFallsBack PROVE Holds'
  OBVIOUS
<1>1. NetTyped' /\ TimeTyped' /\ TelTyped' /\ RunTyped'
  BY PartsKept DEF PingFallsBack, Holds
<1>2. CASE /\ pc' = "command" /\ step' = (IF board = "host" THEN "command" ELSE "uping")
           /\ UNCHANGED <<sock, status, why>>
  <2>1. PlaceTyped'
    BY <1>2 DEF PingFallsBack, PlaceTyped, Places, Steps, Holds, TypeOK
  <2>2. SockTyped' /\ EndTyped'
    BY <1>2, PartsKept DEF Holds
  <2>3. PlacesFit'
    BY <1>2 DEF PingFallsBack, PlacesFit, Holds, TypeOK, run, sock, Unconnected
  <2> QED
    BY <1>1, <2>1, <2>2, <2>3, TypePartsNext DEF Holds
<1>3. CASE Raise("unsupported") /\ UNCHANGED step
  <2>1. "unsupported" \in Details
    BY DEF Details
  <2>2. /\ pc' = "done" /\ socks' = 0 /\ handle' = FALSE /\ addrs' = addrs
        /\ status' \in {"OK", "DEG", "FAIL"} /\ why' = "unsupported"
    BY <1>3, <2>1, RaiseFits DEF PingFallsBack
  <2>3. step' \in Steps /\ want' = want /\ UNCHANGED run
    BY <1>3 DEF PingFallsBack, Holds, TypeOK
  <2> QED
    BY <1>1, <2>1, <2>2, <2>3, DoneHolds
<1> QED
  BY <1>2, <1>3 DEF PingFallsBack

LEMMA CommandHolds == Holds /\ Command => Holds'
<1> SUFFICES ASSUME Holds, Command PROVE Holds'
  OBVIOUS
<1>1. TelTyped' /\ step' \in Steps /\ want' = want /\ UNCHANGED run
  BY PartsKept DEF Command, Holds, TypeOK
<1>2. TimeTyped'
  <2>1. CommandT \in Nat
    BY Times DEF CommandT, UpingT, PacketT, Least
  <2>2. \E d \in 0..CommandT : Takes(d)
    BY DEF Command
  <2>3. budget' \in 0..MaxOps
    BY DEF Command, Holds, TypeOK
  <2> QED
    BY <2>1, <2>2, <2>3, TimePasses DEF Holds
<1>3. NetTyped'
  BY DEF Command, NetTyped, Holds, TypeOK, net
<1>4. {"ok", "lost", "fault"} \subseteq Details
  BY DEF Details
<1>5. pc = "command"
  BY DEF Command
<1>6. CASE Finish("OK", "ok") /\ UNCHANGED addrs
  <2>1. /\ pc' = "done" /\ socks' = 0 /\ handle' = FALSE /\ addrs' = addrs
        /\ status' = "OK" /\ why' = "ok"
    BY <1>4, <1>5, <1>6, FinishFits
  <2> QED
    BY <1>1, <1>2, <1>3, <1>4, <2>1, DoneHolds
<1>7. CASE Finish("FAIL", "lost") /\ UNCHANGED addrs
  <2>1. /\ pc' = "done" /\ socks' = 0 /\ handle' = FALSE /\ addrs' = addrs
        /\ status' = "FAIL" /\ why' = "lost"
    BY <1>4, <1>5, <1>7, FinishFits
  <2> QED
    BY <1>1, <1>2, <1>3, <1>4, <2>1, DoneHolds
<1>8. CASE Fault
  <2>1. /\ pc' = "done" /\ socks' = 0 /\ handle' = FALSE /\ addrs' = addrs
        /\ status' = "FAIL" /\ why' = "fault"
    BY <1>5, <1>8, FaultFits
  <2> QED
    BY <1>1, <1>2, <1>3, <1>4, <2>1, DoneHolds
<1> QED
  BY <1>6, <1>7, <1>8 DEF Command

LEMMA ResolveHolds == Holds /\ Resolve => Holds'
<1> SUFFICES ASSUME Holds, Resolve PROVE Holds'
  OBVIOUS
<1>1. TelTyped' /\ RunTyped' /\ UNCHANGED run /\ UNCHANGED <<got, budget>> /\ pc = "resolve"
  BY PartsKept DEF Resolve, Holds
<1>2. TimeTyped'
  BY Times DEF Resolve, TimeTyped, Holds, TypeOK
<1>3. CASE /\ kind \in Streams /\ addrs' \in 1..MaxAddrs /\ pc' = "open"
           /\ UNCHANGED <<want, step, socks, handle, status, why, net>>
  <2>1. NetTyped' /\ EndTyped'
    BY <1>1, <1>3, PartsKept DEF Holds
  <2>2. PlaceTyped' /\ SockTyped'
    BY <1>1, <1>3, Times DEF PlaceTyped, SockTyped, Places, Holds, TypeOK
  <2>3. PlacesFit'
    BY <1>1, <1>3 DEF PlacesFit, Holds, TypeOK, run, Unconnected, Opens, RawPing, Streams, Exchanges
  <2> QED
    BY <1>1, <1>2, <2>1, <2>2, <2>3, TypePartsNext DEF Holds
<1>4. CASE /\ kind \in Datagrams /\ pc' = "wait" /\ want' = "datagram" /\ step' = kind
           /\ \/ UNCHANGED <<wire, honest>>
              \/ /\ kind = "ident"
                 /\ \E c \in Codes.ident :
                      wire' = Copies(kind, c, 1) /\ honest' = (c = "ok")
              \/ /\ kind = "ping"
                 /\ wire' \in {Copies(kind, "ok", 1), Copies(kind, "stray", 1),
                               Copies(kind, "stray", 1) \o Copies(kind, "ok", 1)}
                 /\ UNCHANGED honest
           /\ UNCHANGED <<sock, status, why, peer, reached>>
  <2>a. {"ident", "ping"} \subseteq Steps
    BY DEF Steps
  <2>b. "ident" \in DOMAIN Codes /\ Codes["ident"] = {"ok", "bad"}
    BY DEF Codes
  <2>0. {"ident", "ping"} \subseteq Steps /\ {"ok", "bad", "stray"} \subseteq Words
    <3>1. "stray" \in Words
      BY Zenon DEF Words
    <3>2. Codes["ident"] \subseteq Words
      BY <2>b, CodesAreWords, Zenon
    <3> QED
      BY <2>a, <2>b, <3>1, <3>2
  <2>1. wire' \in Seq(Items)
    <3>1. CASE UNCHANGED wire
      BY <3>1 DEF Holds, TypeOK
    <3>2. CASE kind = "ident" /\ \E c \in Codes.ident : wire' = Copies(kind, c, 1)
      BY <2>0, <3>2, CopiesAreItems DEF Codes
    <3>3. CASE kind = "ping" /\ wire' \in {Copies(kind, "ok", 1), Copies(kind, "stray", 1),
                               Copies(kind, "stray", 1) \o Copies(kind, "ok", 1)}
      <4>1. Copies("ping", "ok", 1) \in Seq(Items) /\ Copies("ping", "stray", 1) \in Seq(Items)
        BY <2>0, CopiesAreItems
      <4> QED
        BY <3>3, <4>1, ConcatProperties
    <3> QED
      BY <1>4, <3>1, <3>2, <3>3
  <2>2. honest' \in BOOLEAN
    BY <1>4 DEF Holds, TypeOK
  <2>3. NetTyped'
    BY <1>1, <1>4, <2>1, <2>2 DEF NetTyped, Holds, TypeOK
  <2>4. PlaceTyped' /\ SockTyped' /\ EndTyped'
    BY <1>4, <2>0, PartsKept DEF PlaceTyped, Places, Holds, Datagrams
  <2>5. PlacesFit'
    BY <1>1, <1>4 DEF PlacesFit, Holds, TypeOK, run, sock, Unconnected, Opens, RawPing, Datagrams
  <2> QED
    BY <1>1, <1>2, <2>3, <2>4, <2>5, TypePartsNext DEF Holds
<1>5. CASE Raise("dns") /\ UNCHANGED <<want, step, net>>
  <2>1. "dns" \in Details
    BY DEF Details
  <2>2. /\ pc' = "done" /\ socks' = 0 /\ handle' = FALSE /\ addrs' = addrs
        /\ status' \in {"OK", "DEG", "FAIL"} /\ why' = "dns"
    BY <1>1, <1>5, <2>1, RaiseFits
  <2>3. step' \in Steps /\ want' = want /\ NetTyped'
    BY <1>1, <1>5, PartsKept DEF Holds, TypeOK
  <2> QED
    BY <1>1, <1>2, <2>1, <2>2, <2>3, DoneHolds
<1> QED
  BY <1>3, <1>4, <1>5 DEF Resolve

(* A connection, at once or after a wait, and an address that has none. *)
LEMMA ConnectedHolds ==
  ASSUME Holds, kind \in Streams, Connected, socks' = 1, UNCHANGED <<run, got, budget>>, TimeTyped'
  PROVE  Holds'
<1>1. RunTyped' /\ EndTyped'
  BY PartsKept DEF Connected, Holds
<1>2. SockTyped'
  BY DEF SockTyped, Connected, Holds, TypeOK
<1>3. TelTyped'
  <2>1. [FreshTel EXCEPT !.since = now'] \in
          [chunks : 0..MaxChunks, saw : BOOLEAN, shook : BOOLEAN, text : 0..2,
           since : Nat, marker : BOOLEAN]
    <3>1. FreshTel \in [chunks : 0..MaxChunks, saw : BOOLEAN, shook : BOOLEAN, text : 0..2,
                        since : Nat, marker : BOOLEAN]
      BY Times DEF FreshTel
    <3>2. now' \in Nat
      BY DEF TimeTyped
    <3> QED
      BY <3>1, <3>2
  <2> QED
    BY <2>1 DEF Connected, TelTyped, Holds, TypeOK
<1>4. NetTyped'
  <2>1. kind = "ftp" => wire' \in Seq(Items) /\ peer' \in {"open", "closed", "reset"} /\ honest' \in BOOLEAN
    <3>1. "greeting" \in Asked
      BY DEF Asked, Codes
    <3>2. kind = "ftp" => Answers("greeting")
      BY DEF Connected
    <3> QED
      BY <3>1, <3>2, AnswersFit DEF Holds
  <2>2. kind # "ftp" => UNCHANGED <<wire, peer, honest>>
    BY DEF Connected
  <2> QED
    BY <2>1, <2>2 DEF NetTyped, Connected, Holds, TypeOK
<1>5. PlaceTyped'
  <2>1. {"auth", "identify", "request", "greeting", "session"} \subseteq Steps
    BY DEF Steps, Codes, Needs
  <2> QED
    BY <2>1 DEF Connected, PlaceTyped, Places, Holds, TypeOK
<1>6. PlacesFit'
  BY DEF PlacesFit, Connected, Holds, TypeOK, run, Unconnected, Streams, Exchanges, Datagrams,
         DmaSteps, FtpSteps
<1> QED
  BY <1>1, <1>2, <1>3, <1>4, <1>5, <1>6, TypePartsNext DEF Holds

LEMMA PassOverHolds ==
  ASSUME Holds, NEW w \in Details, PassOver(w), pc = "open", addrs # 0,
         UNCHANGED <<run, got, budget>>, TimeTyped'
  PROVE  Holds'
<1>1. RunTyped' /\ TelTyped' /\ NetTyped'
  BY PartsKept DEF PassOver, Holds
<1>2. SockTyped'
  BY Times DEF SockTyped, PassOver, Holds, TypeOK, PlacesFit
<1>4. EndTyped' /\ PlaceTyped'
  BY DEF EndTyped, PlaceTyped, PassOver, Holds, TypeOK, Places
<1>3. PlacesFit'
  BY DEF PlacesFit, PassOver, Holds, TypeOK, run, Unconnected
<1> QED
  BY <1>1, <1>2, <1>3, <1>4, TypePartsNext DEF Holds

LEMMA DropAddressHolds ==
  ASSUME Holds, NEW w \in Details, DropAddress(w), pc \in {"wait", "op"}, want = "connect",
         UNCHANGED <<run, got, budget>>, TimeTyped'
  PROVE  Holds'
<1>1. RunTyped' /\ TelTyped' /\ NetTyped'
  BY PartsKept DEF DropAddress, Holds
<1>2. SockTyped'
  BY Times DEF SockTyped, DropAddress, Holds, TypeOK, PlacesFit
<1>4. EndTyped' /\ PlaceTyped'
  BY DEF EndTyped, PlaceTyped, DropAddress, Holds, TypeOK, Places
<1>3. PlacesFit'
  BY DEF PlacesFit, DropAddress, Holds, TypeOK, run, Unconnected, Streams, Exchanges, Datagrams
<1> QED
  BY <1>1, <1>2, <1>3, <1>4, TypePartsNext DEF Holds

LEMMA CategoriesAreDetails == \A e \in Errors : Category(e) \in Details
BY DEF Errors, Category, Details

LEMMA OpenSocketHolds == Holds /\ OpenSocket => Holds'
<1> SUFFICES ASSUME Holds, OpenSocket PROVE Holds'
  OBVIOUS
<1>1. /\ pc = "open" /\ ~Library /\ UNCHANGED <<run, got, budget>> /\ UNCHANGED time
      /\ kind \in Streams /\ socks = 0 /\ ~handle
  BY DEF OpenSocket, Holds, PlacesFit
<1>2. TimeTyped'
  BY <1>1, PartsKept DEF Holds
<1>3. CASE addrs = 0
  <2>1. Raise(why) /\ UNCHANGED <<want, step, tel, net>>
    BY <1>3 DEF OpenSocket
  <2>2. /\ pc' = "done" /\ socks' = 0 /\ handle' = FALSE /\ addrs' = addrs
        /\ status' \in {"OK", "DEG", "FAIL"} /\ why' = why /\ why \in Details
    BY <1>1, <2>1, RaiseFits DEF Holds, TypeOK
  <2>3. TelTyped' /\ NetTyped' /\ step' \in Steps /\ want' = want
    BY <1>1, <2>1, PartsKept DEF Holds, TypeOK
  <2> QED
    BY <1>1, <1>2, <2>2, <2>3, DoneHolds
<1>4. CASE addrs # 0
  <2>1. CASE socks' = socks + 1 /\ Connected
    BY <1>1, <1>2, <2>1, ConnectedHolds
  <2>2. CASE /\ socks' = socks + 1 /\ pc' = "wait" /\ want' = "connect"
             /\ UNCHANGED <<step, addrs, handle, tel, status, why, net>>
    <3>1. RunTyped' /\ TelTyped' /\ NetTyped' /\ EndTyped'
      BY <1>1, <2>2, PartsKept DEF Holds
    <3>2. SockTyped' /\ PlaceTyped'
      BY <1>1, <2>2 DEF SockTyped, PlaceTyped, Places, Holds, TypeOK
    <3>3. PlacesFit'
      BY <1>1, <1>4, <2>2 DEF PlacesFit, Holds, TypeOK, run, Unconnected, Streams, Exchanges,
           Datagrams, Library, TraceOf
    <3> QED
      BY <1>2, <3>1, <3>2, <3>3, TypePartsNext DEF Holds
  <2>3. CASE \E e \in {"ECONNREFUSED", "EHOSTUNREACH"} : PassOver(Category(e))
    BY <1>1, <1>2, <1>4, <2>3, PassOverHolds, CategoriesAreDetails DEF Errors
  <2> QED
    BY <1>4, <2>1, <2>2, <2>3 DEF OpenSocket
<1> QED
  BY <1>3, <1>4

LEMMA CreateConnectionHolds == Holds /\ CreateConnection => Holds'
<1> SUFFICES ASSUME Holds, CreateConnection PROVE Holds'
  OBVIOUS
<1>1. /\ pc = "open" /\ Library /\ UNCHANGED <<run, got, budget>>
      /\ kind \in Streams /\ socks = 0 /\ ~handle
  BY DEF CreateConnection, Holds, PlacesFit
<1>2. CASE addrs = 0
  <2>1. Raise(why) /\ UNCHANGED <<want, step, tel, time, net>>
    BY <1>2 DEF CreateConnection
  <2>2. /\ pc' = "done" /\ socks' = 0 /\ handle' = FALSE /\ addrs' = addrs
        /\ status' \in {"OK", "DEG", "FAIL"} /\ why' = why /\ why \in Details
    BY <1>1, <2>1, RaiseFits DEF Holds, TypeOK
  <2>3. TelTyped' /\ NetTyped' /\ TimeTyped' /\ step' \in Steps /\ want' = want
    BY <1>1, <2>1, PartsKept DEF Holds, TypeOK
  <2> QED
    BY <1>1, <2>2, <2>3, DoneHolds
<1>3. CASE addrs # 0
  <2>1. PICK d \in 0..TimeoutT :
              /\ Takes(d)
              /\ \/ socks' = socks + 1 /\ Connected
                 \/ PassOver("refused")
                 \/ d = TimeoutT /\ PassOver("timeout")
    BY <1>3 DEF CreateConnection
  <2>2. TimeTyped'
    BY <1>1, <2>1, Times, TimePasses DEF Holds, TypeOK
  <2>3. "refused" \in Details /\ "timeout" \in Details
    BY DEF Details
  <2> QED
    BY <1>1, <1>3, <2>1, <2>2, <2>3, PassOverHolds, ConnectedHolds
<1> QED
  BY <1>2, <1>3

(* The wait, and the operation it was for. *)
LEMMA WaitedHolds ==
  ASSUME Holds, pc \in {"wait", "op"}, pc' \in {"wait", "op"}, TimeTyped',
         UNCHANGED <<run, want, step, got, sock, tel, status, why, net>>
  PROVE  Holds'
<1>1. RunTyped' /\ TelTyped' /\ NetTyped' /\ SockTyped' /\ EndTyped'
  BY PartsKept DEF Holds
<1>2. PlaceTyped'
  BY DEF PlaceTyped, Places, Holds, TypeOK
<1>3. PlacesFit'
  BY DEF PlacesFit, Holds, TypeOK, run, sock, Unconnected, Opens, RawPing, Library, TraceOf
<1> QED
  BY <1>1, <1>2, <1>3, TypePartsNext DEF Holds

LEMMA RaiseHolds ==
  ASSUME Holds, NEW w \in Details, Raise(w), ~(pc \in {"wait", "op"} /\ want = "connect"),
         UNCHANGED <<run, want>>, step' \in Steps, NetTyped', TimeTyped', TelTyped'
  PROVE  Holds'
BY RaiseFits, DoneHolds

LEMMA SpansAreNat == now \in Nat => Left \in Nat /\ PollSlice \in Nat /\ BlockT \in Nat
BY Times DEF Left, PollSlice, Least, BlockT

LEMMA WaitExpiresHolds == Holds /\ WaitExpires => Holds'
<1> SUFFICES ASSUME Holds, WaitExpires PROVE Holds'
  OBVIOUS
<1>1. pc = "wait" /\ ~Library /\ UNCHANGED <<run, got, budget>> /\ UNCHANGED time
  BY DEF WaitExpires
<1>2. TimeTyped' /\ "timeout" \in Details
  BY <1>1, PartsKept DEF Holds, Details
<1>3. CASE want = "connect"
  BY <1>1, <1>2, <1>3, DropAddressHolds DEF WaitExpires
<1>4. CASE want # "connect"
  <2>1. Raise("timeout") /\ UNCHANGED <<want, step, tel, net>>
    BY <1>4 DEF WaitExpires
  <2>2. NetTyped' /\ TelTyped' /\ step' \in Steps
    BY <1>1, <2>1, PartsKept DEF Holds, TypeOK
  <2> QED
    BY <1>1, <1>2, <1>4, <2>1, <2>2, RaiseHolds
<1> QED
  BY <1>3, <1>4

LEMMA PollHolds == Holds /\ (Poll \/ SetTimeout \/ LibraryCalls) => Holds'
<1> SUFFICES ASSUME Holds, Poll \/ SetTimeout \/ LibraryCalls PROVE Holds'
  OBVIOUS
<1>1. /\ pc \in {"wait", "op"} /\ pc' \in {"wait", "op"}
      /\ UNCHANGED <<run, want, step, got, budget, sock, tel, status, why, net>>
  BY DEF Poll, SetTimeout, LibraryCalls
<1>2. TimeTyped'
  <2>1. CASE Poll
    <3>1. \E d \in 0..PollSlice : Feeds(d)
      BY <2>1 DEF Poll
    <3> QED
      BY <1>1, <3>1, SpansAreNat, TimePasses DEF Holds, TypeOK
  <2>2. CASE SetTimeout
    BY <1>1, <2>2, TimePasses DEF SetTimeout, Holds, TypeOK
  <2>3. CASE LibraryCalls
    BY <2>3, PartsKept DEF LibraryCalls, Holds
  <2> QED
    BY <2>1, <2>2, <2>3
<1> QED
  BY <1>1, <1>2, WaitedHolds

LEMMA ConnectHolds == Holds /\ Connect => Holds'
<1> SUFFICES ASSUME Holds, Connect PROVE Holds'
  OBVIOUS
<1>1. PICK d \in 0..BlockT :
         /\ Takes(d)
         /\ \/ Connected /\ UNCHANGED socks
            \/ \E e \in Errors :
                 \/ Connected /\ UNCHANGED socks
                 \/ /\ pc' = "wait"
                    /\ UNCHANGED <<want, step, sock, tel, status, why, net>>
                 \/ DropAddress(Category(e))
  BY DEF Connect
<1>2. pc = "op" /\ want = "connect" /\ UNCHANGED <<run, got, budget>> /\ socks = 1 /\ kind \in Streams
  BY DEF Connect, Holds, TypeOK, PlacesFit
<1>3. TimeTyped'
  BY <1>1, <1>2, SpansAreNat, TimePasses DEF Holds, TypeOK
<1>4. CASE Connected /\ UNCHANGED socks
  BY <1>2, <1>3, <1>4, ConnectedHolds
<1>5. CASE pc' = "wait" /\ UNCHANGED <<want, step, sock, tel, status, why, net>>
  BY <1>2, <1>3, <1>5, WaitedHolds
<1>6. CASE \E e \in Errors : DropAddress(Category(e))
  BY <1>2, <1>3, <1>6, DropAddressHolds, CategoriesAreDetails
<1> QED
  BY <1>1, <1>4, <1>5, <1>6

LEMMA OutOfBudgetHolds == Holds /\ OutOfBudget => Holds'
<1> SUFFICES ASSUME Holds, OutOfBudget PROVE Holds'
  OBVIOUS
<1>1. NetTyped' /\ TelTyped' /\ TimeTyped' /\ step' \in Steps
  BY PartsKept DEF OutOfBudget, Holds, TypeOK
<1>2. "budget" \in Details
  BY DEF Details
<1> QED
  BY <1>1, <1>2, RaiseHolds DEF OutOfBudget

LEMMA StepsOfExchanges ==
  ASSUME Holds, pc \in {"wait", "op"}, want \in {"send", "recv"}
  PROVE  /\ kind \in Exchanges /\ handle /\ socks = 1
         /\ kind = "dma" => step \in DmaSteps
         /\ want = "send" => step \in Asked
BY DEF Holds, TypeOK, PlacesFit, Streams, Exchanges, Datagrams, DmaSteps, FtpSteps, Asked, Codes

LEMMA ChargeFits == TypeOK /\ Charge => budget' \in 0..MaxOps
BY Times DEF TypeOK, Charge

LEMMA SendHolds == Holds /\ Send => Holds'
<1> SUFFICES ASSUME Holds, Send PROVE Holds'
  OBVIOUS
<1>1. PICK d \in 0..BlockT :
         /\ Takes(d)
         /\ \/ /\ pc' = "wait" /\ want' = "recv" /\ Answers(step)
               /\ UNCHANGED <<step, sock, status, why, reached>>
            \/ /\ pc' = "wait" /\ ~Library
               /\ UNCHANGED <<want, step, sock, status, why, net>>
            \/ \E e \in Errors :
                 /\ Raises(e, d) /\ ~WouldBlock(e)
                 /\ Category(e) = "reset" => peer # "open"
                 /\ Category(e) \in {"reset", "timeout"}
                 /\ Raise(Category(e))
                 /\ UNCHANGED <<want, step, net>>
  BY DEF Send
<1>2. pc = "op" /\ want = "send" /\ Charge /\ UNCHANGED <<run, got, tel>>
  BY DEF Send
<1>3. kind \in Exchanges /\ handle /\ socks = 1 /\ step \in Asked /\ (kind = "dma" => step \in DmaSteps)
  BY <1>2, StepsOfExchanges
<1>4. TimeTyped' /\ TelTyped'
  BY <1>1, <1>2, SpansAreNat, TimePasses, ChargeFits, PartsKept DEF Holds, TypeOK
<1>5. CASE /\ pc' = "wait" /\ want' = "recv" /\ Answers(step)
           /\ UNCHANGED <<step, sock, status, why, reached>>
  <2>1. wire' \in Seq(Items) /\ peer' \in {"open", "closed", "reset"} /\ honest' \in BOOLEAN
    BY <1>3, <1>5, AnswersFit DEF DmaSteps, Needs, Holds
  <2>2. RunTyped' /\ SockTyped' /\ EndTyped'
    BY <1>2, <1>5, PartsKept DEF Holds
  <2>3. NetTyped' /\ PlaceTyped'
    BY <1>2, <1>5, <2>1 DEF NetTyped, PlaceTyped, Holds, TypeOK, Places
  <2>4. PlacesFit'
    BY <1>2, <1>3, <1>5 DEF PlacesFit, Holds, TypeOK, run, sock, Unconnected, Exchanges
  <2> QED
    BY <1>4, <2>2, <2>3, <2>4, TypePartsNext DEF Holds
<1>6. CASE pc' = "wait" /\ UNCHANGED <<want, step, sock, status, why, net>>
  BY <1>2, <1>4, <1>6, WaitedHolds
<1>7. CASE \E e \in Errors : Raise(Category(e)) /\ UNCHANGED <<want, step, net>>
  <2>1. NetTyped' /\ step' \in Steps /\ want' = want
    BY <1>2, <1>7, PartsKept DEF Holds, TypeOK
  <2> QED
    BY <1>2, <1>4, <1>7, <2>1, RaiseHolds, CategoriesAreDetails
<1> QED
  BY <1>1, <1>5, <1>6, <1>7

(* The exchange after a reply stays within those of its kind. *)
LEMMA MovesStay ==
  \A m \in Moves : /\ m[1] \in DmaSteps => m[3] \in DmaSteps
                   /\ m[1] \in FtpSteps => m[3] \in FtpSteps \ {"greeting"}
                   /\ m[1] \in DmaSteps \cup FtpSteps
                   /\ m[3] \in Steps
<1>1. \A m \in DmaMoves : m[1] \in DmaSteps /\ m[1] \notin FtpSteps /\ m[3] \in DmaSteps
  BY DEF DmaMoves, DmaSteps, FtpSteps
<1>2. \A m \in FtpMoves : m[1] \in FtpSteps /\ m[1] \notin DmaSteps /\ m[3] \in FtpSteps \ {"greeting"}
  BY DEF FtpMoves, DmaSteps, FtpSteps
<1>3. DmaSteps \subseteq Steps /\ FtpSteps \subseteq Steps
  BY DEF Steps, DmaSteps, FtpSteps, Codes, Needs
<1> QED
  BY <1>1, <1>2, <1>3 DEF Moves

LEMMA JudgeHolds ==
  ASSUME Holds, pc = "op", want = "recv", NEW items, Judge(items), UNCHANGED <<run, tel>>,
         wire' \in Seq(Items), UNCHANGED <<peer, reached, honest>>, TimeTyped'
  PROVE  Holds'
<1> DEFINE m == {x \in Moves : x[1] = step /\ x[2] = CodeOf(items)}
<1>1. /\ kind \in Exchanges /\ handle /\ socks = 1
      /\ kind = "dma" => step \in DmaSteps
      /\ kind = "ftp" => step \in FtpSteps
      /\ kind = "http" => step = "request"
  BY StepsOfExchanges DEF Holds, PlacesFit
<1>2. NetTyped'
  BY EmptySeq DEF Judge, NetTyped, Holds, TypeOK
<1>3. RunTyped' /\ TelTyped'
  BY PartsKept DEF Holds
<1>4. CASE m # {}
  <2>1. PICK x \in m : step' = x[3]
    BY <1>4 DEF Judge
  <2>2. /\ pc' = "wait" /\ want' = (IF step' = "title" THEN "recv" ELSE "send")
        /\ UNCHANGED <<sock, status, why>>
    BY <1>4 DEF Judge
  <2>3. x \in Moves /\ x[1] = step
    BY <2>1
  <2> HIDE DEF m
  <2>4. /\ step \in DmaSteps => step' \in DmaSteps
        /\ step \in FtpSteps => step' \in FtpSteps \ {"greeting"}
        /\ step \in DmaSteps \cup FtpSteps
        /\ step' \in Steps
    BY <2>1, <2>3, MovesStay
  <2>5. SockTyped' /\ EndTyped'
    BY <2>2, PartsKept DEF Holds
  <2>6. PlaceTyped'
    BY <2>2, <2>4 DEF PlaceTyped, Places
  <2>7. kind # "http"
    BY <1>1, <2>4 DEF DmaSteps, FtpSteps
  <2>8. PlacesFit'
    BY <1>1, <2>2, <2>4, <2>7 DEF PlacesFit, Holds, TypeOK, run, sock, Unconnected, Exchanges
  <2> QED
    BY <1>2, <1>3, <2>5, <2>6, <2>8, TypePartsNext DEF Holds
<1>5. CASE m = {}
  <2>1. "ok" \in Details /\ "bad" \in Details
    BY DEF Details
  <2>2. UNCHANGED <<want, step>> /\ step' \in Steps
    BY <1>5 DEF Judge, Holds, TypeOK
  <2>3. CASE Finish("OK", "ok") /\ UNCHANGED addrs
    <3>1. /\ pc' = "done" /\ socks' = 0 /\ handle' = FALSE /\ addrs' = addrs
          /\ status' = "OK" /\ why' = "ok"
      BY <2>1, <2>3, FinishFits
    <3> QED
      BY <1>2, <1>3, <2>1, <2>2, <3>1, DoneHolds
  <2>4. CASE Raise("bad")
    BY <1>2, <1>3, <2>1, <2>2, <2>4, RaiseHolds
  <2> QED
    BY <1>5, <2>3, <2>4 DEF Judge
<1> QED
  BY <1>4, <1>5

LEMMA RaiseReadingHolds ==
  ASSUME Holds, pc = "op", want = "recv", NEW w \in Details, RaiseReading(w),
         UNCHANGED <<run, tel, net>>, TimeTyped'
  PROVE  Holds'
<1>1. CASE HttpClient /\ got # <<>>
  <2>1. Judge(got) /\ wire' \in Seq(Items) /\ UNCHANGED <<peer, reached, honest>>
    BY <1>1 DEF RaiseReading, net, Holds, TypeOK
  <2> QED
    BY <2>1, JudgeHolds
<1>2. CASE ~(HttpClient /\ got # <<>>)
  <2>1. UNCHANGED <<want, step, got>> /\ step' \in Steps
    BY <1>2 DEF RaiseReading, Holds, TypeOK
  <2>2. NetTyped' /\ TelTyped'
    BY <2>1, PartsKept DEF Holds
  <2>3. CASE Finish("FAIL", w) /\ UNCHANGED addrs
    <3>1. /\ pc' = "done" /\ socks' = 0 /\ handle' = FALSE /\ addrs' = addrs
          /\ status' = "FAIL" /\ why' = w
      BY <2>3, FinishFits
    <3> QED
      BY <2>1, <2>2, <3>1, DoneHolds
  <2>4. CASE Raise(w)
    BY <2>1, <2>2, <2>4, RaiseHolds
  <2> QED
    BY <1>2, <2>3, <2>4 DEF RaiseReading
<1> QED
  BY <1>1, <1>2

(* What a read takes off the wire. *)
LEMMA ReadFits ==
  ASSUME Holds, pc = "op", want = "recv", NEW n \in 1..Least(Len(wire), Asks)
  PROVE  /\ n \in 1..Len(wire) /\ SubSeq(wire, 1, n) \in Seq(Items)
         /\ SubSeq(wire, n + 1, Len(wire)) \in Seq(Items)
         /\ got \o SubSeq(wire, 1, n) \in Seq(Items)
         /\ kind = "dma" => n <= Needs[step] - Len(got)
<1>1. wire \in Seq(Items) /\ got \in Seq(Items) /\ Len(wire) \in Nat /\ Len(got) \in Nat
  BY LenProperties DEF Holds, TypeOK
<1>2. kind = "dma" => Needs[step] \in Nat
  BY StepsOfExchanges DEF DmaSteps, Needs
<1>3. Asks \in Int
  BY <1>1, <1>2 DEF Asks
<1>4. n \in 1..Len(wire) /\ n <= Asks
  BY <1>1, <1>3 DEF Least
<1>5. \A i \in 1..Len(wire) : wire[i] \in Items
  BY <1>1, ElementOfSeq
<1>6. SubSeq(wire, 1, n) \in Seq(Items)
  BY <1>1, <1>4, <1>5, SubSeqProperties
<1>7. SubSeq(wire, n + 1, Len(wire)) \in Seq(Items)
  <2>1. n + 1 \in Int /\ Len(wire) \in Int /\ \A i \in (n + 1)..Len(wire) : wire[i] \in Items
    BY <1>1, <1>4, <1>5
  <2> QED
    BY <2>1, SubSeqProperties
<1> QED
  BY <1>1, <1>4, <1>6, <1>7, ConcatProperties DEF Asks

LEMMA ReceiveHolds == Holds /\ Receive => Holds'
<1> SUFFICES ASSUME Holds, Receive PROVE Holds'
  OBVIOUS
<1>1. pc = "op" /\ want = "recv" /\ Charge /\ UNCHANGED <<run, tel>>
  BY DEF Receive
<1> DEFINE Reads ==
      \E n \in 1..Least(Len(wire), Asks) :
        LET items == got \o SubSeq(wire, 1, n)
        IN  /\ wire' = SubSeq(wire, n + 1, Len(wire))
            /\ UNCHANGED <<peer, reached, honest>>
            /\ IF Complete(items) THEN Judge(items)
               ELSE /\ got' = items /\ pc' = "wait"
                    /\ UNCHANGED <<want, step, sock, status, why>>
           Ends ==
      /\ wire = <<>> /\ peer = "closed"
      /\ CASE kind = "dma" -> Raise("bad") /\ UNCHANGED <<want, step, got>>
           [] HttpClient /\ got = <<>> -> RaiseReading("reset")
           [] OTHER -> Judge(got)
      /\ UNCHANGED net
           Fails(d) == \E e \in Errors :
      /\ Raises(e, d)
      /\ \/ /\ WouldBlock(e) /\ ~Library
            /\ pc' = "wait"
            /\ UNCHANGED <<want, step, got, sock, status, why>>
         \/ /\ \/ Category(e) = "timeout"
               \/ Category(e) = "reset" /\ peer = "reset"
            /\ RaiseReading(Category(e))
      /\ UNCHANGED net
<1>2. PICK d \in 0..BlockT : Takes(d) /\ (Reads \/ Ends \/ Fails(d))
  BY DEF Receive
<1>3. TimeTyped' /\ TelTyped'
  BY <1>1, <1>2, SpansAreNat, TimePasses, ChargeFits, PartsKept DEF Holds, TypeOK
<1>4. CASE Reads
  <2>1. PICK n \in 1..Least(Len(wire), Asks) :
          /\ wire' = SubSeq(wire, n + 1, Len(wire)) /\ UNCHANGED <<peer, reached, honest>>
          /\ \/ Judge(got \o SubSeq(wire, 1, n))
             \/ /\ got' = got \o SubSeq(wire, 1, n) /\ pc' = "wait"
                /\ UNCHANGED <<want, step, sock, status, why>>
    BY <1>4
  <2>2. wire' \in Seq(Items) /\ got \o SubSeq(wire, 1, n) \in Seq(Items)
    BY <1>1, <2>1, ReadFits
  <2>3. CASE Judge(got \o SubSeq(wire, 1, n))
    BY <1>1, <1>3, <2>1, <2>2, <2>3, JudgeHolds
  <2>4. CASE /\ got' = got \o SubSeq(wire, 1, n) /\ pc' = "wait"
             /\ UNCHANGED <<want, step, sock, status, why>>
    <3>1. RunTyped' /\ SockTyped' /\ EndTyped'
      BY <1>1, <2>4, PartsKept DEF Holds
    <3>2. NetTyped' /\ PlaceTyped'
      BY <1>1, <2>1, <2>2, <2>4 DEF NetTyped, PlaceTyped, Places, Holds, TypeOK
    <3>3. PlacesFit'
      BY <1>1, <2>4 DEF PlacesFit, Holds, TypeOK, run, sock, Unconnected
    <3> QED
      BY <1>3, <3>1, <3>2, <3>3, TypePartsNext DEF Holds
  <2> QED
    BY <2>1, <2>3, <2>4
<1>5. CASE Ends
  <2>1. wire' \in Seq(Items) /\ UNCHANGED <<peer, reached, honest>> /\ UNCHANGED net
    BY <1>5 DEF net, Holds, TypeOK
  <2>2. "bad" \in Details /\ "reset" \in Details
    BY DEF Details
  <2>3. CASE Raise("bad") /\ UNCHANGED <<want, step, got>>
    <3>1. NetTyped' /\ step' \in Steps
      BY <2>1, <2>3, PartsKept DEF Holds, TypeOK
    <3> QED
      BY <1>1, <1>3, <2>2, <2>3, <3>1, RaiseHolds
  <2>4. CASE RaiseReading("reset")
    BY <1>1, <1>3, <2>1, <2>2, <2>4, RaiseReadingHolds
  <2>5. CASE Judge(got)
    BY <1>1, <1>3, <2>1, <2>5, JudgeHolds
  <2> QED
    BY <1>5, <2>3, <2>4, <2>5
<1>6. CASE Fails(d)
  <2>1. PICK e \in Errors :
          /\ \/ pc' = "wait" /\ UNCHANGED <<want, step, got, sock, status, why>>
             \/ RaiseReading(Category(e))
          /\ UNCHANGED net
    BY <1>6
  <2>2. CASE pc' = "wait" /\ UNCHANGED <<want, step, got, sock, status, why>>
    BY <1>1, <1>3, <2>1, <2>2, WaitedHolds
  <2>3. CASE RaiseReading(Category(e))
    BY <1>1, <1>3, <2>1, <2>3, RaiseReadingHolds, CategoriesAreDetails
  <2> QED
    BY <2>1, <2>2, <2>3
<1> QED
  BY <1>2, <1>4, <1>5, <1>6

LEMMA ReceiveDatagramHolds == Holds /\ ReceiveDatagram => Holds'
<1> SUFFICES ASSUME Holds, ReceiveDatagram PROVE Holds'
  OBVIOUS
<1>1. /\ pc = "op" /\ want = "datagram" /\ UNCHANGED <<run, want, step, got, budget, tel>>
      /\ step' \in Steps /\ TelTyped'
  BY PartsKept DEF ReceiveDatagram, Holds, TypeOK
<1>2. {"ok", "bad"} \subseteq Details
  BY DEF Details
<1>3. TimeTyped'
  <2>1. \E d \in {0, BlockT} : Takes(d)
    BY DEF ReceiveDatagram
  <2> QED
    BY <1>1, <2>1, SpansAreNat, TimePasses DEF Holds, TypeOK
<1>4. CASE Takes(BlockT) /\ pc' = "wait" /\ UNCHANGED <<sock, status, why, net>>
  BY <1>1, <1>3, <1>4, WaitedHolds
<1>5. CASE /\ wire # <<>> /\ wire' = Tail(wire)
           /\ IF kind = "ident" THEN IdentJudges(Head(wire)) ELSE PingJudges(Head(wire))
           /\ UNCHANGED <<peer, honest>>
  <2>1. NetTyped'
    BY <1>1, <1>5, HeadTailProperties DEF NetTyped, Holds, TypeOK, IdentJudges, PingJudges
  <2>2. CASE /\ UNCHANGED addrs
             /\ Finish("OK", "ok") \/ Finish(Verdict("bad"), "bad")
    <3>1. Verdict("bad") \in {"OK", "DEG", "FAIL"}
      BY DEF Verdict
    <3>2. /\ pc' = "done" /\ socks' = 0 /\ handle' = FALSE /\ addrs' = addrs
          /\ status' \in {"OK", "DEG", "FAIL"} /\ why' \in Details
      BY <1>1, <1>2, <2>2, <3>1, FinishFits
    <3> QED
      BY <1>1, <1>3, <2>1, <3>2, DoneHolds
  <2>3. CASE pc' = "wait" /\ UNCHANGED <<sock, status, why, reached>>
    <3>1. RunTyped' /\ SockTyped' /\ EndTyped'
      BY <1>1, <2>3, PartsKept DEF Holds
    <3>2. PlaceTyped'
      BY <1>1, <2>3 DEF PlaceTyped, Places, Holds, TypeOK
    <3>3. PlacesFit'
      BY <1>1, <2>3 DEF PlacesFit, Holds, TypeOK, run, sock, Unconnected
    <3> QED
      BY <1>1, <1>3, <2>1, <3>1, <3>2, <3>3, TypePartsNext DEF Holds
  <2> QED
    BY <1>5, <2>2, <2>3 DEF IdentJudges, PingJudges
<1>6. ASSUME NEW e \in Errors, Raise(Category(e)), honest' = FALSE, UNCHANGED <<wire, peer, reached>>
      PROVE  Holds'
  <2>1. NetTyped' /\ Category(e) \in Details
    BY <1>1, <1>6, CategoriesAreDetails DEF NetTyped, Holds, TypeOK
  <2> QED
    BY <1>1, <1>3, <1>6, <2>1, RaiseHolds
<1> QED
  BY <1>4, <1>5, <1>6 DEF ReceiveDatagram, Errors

(* The session. *)
Sessions == [chunks : 0..MaxChunks, saw : BOOLEAN, shook : BOOLEAN, text : 0..2,
             since : Nat, marker : BOOLEAN]

LEMMA EndSessionHolds ==
  ASSUME Holds, NEW t \in Sessions, NEW w \in Details, EndSession(t, w), pc = "telnet",
         UNCHANGED <<run, want, step>>, NetTyped', TimeTyped'
  PROVE  Holds'
<1>1. TelTyped' /\ step' \in Steps
  BY DEF EndSession, TelTyped, Sessions, Holds, TypeOK
<1>2. Finish(SessionStatus(t), w) /\ UNCHANGED addrs
  BY DEF EndSession
<1>3. SessionStatus(t) \in {"OK", "DEG", "FAIL"}
  BY DEF SessionStatus
<1>4. /\ pc' = "done" /\ socks' = 0 /\ handle' = FALSE /\ addrs' = addrs
      /\ status' = SessionStatus(t) /\ why' = w
  BY <1>2, <1>3, FinishFits
<1> QED
  BY <1>1, <1>3, <1>4, DoneHolds

LEMMA SessionGoesOn ==
  ASSUME Holds, pc = "telnet", UNCHANGED <<run, pc, want, step, sock, status, why>>,
         NetTyped', TimeTyped', TelTyped'
  PROVE  Holds'
<1>1. RunTyped' /\ SockTyped' /\ EndTyped' /\ PlaceTyped'
  BY PartsKept DEF PlaceTyped, Holds, TypeOK
<1>2. PlacesFit'
  BY DEF PlacesFit, Holds, run, sock, Unconnected
<1> QED
  BY <1>1, <1>2, TypePartsNext DEF Holds

LEMMA ReadTimes ==
  /\ ReadT \in Nat /\ ReadT > 0 /\ ReadT <= IdleT
  /\ budget \in Nat \ {0} => \A n \in Nat : ChunkT(n) \in Nat /\ ChunkT(n) <= IdleT * (1 + n)
<1>1. ReadT \in Nat /\ ReadT > 0 /\ ReadT <= IdleT
  BY Times DEF ReadT
<1>2. \A r, i \in Nat, a, b \in Nat : r <= i /\ a <= b => r * (1 + a) <= i * (1 + b)
  <2>1. \A r, i, a \in Nat : r <= i => r * (1 + a) <= i * (1 + a)
    OBVIOUS
  <2>2. \A i, a, b \in Nat : a <= b => i * (1 + a) <= i * (1 + b)
    OBVIOUS
  <2>3. \A r, i, a, b \in Nat : r * (1 + a) \in Nat /\ i * (1 + a) \in Nat /\ i * (1 + b) \in Nat
    OBVIOUS
  <2> QED
    BY <2>1, <2>2, <2>3
<1>3. ASSUME budget \in Nat \ {0}, NEW n \in Nat
      PROVE  ChunkT(n) \in Nat /\ ChunkT(n) <= IdleT * (1 + n)
  <2>1. Least(n, budget - 1) \in Nat /\ Least(n, budget - 1) <= n
    BY <1>3 DEF Least
  <2>2. \A r, a \in Nat : r * (1 + a) \in Nat
    OBVIOUS
  <2> QED
    BY <1>1, <1>2, <2>1, <2>2, Times DEF ChunkT
<1> QED
  BY <1>1, <1>3

LEMMA TelnetReadsHold == Holds /\ (TelnetStops \/ TelnetOutOfBudget \/ TelnetQuiet) => Holds'
<1> SUFFICES ASSUME Holds, TelnetStops \/ TelnetOutOfBudget \/ TelnetQuiet PROVE Holds'
  OBVIOUS
<1>1. pc = "telnet" /\ UNCHANGED <<run, want, step, got, net>> /\ tel \in Sessions /\ step' \in Steps
  BY DEF TelnetStops, TelnetOutOfBudget, TelnetQuiet, ReadsChunk, Sessions, Holds, TypeOK
<1>2. NetTyped'
  BY <1>1, PartsKept DEF Holds
<1>3. {"stopped", "budget", "idle"} \subseteq Details
  BY DEF Details
<1>4. CASE TelnetStops
  <2>1. TimeTyped'
    BY <1>4, PartsKept DEF TelnetStops, Holds
  <2> QED
    BY <1>1, <1>2, <1>3, <1>4, <2>1, EndSessionHolds DEF TelnetStops
<1>5. CASE TelnetOutOfBudget
  <2>1. TimeTyped' /\ TelTyped'
    BY <1>5, PartsKept DEF TelnetOutOfBudget, Holds
  <2> QED
    BY <1>1, <1>2, <1>3, <1>5, <2>1, RaiseHolds DEF TelnetOutOfBudget
<1>6. CASE TelnetQuiet
  <2>1. TimeTyped'
    BY <1>6, ChargeFits, ReadTimes, TimePasses DEF TelnetQuiet, ReadsChunk, Holds
  <2>2. CASE UNCHANGED <<pc, sock, tel, status, why>>
    <3>1. TelTyped'
      BY <2>2, PartsKept DEF Holds
    <3> QED
      BY <1>1, <1>2, <2>1, <2>2, <3>1, SessionGoesOn
  <2>3. CASE EndSession(tel, "idle")
    BY <1>1, <1>2, <1>3, <2>1, <2>3, EndSessionHolds
  <2> QED
    BY <1>6, <2>2, <2>3 DEF TelnetQuiet
<1> QED
  BY <1>4, <1>5, <1>6

LEMMA TelnetLossHolds == Holds /\ (TelnetCloses \/ TelnetReplyFails) => Holds'
<1> SUFFICES ASSUME Holds, TelnetCloses \/ TelnetReplyFails PROVE Holds'
  OBVIOUS
<1>1. pc = "telnet" /\ UNCHANGED <<run, want, step, got, wire, reached>> /\ tel \in Sessions
  BY DEF TelnetCloses, TelnetReplyFails, ReadsChunk, Sessions, Holds, TypeOK
<1>2. NetTyped'
  BY <1>1 DEF TelnetCloses, TelnetReplyFails, NetTyped, Holds, TypeOK
<1>3. TimeTyped'
  <2>1. \E d \in 0..ReadT : Takes(d)
    BY DEF TelnetCloses, TelnetReplyFails
  <2>2. budget' \in 0..MaxOps
    BY ChargeFits, Times DEF TelnetCloses, TelnetReplyFails, ReadsChunk, Holds, TypeOK
  <2> QED
    BY <2>1, <2>2, ReadTimes, TimePasses DEF Holds
<1>4. {"closed", "reset"} \subseteq Details
  BY DEF Details
<1>5. CASE TelnetCloses
  <2>1. EndSession(tel, peer') /\ peer' \in Details
    BY <1>4, <1>5 DEF TelnetCloses
  <2> QED
    BY <1>1, <1>2, <1>3, <2>1, EndSessionHolds
<1>6. CASE TelnetReplyFails
  <2>1. [tel EXCEPT !.chunks = @ + 1, !.saw = TRUE] \in Sessions
    <3>1. tel.chunks + 1 \in 0..MaxChunks
      BY <1>1, <1>6, Times DEF TelnetReplyFails, Stops, Sessions
    <3> QED
      BY <1>1, <3>1 DEF Sessions
  <2> QED
    BY <1>1, <1>2, <1>3, <1>4, <1>6, <2>1, EndSessionHolds DEF TelnetReplyFails
<1> QED
  BY <1>5, <1>6

(* What the session is after a chunk. *)
AfterChunk(n, see) ==
  [tel EXCEPT !.chunks = @ + 1, !.saw = TRUE, !.shook = @ \/ n > 0,
              !.text = TextAfter(see), !.marker = (see = "marker")]

LEMMA ChunkFits ==
  ASSUME Holds, TelnetChunk
  PROVE  \E n \in 0..MaxIac, see \in Sights : \E d \in 0..ChunkT(n) :
           /\ Takes(d)
           /\ AfterChunk(n, see) \in Sessions
           /\ \/ /\ budget - 1 < n /\ budget' = 0 /\ Raise("budget") /\ UNCHANGED <<tel, honest>>
              \/ /\ budget - 1 >= n /\ budget' = budget - 1 - n
                 /\ honest' = (honest /\ see # "marker")
                 /\ \/ see \in {"plenty", "marker"} /\ EndSession(AfterChunk(n, see), see)
                    \/ /\ see \notin {"plenty", "marker"}
                       /\ tel' = AfterChunk(n, see) /\ UNCHANGED <<pc, sock, status, why>>
<1>1. \A n \in 0..MaxIac, see \in Sights : AfterChunk(n, see) \in Sessions
  <2> TAKE n \in 0..MaxIac, see \in Sights
  <2>0. tel \in Sessions
    BY DEF Sessions, Holds, TypeOK
  <2>3. tel.chunks + 1 \in 0..MaxChunks
    BY <2>0, Times DEF TelnetChunk, Stops, Sessions
  <2>1. tel \in Sessions /\ tel.chunks + 1 \in 0..MaxChunks /\ TextAfter(see) \in 0..2
    BY <2>0, <2>3 DEF Sessions, TextAfter
  <2>2. (tel.shook \/ n > 0) \in BOOLEAN /\ (see = "marker") \in BOOLEAN
    OBVIOUS
  <2> QED
    BY <2>1, <2>2 DEF Sessions, AfterChunk
<1>2. PICK n \in 0..MaxIac, see \in Sights : \E d \in 0..ChunkT(n) :
         /\ Takes(d)
         /\ IF budget - 1 < n
            THEN budget' = 0 /\ Raise("budget") /\ UNCHANGED <<tel, honest>>
            ELSE /\ budget' = budget - 1 - n
                 /\ honest' = (honest /\ see # "marker")
                 /\ IF see \in {"plenty", "marker"} THEN EndSession(AfterChunk(n, see), see)
                    ELSE tel' = AfterChunk(n, see) /\ UNCHANGED <<pc, sock, status, why>>
  BY DEF TelnetChunk, AfterChunk
<1>3. budget - 1 < n \/ budget - 1 >= n
  BY Times DEF Holds, TypeOK
<1> QED
  BY <1>1, <1>2, <1>3

LEMMA TelnetChunkHolds == Holds /\ TelnetChunk => Holds'
<1> SUFFICES ASSUME Holds, TelnetChunk PROVE Holds'
  OBVIOUS
<1>1. PICK n \in 0..MaxIac, see \in Sights, d \in Nat :
           /\ Takes(d)
           /\ AfterChunk(n, see) \in Sessions
           /\ \/ /\ budget - 1 < n /\ budget' = 0 /\ Raise("budget") /\ UNCHANGED <<tel, honest>>
              \/ /\ budget - 1 >= n /\ budget' = budget - 1 - n
                 /\ honest' = (honest /\ see # "marker")
                 /\ \/ see \in {"plenty", "marker"} /\ EndSession(AfterChunk(n, see), see)
                    \/ /\ see \notin {"plenty", "marker"}
                       /\ tel' = AfterChunk(n, see) /\ UNCHANGED <<pc, sock, status, why>>
  <2>1. budget \in Nat \ {0} /\ \A n \in 0..MaxIac : n \in Nat
    BY Times DEF TelnetChunk, Holds, TypeOK
  <2>2. \A n \in 0..MaxIac : ChunkT(n) \in Nat
    BY <2>1, ReadTimes
  <2>3. \A n \in 0..MaxIac, d \in Int : d \in 0..ChunkT(n) => d \in Nat
    BY <2>2
  <2> QED
    BY <2>3, ChunkFits
<1>2. pc = "telnet" /\ UNCHANGED <<run, want, step, got, wire, peer, reached>> /\ step' \in Steps
  BY DEF TelnetChunk, Holds, TypeOK
<1>3. TimeTyped'
  <2>1. budget' \in 0..MaxOps
    BY <1>1, Times DEF Holds, TypeOK
  <2> QED
    BY <1>1, <2>1, TimePasses DEF Holds
<1>4. NetTyped'
  BY <1>1, <1>2 DEF NetTyped, Holds, TypeOK
<1>5. {"budget", "plenty", "marker"} \subseteq Details
  BY DEF Details
<1>6. CASE Raise("budget") /\ UNCHANGED <<tel, honest>>
  <2>1. TelTyped'
    BY <1>6, PartsKept DEF Holds
  <2> QED
    BY <1>2, <1>3, <1>4, <1>5, <1>6, <2>1, RaiseHolds
<1>7. CASE see \in {"plenty", "marker"} /\ EndSession(AfterChunk(n, see), see)
  BY <1>1, <1>2, <1>3, <1>4, <1>5, <1>7, EndSessionHolds
<1>8. CASE tel' = AfterChunk(n, see) /\ UNCHANGED <<pc, sock, status, why>>
  <2>1. TelTyped'
    BY <1>1, <1>8 DEF TelTyped, Sessions
  <2> QED
    BY <1>2, <1>3, <1>4, <1>8, <2>1, SessionGoesOn
<1> QED
  BY <1>1, <1>6, <1>7, <1>8

LEMMA StutterHolds == Holds /\ UNCHANGED vars => Holds'
<1> SUFFICES ASSUME Holds, UNCHANGED vars PROVE Holds'
  OBVIOUS
<1>1. RunTyped' /\ NetTyped' /\ TimeTyped' /\ SockTyped' /\ TelTyped' /\ EndTyped'
  BY PartsKept DEF Holds, vars
<1>2. PlaceTyped' /\ PlacesFit'
  BY DEF vars, run, sock, time, net, Holds, TypeOK, PlaceTyped, PlacesFit, Unconnected, Opens, RawPing,
         Library, TraceOf
<1> QED
  BY <1>1, <1>2, TypePartsNext DEF Holds

LEMMA InitHolds == Init => Holds
<1> SUFFICES ASSUME Init PROVE Holds
  OBVIOUS
<1>1. FreshTel \in Sessions
  BY Times DEF FreshTel, Sessions
<1>2. RunTyped /\ TelTyped
  BY <1>1 DEF Init, RunTyped, TelTyped, Sessions
<1>3. NetTyped
  BY EmptySeq DEF Init, NetTyped
<1>4. TimeTyped
  BY Times DEF Init, TimeTyped
<1>7. SockTyped
  <2>1. addrs \in 0..MaxAddrs /\ socks \in 0..1
    BY Times DEF Init
  <2>2. handle \in BOOLEAN
    BY DEF Init
  <2> QED
    BY <2>1, <2>2 DEF SockTyped
<1>5. PlaceTyped /\ EndTyped
  BY DEF Init, PlaceTyped, EndTyped, Places, Steps, Details
<1>6. PlacesFit
  BY DEF Init, PlacesFit, Unconnected
<1> QED
  BY <1>2, <1>3, <1>4, <1>5, <1>6, <1>7, TypeParts DEF Holds

LEMMA StepHolds == Holds /\ [Next]_vars => Holds'
BY StartHolds, RefuseHolds, PingFallsBackHolds, CommandHolds, ResolveHolds, OpenSocketHolds,
   CreateConnectionHolds, WaitExpiresHolds, PollHolds, ConnectHolds, OutOfBudgetHolds, SendHolds,
   ReceiveHolds, ReceiveDatagramHolds, TelnetReadsHold, TelnetLossHolds, TelnetChunkHolds,
   AgainHolds, StutterHolds
DEF Next, Probe, Telnet

LEMMA AlwaysHolds == Spec => []Holds
BY InitHolds, StepHolds, PTL DEF Spec

(* The budget is never overdrawn, and whatever fails, a probe that has its *)
(* result has closed every socket it made (_open_socket, _close_socket in  *)
(* every finally).                                                         *)
THEOREM SocketsStayClosed == Spec => []SocketsAreClosed
<1>1. Holds => SocketsAreClosed
  BY DEF Holds, PlacesFit, SocketsAreClosed, Opens, RawPing, TypeOK, Places
<1> QED
  BY <1>1, AlwaysHolds, PTL

-----------------------------------------------------------------------------
(* What the probe knows of the peer.                                        *)

LEMMA ReachDone ==
  ASSUME pc' = "done", (status' = "FAIL" <=> ~reached') \/ LostByHttpClient'
  PROVE  ReachFits'
BY DEF ReachFits, OutageMeansUnreached

LEMMA RaiseReach ==
  ASSUME Holds, ReachFits, NEW w, Raise(w), kind = "ident" => w # "bad",
         pc \notin {"idle", "done"}, ~(pc \in {"wait", "op"} /\ want = "connect"), UNCHANGED reached
  PROVE  ReachFits'
<1>1. pc' = "done" /\ status' = Verdict(w)
  BY DEF Raise, Finish
<1>2. Verdict(w) = IF kind \in Streams /\ handle THEN "DEG" ELSE "FAIL"
  BY DEF Verdict
<1>3. reached = (kind \in Streams /\ handle)
  BY DEF Holds, TypeOK, PlacesFit, ReachFits, Places, Opens, RawPing, Streams, Exchanges, Datagrams
<1> QED
  BY <1>1, <1>2, <1>3, ReachDone

LEMMA ConnectedReach ==
  ASSUME Connected
  PROVE  ReachFits'
BY DEF Connected, ReachFits, OutageMeansUnreached

LEMMA ConnectingReach ==
  ASSUME Holds, ReachFits,
         Start \/ Refuse \/ PingFallsBack \/ Command \/ Resolve \/ OpenSocket \/ CreateConnection \/ Again
  PROVE  ReachFits'
<1>1. CASE Start
  BY <1>1 DEF Start, ReachFits, OutageMeansUnreached, net
<1>2. CASE Refuse
  BY <1>2, ReachDone DEF Refuse, Fault, Finish, ReachFits, net
<1>3. CASE PingFallsBack
  <2>1. CASE pc' = "command"
    BY <1>3, <2>1 DEF PingFallsBack, ReachFits, OutageMeansUnreached, net
  <2>2. CASE Raise("unsupported")
    <3>1. pc' = "done" /\ status' = "FAIL" /\ reached' = FALSE
      BY <1>3, <2>2 DEF Raise, Finish, Verdict, PingFallsBack, net, Holds, ReachFits, TypeOK,
         Streams, Exchanges
    <3> QED
      BY <3>1, ReachDone
  <2> QED
    BY <1>3, <2>1, <2>2 DEF PingFallsBack
<1>4. CASE Command
  <2>1. pc' = "done" /\ (status' = "FAIL" <=> ~reached')
    BY <1>4 DEF Command, Finish, Fault, net, ReachFits, Holds, TypeOK
  <2> QED
    BY <2>1, ReachDone
<1>5. CASE Resolve
  <2>1. pc = "resolve" /\ UNCHANGED reached
    BY <1>5 DEF Resolve, net
  <2>2. CASE Raise("dns")
    BY <2>1, <2>2, RaiseReach
  <2>3. CASE pc' = "open" \/ (pc' = "wait" /\ want' = "datagram")
    BY <2>1, <2>3 DEF ReachFits, OutageMeansUnreached, Holds, TypeOK
  <2> QED
    BY <1>5, <2>2, <2>3 DEF Resolve
<1>6. CASE OpenSocket \/ CreateConnection
  <2>1. pc = "open" /\ ~reached /\ kind \in Streams
    BY <1>6 DEF OpenSocket, CreateConnection, ReachFits, Holds, PlacesFit
  <2>2. CASE Raise(why) /\ UNCHANGED net
    <3>1. kind # "ident"
      BY <2>1 DEF Streams, Exchanges
    <3> QED
      BY <2>1, <2>2, <3>1, RaiseReach DEF net
  <2>3. CASE Connected
    BY <2>3, ConnectedReach
  <2>4. CASE UNCHANGED net /\ (pc' = "open" \/ (pc' = "wait" /\ want' = "connect"))
    BY <2>1, <2>4 DEF ReachFits, OutageMeansUnreached, net, Holds, TypeOK
  <2>5. \A w : PassOver(w) => pc' = "open" /\ UNCHANGED net
    BY <2>1 DEF PassOver
  <2> QED
    BY <1>6, <2>2, <2>3, <2>4, <2>5 DEF OpenSocket, CreateConnection
<1>7. CASE Again
  BY <1>7 DEF Again, ReachFits, OutageMeansUnreached
<1> QED
  BY <1>1, <1>2, <1>3, <1>4, <1>5, <1>6, <1>7

LEMMA WaitingReach ==
  ASSUME Holds, ReachFits,
         WaitExpires \/ Poll \/ SetTimeout \/ LibraryCalls \/ Connect \/ OutOfBudget
  PROVE  ReachFits'
<1>1. CASE WaitExpires
  <2>1. CASE want = "connect"
    BY <1>1, <2>1 DEF WaitExpires, DropAddress, ReachFits, OutageMeansUnreached, net
  <2>2. CASE want # "connect"
    BY <1>1, <2>2, RaiseReach DEF WaitExpires, net
  <2> QED
    BY <2>1, <2>2
<1>2. CASE Poll \/ SetTimeout \/ LibraryCalls
  BY <1>2 DEF Poll, SetTimeout, LibraryCalls, ReachFits, OutageMeansUnreached, net
<1>3. CASE Connect
  <2>1. pc = "op" /\ want = "connect"
    BY <1>3 DEF Connect
  <2>2. \/ Connected
        \/ pc' = "wait" /\ UNCHANGED <<want, step, sock, tel, status, why, net>>
        \/ \E e \in Errors : DropAddress(Category(e))
    BY <1>3 DEF Connect
  <2>3. CASE pc' = "wait" /\ UNCHANGED <<want, step, sock, tel, status, why, net>>
    BY <2>1, <2>3 DEF ReachFits, OutageMeansUnreached, net
  <2>4. CASE \E e \in Errors : DropAddress(Category(e))
    BY <2>1, <2>4 DEF DropAddress, ReachFits, OutageMeansUnreached, net
  <2> QED
    BY <2>2, <2>3, <2>4, ConnectedReach
<1>4. CASE OutOfBudget
  BY <1>4, RaiseReach DEF OutOfBudget, net
<1> QED
  BY <1>1, <1>2, <1>3, <1>4

LEMMA JudgeReach ==
  ASSUME Holds, ReachFits, pc = "op", want = "recv", NEW items, Judge(items), UNCHANGED reached
  PROVE  ReachFits'
<1>1. reached /\ kind # "ident"
  BY StepsOfExchanges DEF ReachFits, Exchanges
<1>2. CASE pc' = "wait"
  BY <1>1, <1>2 DEF Judge, ReachFits, OutageMeansUnreached
<1>3. CASE Finish("OK", "ok")
  BY <1>1, <1>3, ReachDone DEF Finish
<1>4. CASE Raise("bad")
  BY <1>1, <1>4, RaiseReach
<1> QED
  BY <1>2, <1>3, <1>4 DEF Judge

LEMMA RaiseReadingReach ==
  ASSUME Holds, ReachFits, pc = "op", want = "recv", NEW w, RaiseReading(w), UNCHANGED <<run, reached>>
  PROVE  ReachFits'
<1>1. kind # "ident"
  BY StepsOfExchanges DEF Exchanges
<1>2. CASE Judge(got)
  BY <1>2, JudgeReach
<1>3. CASE HttpClient /\ w = "reset" /\ Finish("FAIL", w)
  <2>1. LostByHttpClient' /\ pc' = "done"
    BY <1>3 DEF LostByHttpClient, HttpClient, Library, TraceOf, Finish, run
  <2> QED
    BY <2>1, ReachDone
<1>4. CASE Raise(w)
  BY <1>1, <1>4, RaiseReach
<1> QED
  BY <1>2, <1>3, <1>4 DEF RaiseReading

LEMMA ExchangingReach ==
  ASSUME Holds, ReachFits, Send \/ Receive \/ ReceiveDatagram
  PROVE  ReachFits'
<1>1. CASE Send
  <2>1. pc = "op" /\ want = "send" /\ kind # "ident"
    BY <1>1, StepsOfExchanges DEF Send, Exchanges
  <2>2. \/ pc' = "wait" /\ want' \in {"send", "recv"} /\ UNCHANGED reached
        \/ \E e \in Errors : Raise(Category(e)) /\ UNCHANGED reached
    BY <1>1 DEF Send, net
  <2>3. CASE pc' = "wait" /\ want' \in {"send", "recv"} /\ UNCHANGED reached
    BY <2>1, <2>3 DEF ReachFits, OutageMeansUnreached
  <2> QED
    BY <2>1, <2>2, <2>3, RaiseReach
<1>2. CASE Receive
  <2>1. pc = "op" /\ want = "recv" /\ kind # "ident" /\ UNCHANGED run
    BY <1>2, StepsOfExchanges DEF Receive, Exchanges
  <2>2. /\ UNCHANGED reached
        /\ \/ pc' = "wait" /\ UNCHANGED want
           \/ \E items : Judge(items)
           \/ Raise("bad")
           \/ \E w : RaiseReading(w)
    BY <1>2 DEF Receive, net
  <2>3. CASE pc' = "wait" /\ UNCHANGED want
    BY <2>1, <2>2, <2>3 DEF ReachFits, OutageMeansUnreached
  <2> QED
    BY <2>1, <2>2, <2>3, RaiseReach, JudgeReach, RaiseReadingReach
<1>3. CASE ReceiveDatagram
  <2>1. pc = "op" /\ want = "datagram" /\ ~reached /\ UNCHANGED want
    BY <1>3 DEF ReceiveDatagram, ReachFits
  <2>2. CASE IdentJudges(Head(wire)) /\ kind = "ident"
    <3>1. pc' = "done" /\ reached' = TRUE /\ status' \in {"OK", "DEG"}
      BY <2>2 DEF IdentJudges, Finish, Verdict
    <3> QED
      BY <3>1, ReachDone
  <2>3. CASE PingJudges(Head(wire))
    <3>1. \/ pc' = "done" /\ reached' = TRUE /\ status' = "OK"
          \/ pc' = "wait" /\ UNCHANGED reached
      BY <2>3 DEF PingJudges, Finish
    <3> QED
      BY <2>1, <3>1, ReachDone DEF ReachFits, OutageMeansUnreached
  <2>4. CASE pc' = "wait" /\ UNCHANGED net
    BY <2>1, <2>4 DEF ReachFits, OutageMeansUnreached, net
  <2>5. ASSUME NEW e \in Errors, Raise(Category(e)), UNCHANGED reached PROVE ReachFits'
    BY <2>1, <2>5, RaiseReach DEF Category
  <2> QED
    BY <1>3, <2>2, <2>3, <2>4, <2>5 DEF ReceiveDatagram, Errors
<1> QED
  BY <1>1, <1>2, <1>3

LEMMA TelnetReach ==
  ASSUME Holds, ReachFits, Telnet
  PROVE  ReachFits'
<1>1. pc = "telnet" /\ reached /\ UNCHANGED reached
  BY DEF Telnet, TelnetStops, TelnetOutOfBudget, TelnetQuiet, TelnetCloses, TelnetChunk,
     TelnetReplyFails, ReadsChunk, ReachFits, net
<1>2. kind # "ident"
  BY <1>1 DEF Holds, PlacesFit
<1>3. \/ \E t, w : EndSession(t, w)
      \/ Raise("budget")
      \/ UNCHANGED pc
  BY DEF Telnet, TelnetStops, TelnetOutOfBudget, TelnetQuiet, TelnetCloses, TelnetChunk,
     TelnetReplyFails
<1>4. CASE \E t, w : EndSession(t, w)
  <2>1. pc' = "done" /\ status' # "FAIL"
    BY <1>4 DEF EndSession, Finish, SessionStatus
  <2> QED
    BY <1>1, <2>1, ReachDone
<1>5. CASE UNCHANGED pc
  BY <1>1, <1>5 DEF ReachFits, OutageMeansUnreached
<1> QED
  BY <1>1, <1>2, <1>3, <1>4, <1>5, RaiseReach

LEMMA StutterReach == ReachFits /\ UNCHANGED vars => ReachFits'
BY DEF ReachFits, vars, run, net, OutageMeansUnreached, LostByHttpClient, HttpClient, Library, TraceOf

LEMMA StepReach == Holds /\ ReachFits /\ [Next]_vars => ReachFits'
BY ConnectingReach, WaitingReach, ExchangingReach, TelnetReach, StutterReach
DEF Next, Probe

(* A peer that accepted the connection or answered is never reported as an *)
(* outage, one that did neither never as anything else, http.client's loss *)
(* of a connection aside (the except clauses of the runners).              *)
THEOREM OutagesAreUnreached == Spec => []OutageMeansUnreached
<1>1. Init => ReachFits
  BY DEF Init, ReachFits, OutageMeansUnreached
<1>2. Spec => []ReachFits
  BY <1>1, AlwaysHolds, StepReach, PTL DEF Spec
<1>3. ReachFits => OutageMeansUnreached
  BY DEF ReachFits
<1> QED
  BY <1>2, <1>3, PTL

-----------------------------------------------------------------------------
(* How long the watchdog waits.                                             *)

Gentle == Greater(DnsT, 2 * SliceT)
FeedBound == IF step = "uping" THEN DnsT + UpingT ELSE Gentle
Spent == IF kind = "telnet" THEN (MaxOps - budget) * IdleT ELSE 0

LEMMA Feeding ==
  Gentle \in Nat /\ DnsT <= Gentle /\ 2 * SliceT <= Gentle /\ UpingT \in Nat
<1>1. Gentle \in Nat /\ DnsT <= Gentle /\ 2 * SliceT <= Gentle
  BY Times DEF Gentle, Greater
<1>2. UpingT \in Nat
  BY Times DEF UpingT, PacketT, Least
<1> QED
  BY <1>1, <1>2

Fed == board = "device" => unfed <= FeedBound + Spent

LEMMA FedIsFed == WatchdogIsFed <=> Fed
BY DEF WatchdogIsFed, Fed, FeedBound, Spent, Gentle

LEMMA FedIsFedNext == WatchdogIsFed' <=> Fed'
BY FedIsFed, PTL

LEMMA SpentIsNat == \A b \in 0..MaxOps : (MaxOps - b) * IdleT \in Nat
<1>1. \A x, y \in Nat : x * y \in Nat
  OBVIOUS
<1> QED
  BY <1>1, Times

(* A step after which the watchdog waits no longer than one lookup or two *)
(* slices.                                                                 *)
LEMMA FedLater ==
  ASSUME Holds',
         board' = "device" => /\ pc' \notin {"idle", "resolve", "command"} /\ step' # "uping"
                              /\ unfed' <= Gentle /\ (pc' = "op" => unfed' <= SliceT)
  PROVE  FedFits'
<1>1. Spent' \in Nat
  BY SpentIsNat DEF Spent, Holds, TypeOK
<1>2. board' = "device" => FeedBound' = Gentle
  BY DEF FeedBound
<1>3. WatchdogIsFed' <=> (board' = "device" => unfed' <= FeedBound' + Spent')
  BY FedIsFedNext DEF Fed
<1>4. unfed' \in Nat
  BY DEF Holds, TypeOK
<1>5. WatchdogIsFed'
  BY <1>1, <1>2, <1>3, <1>4, Feeding
<1> QED
  BY <1>5 DEF FedFits, Gentle

LEMMA OnDevice == board = "device" => ~Library /\ (now \in Nat => BlockT \in 0..SliceT)
BY Times DEF Library, BlockT, PollSlice, Left, Least

LEMMA FinishDone == \A st, w : Finish(st, w) => pc' = "done"
BY DEF Finish

LEMMA RaiseDone == \A w : Raise(w) => pc' = "done"
BY DEF Raise, Finish

LEMMA ConnectedPlace == Connected => pc' \in {"wait", "telnet"} /\ step' # "uping"
BY DEF Connected

LEMMA JudgePlace ==
  \A items : Judge(items) /\ step # "uping" => pc' \in {"wait", "done"} /\ step' # "uping"
<1> SUFFICES ASSUME NEW items, Judge(items), step # "uping"
             PROVE  pc' \in {"wait", "done"} /\ step' # "uping"
  OBVIOUS
<1> DEFINE m == {x \in Moves : x[1] = step /\ x[2] = CodeOf(items)}
<1>1. CASE m # {}
  <2>1. pc' = "wait" /\ \E x \in m : step' = x[3]
    BY <1>1 DEF Judge
  <2>2. \A x \in m : x[3] \in DmaSteps \cup FtpSteps
    BY MovesStay
  <2> QED
    BY <2>1, <2>2 DEF DmaSteps, FtpSteps
<1>2. CASE m = {}
  BY <1>2, FinishDone, RaiseDone DEF Judge
<1> QED
  BY <1>1, <1>2

LEMMA ConnectingFed ==
  ASSUME Holds, Holds', FedFits,
         Start \/ Refuse \/ PingFallsBack \/ Command \/ Resolve \/ OpenSocket \/ CreateConnection \/ Again
  PROVE  FedFits'
<1>0. /\ board = "device" /\ step = "uping" => pc \in {"command", "done"} /\ kind = "ping"
      /\ board' = board
  BY DEF FedFits, Start, Refuse, PingFallsBack, Command, Resolve, OpenSocket, CreateConnection,
         Again, run
<1>a. \A x \in Nat : 0 <= x
  OBVIOUS
<1>1. CASE Start
  <2>1. board = "device" => unfed' = 0 /\ pc' = "resolve" /\ step' = step /\ step # "uping"
    BY <1>0, <1>1 DEF Start, time, FedFits
  <2>2. Spent' \in Nat /\ (WatchdogIsFed' <=> (board' = "device" => unfed' <= FeedBound' + Spent'))
    BY SpentIsNat, FedIsFedNext DEF Fed, Spent, Holds, TypeOK
  <2>3. board = "device" => FeedBound' = Gentle
    BY <2>1 DEF FeedBound
  <2>4. WatchdogIsFed'
    BY <1>0, <2>1, <2>2, <2>3, Feeding
  <2> QED
    BY <1>0, <2>1, <2>4 DEF FedFits
<1>2. CASE Refuse
  <2>1. board = "device" => pc' = "done" /\ unfed' = 0 /\ step' # "uping"
    BY <1>0, <1>2, FinishDone DEF Refuse, Fault, time, FedFits
  <2> QED
    BY <1>0, <2>1, Feeding, FedLater
<1>3. CASE PingFallsBack
  <2>0. pc = "idle" /\ UNCHANGED <<kind, unfed>> /\ kind = "ping" /\ (board = "device" => unfed = 0)
    BY <1>3 DEF PingFallsBack, time, run, FedFits
  <2>1. CASE Raise("unsupported") /\ UNCHANGED step
    <3>1. board = "device" => pc' = "done" /\ unfed' = 0 /\ step' # "uping"
      BY <1>0, <2>0, <2>1, RaiseDone
    <3> QED
      BY <1>0, <3>1, Feeding, FedLater
  <2>2. CASE pc' = "command" /\ step' = (IF board = "host" THEN "command" ELSE "uping")
    <3>1. WatchdogIsFed' <=> (board' = "device" => unfed' <= FeedBound' + Spent')
      BY FedIsFedNext DEF Fed
    <3>2. board = "device" => FeedBound' = DnsT + UpingT /\ Spent' = 0
      BY <1>0, <2>0, <2>2 DEF FeedBound, Spent, UpingT, PacketT
    <3>3. WatchdogIsFed'
      BY <1>0, <2>0, <3>1, <3>2, Feeding, Times
    <3> QED
      BY <1>0, <2>0, <2>2, <3>3 DEF FedFits
  <2> QED
    BY <1>3, <2>1, <2>2 DEF PingFallsBack
<1>4. CASE Command
  <2>1. /\ pc = "command" /\ pc' = "done" /\ UNCHANGED <<kind, step>> /\ kind = "ping"
        /\ board = "device" => step = "uping" /\ unfed = 0
    BY <1>4, FinishDone DEF Command, run, Holds, PlacesFit, FedFits, Fault
  <2>2. board = "device" => \E d \in 0..(DnsT + UpingT) : unfed' = d
    BY <1>4, <2>1, Times, Feeding DEF Command, CommandT, Takes
  <2>3. WatchdogIsFed' <=> (board' = "device" => unfed' <= FeedBound' + Spent')
    BY FedIsFedNext DEF Fed
  <2>4. board = "device" => FeedBound' = DnsT + UpingT /\ Spent' = 0
    BY <1>0, <2>1 DEF FeedBound, Spent, UpingT, PacketT
  <2>5. WatchdogIsFed'
    BY <1>0, <2>2, <2>3, <2>4, Feeding, Times
  <2> QED
    BY <1>0, <2>1, <2>5 DEF FedFits
<1>5. CASE Resolve
  <2>1. pc = "resolve" /\ (board = "device" => unfed = 0)
    BY <1>5 DEF Resolve, FedFits
  <2>2. board = "device" => unfed' <= DnsT
    BY <1>5, <2>1, Times DEF Resolve
  <2>3. pc' \in {"open", "wait", "done"} /\ (step' = step \/ step' = kind)
    BY <1>5, RaiseDone DEF Resolve
  <2>4. kind # "uping" /\ unfed' \in Nat
    BY DEF Holds, TypeOK, Streams, Exchanges, Datagrams
  <2> QED
    BY <1>0, <2>1, <2>2, <2>3, <2>4, Feeding, FedLater, Times
<1>6. CASE OpenSocket
  <2>1. pc = "open" /\ UNCHANGED unfed /\ (board = "device" => unfed <= Gentle)
    BY <1>6 DEF OpenSocket, time, FedFits, Gentle
  <2>2. \/ Raise(why) /\ UNCHANGED step
        \/ Connected
        \/ pc' = "wait" /\ UNCHANGED step
        \/ \E w : PassOver(w)
    BY <1>6 DEF OpenSocket
  <2>3. pc' \in {"open", "wait", "telnet", "done"} /\ (board = "device" => step' # "uping")
    BY <1>0, <2>1, <2>2, RaiseDone, ConnectedPlace DEF PassOver
  <2> QED
    BY <1>0, <2>1, <2>3, FedLater
<1>7. CASE CreateConnection
  BY <1>0, <1>7, OnDevice, FedLater DEF CreateConnection
<1>8. CASE Again
  <2>1. unfed' = 0 /\ pc' = "idle" /\ step' = "none"
    BY <1>8 DEF Again
  <2>2. Spent' \in Nat /\ (WatchdogIsFed' <=> (board' = "device" => unfed' <= FeedBound' + Spent'))
    BY SpentIsNat, FedIsFedNext DEF Fed, Spent, Holds, TypeOK
  <2>3. FeedBound' = Gentle
    BY <2>1 DEF FeedBound
  <2>7. Spent' \in Nat /\ FeedBound' \in Nat
    BY <2>2, <2>3, Feeding
  <2>8. \A x, y \in Nat : 0 <= x + y
    OBVIOUS
  <2>4. 0 <= FeedBound' + Spent'
    BY ONLY <2>7, <2>8
  <2>5. unfed' <= FeedBound' + Spent'
    BY <2>1, <2>4
  <2>6. WatchdogIsFed'
    BY <2>2, <2>5
  <2> QED
    BY <2>1, <2>6 DEF FedFits
<1> QED
  BY <1>1, <1>2, <1>3, <1>4, <1>5, <1>6, <1>7, <1>8

(* An operation blocks for a slice at most. *)
LEMMA OperationFed ==
  ASSUME Holds, FedFits, pc = "op", board = "device", NEW d \in 0..BlockT, Takes(d)
  PROVE  unfed' <= Gentle /\ step # "uping"
<1>1. unfed \in Nat /\ unfed <= SliceT /\ d \in 0..SliceT
  BY OnDevice, Times DEF Holds, TypeOK, FedFits
<1>2. unfed' = unfed + d
  BY DEF Takes
<1>3. \A x, y \in Nat, s, g \in Nat : x <= s /\ y <= s /\ 2 * s <= g => x + y <= g
  OBVIOUS
<1>4. unfed' <= Gentle
  BY <1>1, <1>2, <1>3, Feeding, Times
<1> QED
  BY <1>4 DEF FedFits

LEMMA WaitingFed ==
  ASSUME Holds, Holds', FedFits,
         WaitExpires \/ Poll \/ SetTimeout \/ LibraryCalls \/ Connect \/ OutOfBudget
  PROVE  FedFits'
<1>0. UNCHANGED board /\ pc \in {"wait", "op"} /\ (board = "device" => step # "uping")
  BY DEF FedFits, WaitExpires, Poll, SetTimeout, LibraryCalls, Connect, OutOfBudget, run
<1>1. CASE WaitExpires
  <2>1. UNCHANGED unfed /\ pc' \in {"open", "done"} /\ UNCHANGED step
    BY <1>1, RaiseDone DEF WaitExpires, DropAddress, time
  <2>2. board = "device" => unfed <= Gentle
    BY <1>1 DEF WaitExpires, FedFits, Gentle
  <2> QED
    BY <1>0, <2>1, <2>2, FedLater
<1>2. CASE Poll
  <2>1. \E d \in 0..PollSlice : unfed' = d
    BY <1>2 DEF Poll, Feeds
  <2>2. PollSlice \in 0..SliceT
    BY Times DEF PollSlice, Left, Least, Holds, TypeOK
  <2>3. unfed' <= SliceT /\ unfed' <= Gentle
    BY <2>1, <2>2, Times, Feeding
  <2>4. pc' \in {"wait", "op"} /\ UNCHANGED step
    BY <1>2 DEF Poll
  <2> QED
    BY <1>0, <2>3, <2>4, FedLater
<1>3. CASE SetTimeout
  <2>1. unfed' = 0 /\ pc' = "op" /\ UNCHANGED step
    BY <1>3 DEF SetTimeout, Feeds
  <2> QED
    BY <1>0, <2>1, Feeding, Times, FedLater
<1>4. CASE LibraryCalls
  BY <1>0, <1>4, OnDevice, FedLater DEF LibraryCalls
<1>5. CASE Connect
  <2>1. board = "device" => unfed' <= Gentle
    BY <1>5, OperationFed DEF Connect
  <2>2. \/ Connected
        \/ pc' = "wait" /\ UNCHANGED <<want, step, sock, tel, status, why, net>>
        \/ \E e \in Errors : DropAddress(Category(e))
    BY <1>5 DEF Connect
  <2>3. pc' \in {"open", "wait", "telnet"} /\ (board = "device" => step' # "uping")
    BY <1>0, <2>2, ConnectedPlace DEF DropAddress
  <2> QED
    BY <1>0, <2>1, <2>3, FedLater
<1>6. CASE OutOfBudget
  <2>1. UNCHANGED unfed /\ pc' = "done" /\ UNCHANGED step
    BY <1>6, RaiseDone DEF OutOfBudget, time
  <2>2. board = "device" => unfed <= Gentle
    BY <1>6, Feeding, Times DEF OutOfBudget, FedFits, Holds, TypeOK
  <2> QED
    BY <1>0, <2>1, <2>2, FedLater
<1> QED
  BY <1>1, <1>2, <1>3, <1>4, <1>5, <1>6

LEMMA ExchangingFed ==
  ASSUME Holds, Holds', FedFits, Send \/ Receive \/ ReceiveDatagram
  PROVE  FedFits'
<1>0. UNCHANGED board /\ pc = "op" /\ (board = "device" => step # "uping")
  BY DEF FedFits, Send, Receive, ReceiveDatagram, run
<1>1. board = "device" => unfed' <= Gentle
  <2>1. now \in Nat /\ (board = "device" => BlockT \in 0..SliceT)
    BY OnDevice DEF Holds, TypeOK
  <2>2. board = "device" => 0 \in 0..BlockT /\ BlockT \in 0..BlockT
    BY <2>1, Times
  <2>3. board = "device" => \E d \in 0..BlockT : Takes(d)
    BY <2>2 DEF Send, Receive, ReceiveDatagram
  <2> QED
    BY <1>0, <2>3, OperationFed
<1>2. pc' \in {"wait", "done"} /\ (board = "device" => step' # "uping")
  <2>1. CASE Send
    BY <1>0, <2>1, RaiseDone DEF Send
  <2>2. CASE ReceiveDatagram
    BY <1>0, <2>2, FinishDone, RaiseDone DEF ReceiveDatagram, IdentJudges, PingJudges
  <2>3. CASE Receive
    <3>1. \/ pc' = "wait" /\ UNCHANGED step
          \/ \E items : Judge(items)
          \/ Raise("bad") /\ UNCHANGED step
          \/ \E w : RaiseReading(w)
      BY <2>3 DEF Receive
    <3>2. \A w : RaiseReading(w) => \/ Judge(got)
                                    \/ pc' = "done" /\ UNCHANGED step
      BY RaiseDone, FinishDone DEF RaiseReading
    <3>3. (\E items : Judge(items)) => pc' \in {"wait", "done"} /\ (step # "uping" => step' # "uping")
      BY JudgePlace, FinishDone, RaiseDone DEF Judge
    <3> QED
      BY <1>0, <3>1, <3>2, <3>3, RaiseDone
  <2> QED
    BY <2>1, <2>2, <2>3
<1> QED
  BY <1>0, <1>1, <1>2, FedLater

(* What a read of the session takes is paid by the operations it costs. *)
LEMMA PaidFor ==
  \A b \in 0..MaxOps, k, d, u, g \in Nat :
    k <= b /\ d <= IdleT * k /\ u <= g + (MaxOps - b) * IdleT
      => u + d <= g + (MaxOps - (b - k)) * IdleT
<1> TAKE b \in 0..MaxOps, k, d, u, g \in Nat
<1> HAVE k <= b /\ d <= IdleT * k /\ u <= g + (MaxOps - b) * IdleT
<1>1. PICK c \in Nat : c = MaxOps - b
  BY Times
<1>2. MaxOps - (b - k) = c + k
  BY <1>1, Times
<1>3. \A i, x, y \in Nat : (x + y) * i = x * i + i * y /\ x * i \in Nat /\ i * y \in Nat
  OBVIOUS
<1>4. (c + k) * IdleT = c * IdleT + IdleT * k /\ c * IdleT \in Nat /\ IdleT * k \in Nat
  BY <1>1, <1>3, Times
<1>5. u <= g + c * IdleT
  BY <1>1
<1>6. \A p, q \in Nat : d <= q /\ u <= g + p => u + d <= g + (p + q)
  OBVIOUS
<1>7. u + d <= g + (c * IdleT + IdleT * k)
  BY <1>4, <1>5, <1>6
<1> QED
  BY <1>2, <1>4, <1>7

LEMMA TelnetPays ==
  ASSUME Holds, Telnet
  PROVE  \E k, d \in Nat : /\ k <= budget /\ d <= IdleT * k /\ budget' = budget - k
                           /\ unfed' = unfed + d
<1> USE Times, ReadTimes
<1>0. kind = "telnet" /\ budget \in 0..MaxOps
  BY DEF Telnet, TelnetStops, TelnetOutOfBudget, TelnetQuiet, TelnetCloses, TelnetChunk,
     TelnetReplyFails, ReadsChunk, Holds, TypeOK, PlacesFit
<1>1. \A i \in Nat : 0 <= i * 0 /\ i * 1 = i /\ i <= i * 2
  OBVIOUS
<1>2. CASE TelnetStops \/ TelnetOutOfBudget
  <2>1. budget' = budget - 0 /\ unfed' = unfed + 0
    BY <1>0, <1>2 DEF TelnetStops, TelnetOutOfBudget, time, Holds, TypeOK
  <2>2. 0 <= IdleT * 0 /\ 0 <= budget
    BY <1>0, <1>1
  <2> QED
    BY <2>1, <2>2
<1>3. CASE TelnetQuiet \/ TelnetCloses
  <2>1. budget' = budget - 1 /\ budget > 0
    BY <1>0, <1>3 DEF TelnetQuiet, TelnetCloses, ReadsChunk, Charge, Budgeted
  <2>2. \E d \in 0..ReadT : unfed' = unfed + d
    BY <1>3 DEF TelnetQuiet, TelnetCloses, Takes
  <2>3. PICK d \in Nat : d <= IdleT /\ unfed' = unfed + d
    BY <2>2
  <2>4. d <= IdleT * 1 /\ 1 <= budget
    BY <1>0, <1>1, <2>1, <2>3
  <2> QED
    BY <2>1, <2>3, <2>4
<1>4. CASE TelnetReplyFails
  <2>1. budget' = budget - 2 /\ budget > 1
    BY <1>4 DEF TelnetReplyFails
  <2>2. \E d \in 0..ReadT : unfed' = unfed + d
    BY <1>4 DEF TelnetReplyFails, Takes
  <2>3. PICK d \in Nat : d <= IdleT /\ unfed' = unfed + d
    BY <2>2
  <2>4. d <= IdleT * 2
    BY <1>1, <2>3
  <2> QED
    BY <1>0, <2>1, <2>3, <2>4
<1>5. CASE TelnetChunk
  <2>1. budget \in Nat \ {0}
    BY <1>0, <1>5 DEF TelnetChunk
  <2>2. PICK n \in 0..MaxIac : \E d \in 0..ChunkT(n) :
          /\ unfed' = unfed + d
          /\ \/ budget - 1 < n /\ budget' = 0
             \/ budget - 1 >= n /\ budget' = budget - 1 - n
    BY <1>5, ChunkFits DEF Takes
  <2>3. PICK d \in 0..ChunkT(n) : unfed' = unfed + d
    BY <2>2
  <2> DEFINE k == 1 + Least(n, budget - 1)
  <2>4. k \in Nat /\ k <= budget /\ budget' = budget - k
    BY <2>1, <2>2 DEF Least
  <2>5. \A r, i, x \in Nat : r <= i => r * x <= i * x /\ r * x \in Nat /\ i * x \in Nat
    OBVIOUS
  <2>6. ChunkT(n) = ReadT * k
    BY DEF ChunkT
  <2> HIDE DEF k
  <2>7. d \in Nat /\ d <= IdleT * k
    BY <2>3, <2>4, <2>5, <2>6
  <2> QED
    BY <2>3, <2>4, <2>7
<1> QED
  BY <1>2, <1>3, <1>4, <1>5 DEF Telnet

LEMMA TelnetFed ==
  ASSUME Holds, Holds', FedFits, Telnet
  PROVE  FedFits'
<1>1. /\ pc = "telnet" /\ kind = "telnet" /\ UNCHANGED <<board, kind, step>>
      /\ pc' \in {"telnet", "done"} /\ step = "session"
  BY RaiseDone, FinishDone
  DEF Telnet, TelnetStops, TelnetOutOfBudget, TelnetQuiet, TelnetCloses, TelnetChunk,
     TelnetReplyFails, ReadsChunk, Holds, PlacesFit, run, EndSession
<1>2. PICK k, d \in Nat : k <= budget /\ d <= IdleT * k /\ budget' = budget - k /\ unfed' = unfed + d
  BY TelnetPays
<1>3. board = "device" => unfed <= Gentle + (MaxOps - budget) * IdleT
  BY <1>1, FedIsFed DEF FedFits, Fed, FeedBound, Spent
<1>4. board = "device" => unfed' <= Gentle + (MaxOps - (budget - k)) * IdleT
  BY <1>2, <1>3, PaidFor, Feeding DEF Holds, TypeOK
<1>5. FeedBound' = Gentle /\ Spent' = (MaxOps - (budget - k)) * IdleT
  BY <1>1, <1>2 DEF FeedBound, Spent
<1>6. WatchdogIsFed'
  BY <1>1, <1>4, <1>5, FedIsFedNext DEF Fed
<1> QED
  BY <1>1, <1>6 DEF FedFits

LEMMA StutterFed == FedFits /\ UNCHANGED vars => FedFits'
<1> SUFFICES ASSUME FedFits, UNCHANGED vars PROVE FedFits'
  OBVIOUS
<1>1. UNCHANGED <<pc, board, unfed, step, kind, budget>>
  BY DEF vars, run, time
<1>2. FeedBound' = FeedBound /\ Spent' = Spent
  BY <1>1 DEF FeedBound, Spent, UpingT, PacketT
<1>3. Fed' <=> Fed
  BY <1>1, <1>2 DEF Fed
<1> QED
  BY <1>1, <1>3, FedIsFed, FedIsFedNext DEF FedFits

LEMMA StepFed == Holds /\ Holds' /\ FedFits /\ [Next]_vars => FedFits'
BY ConnectingFed, WaitingFed, ExchangingFed, TelnetFed, StutterFed DEF Next, Probe

(* While a probe waits on a device, the watchdog is fed at least every two *)
(* slices; a name lookup, uping and the reads of a session, which cost     *)
(* budget, are all that goes on without (_socket_wait, _recv_datagram).    *)
THEOREM WatchdogStaysFed == Spec => []WatchdogIsFed
<1>1. Init => FedFits
  <2> SUFFICES ASSUME Init PROVE FedFits
    OBVIOUS
  <2>1. unfed = 0 /\ step = "none" /\ pc = "idle" /\ budget = MaxOps
    BY DEF Init
  <2>2. Spent \in Nat /\ FeedBound \in Nat
    BY <2>1, SpentIsNat, Feeding, Times DEF Spent, FeedBound
  <2>3. \A x, y \in Nat : 0 <= x + y
    OBVIOUS
  <2>4. 0 <= FeedBound + Spent
    BY ONLY <2>2, <2>3
  <2>5. WatchdogIsFed
    BY <2>1, <2>4, FedIsFed DEF Fed
  <2> QED
    BY <2>1, <2>5 DEF FedFits
<1>2. Spec => []FedFits
  BY <1>1, AlwaysHolds, StepFed, PTL DEF Spec
<1>3. FedFits => WatchdogIsFed
  BY DEF FedFits
<1> QED
  BY <1>2, <1>3, PTL

-----------------------------------------------------------------------------
(* How long a probe takes.                                                  *)

Late == Greater(TimeoutT, DnsT)
InTime == Budgeted => now <= Greater(TimeoutT, Opening) + Overrun
TimedOut == why = "timeout" /\ hasPoll => now >= TimeoutT

LEMMA Lateness == Late \in Nat /\ TimeoutT <= Late /\ DnsT <= Late
BY Times DEF Late, Greater

LEMMA InTimeNow ==
  TypeOK /\ now <= Late + (IF kind \in Datagrams THEN SliceT ELSE 0) => InTime
<1> SUFFICES ASSUME TypeOK, now <= Late + (IF kind \in Datagrams THEN SliceT ELSE 0)
             PROVE  now <= Greater(TimeoutT, Opening) + Overrun
  BY DEF InTime
<1>1. Opening \in Nat /\ DnsT <= Opening
  <2>1. \A x, y \in Nat : x * y \in Nat
    OBVIOUS
  <2>2. MaxAddrs * TimeoutT \in Nat
    BY <2>1, Times
  <2> QED
    BY <2>2, Feeding, Times DEF Opening
<1>2. Overrun \in Nat /\ (kind \in Datagrams => SliceT <= Overrun)
  <2>1. \A x, y \in Nat : x * (1 + y) \in Nat
    OBVIOUS
  <2>2. IdleT * (1 + MaxIac) \in Nat
    BY <2>1, Times
  <2> QED
    BY <2>2, Times DEF Overrun, Datagrams
<1>3. Greater(TimeoutT, Opening) \in Nat /\ Late <= Greater(TimeoutT, Opening)
  BY <1>1, Times DEF Greater, Late
<1> QED
  BY <1>2, <1>3, Lateness, Times DEF TypeOK

LEMMA InTimeNext ==
  TypeOK' /\ now' <= Late + (IF kind' \in Datagrams THEN SliceT ELSE 0) => InTime'
<1>1. (TypeOK /\ now <= Late + (IF kind \in Datagrams THEN SliceT ELSE 0) => InTime)'
  BY InTimeNow, PTL
<1> QED
  BY <1>1 DEF Datagrams, Late, Greater

LEMMA TimeParts ==
  TimeFits <=>
    /\ pc \in {"idle", "resolve", "command"} => now = 0
    /\ ~Library /\ pc = "open" => now <= Late
    /\ ~Library /\ pc = "wait" => now <= Late + (IF want = "datagram" THEN SliceT ELSE 0)
    /\ ~Library /\ pc = "op" => now <= TimeoutT
    /\ Library /\ pc = "open" => now <= DnsT + (MaxAddrs - addrs) * TimeoutT
    /\ TimedOut /\ InTime
BY DEF TimeFits, DeadlineIsKept, TimedOut, InTime, Late

LEMMA TimePartsNext ==
  TimeFits' <=>
    /\ pc' \in {"idle", "resolve", "command"} => now' = 0
    /\ ~Library' /\ pc' = "open" => now' <= Late
    /\ ~Library' /\ pc' = "wait" => now' <= Late + (IF want' = "datagram" THEN SliceT ELSE 0)
    /\ ~Library' /\ pc' = "op" => now' <= TimeoutT
    /\ Library' /\ pc' = "open" => now' <= DnsT + (MaxAddrs - addrs') * TimeoutT
    /\ TimedOut' /\ InTime'
BY DEF TimeFits, DeadlineIsKept, TimedOut, InTime, Late

(* On the socket path a step that stays within the deadline, or for a      *)
(* datagram within a slice of it.                                          *)
LEMMA SocketInTime ==
  ASSUME Holds', ~Library', pc' \notin {"idle", "resolve", "command"}, TimedOut',
         \/ now' <= Late
         \/ kind' \in Datagrams /\ want' = "datagram" /\ pc' # "open" /\ now' <= Late + SliceT,
         pc' = "op" => now' <= TimeoutT
  PROVE  TimeFits'
<1>1. now' \in Nat /\ TypeOK'
  BY DEF Holds, TypeOK
<1>2. now' <= Late + (IF kind' \in Datagrams THEN SliceT ELSE 0)
  BY <1>1, Lateness, Times
<1>3. InTime'
  BY <1>1, <1>2, InTimeNext
<1>4. now' <= Late + (IF want' = "datagram" THEN SliceT ELSE 0)
  BY <1>1, Lateness, Times
<1> QED
  BY <1>3, <1>4, TimePartsNext

(* A timeout is reported only when the time is over.                        *)
LEMMA TimesOutLater ==
  ASSUME Holds, TimedOut, Holds', UNCHANGED hasPoll, now' >= now,
         \/ why' \in {why, "none"}
         \/ why' # "timeout"
         \/ now' >= TimeoutT
         \/ ~hasPoll
  PROVE  TimedOut'
BY Times DEF TimedOut, Holds, TypeOK

LEMMA SameLibrary == UNCHANGED run => (Library' <=> Library) /\ UNCHANGED <<kind, hasPoll>>
BY DEF run, Library, TraceOf

LEMMA TimeGrows ==
  ASSUME Holds, NEW d \in Nat, Takes(d) \/ Feeds(d)
  PROVE  now' = now + d /\ now' >= now
BY DEF Holds, TypeOK, Takes, Feeds

LEMMA RaiseWhy == \A w : Raise(w) => why' = w
BY DEF Raise, Finish

LEMMA FinishWhy == \A st, w : Finish(st, w) => why' = w
BY DEF Finish

LEMMA OperationInTime ==
  ASSUME Holds, TimeFits, pc = "op", ~Library, want # "datagram", NEW d \in 0..BlockT, Takes(d)
  PROVE  now' <= TimeoutT /\ now' <= Late /\ now' >= now /\ (hasPoll => d = 0)
<1>1. now \in Nat /\ now <= TimeoutT
  BY DEF TimeFits, Holds, TypeOK
<1>2. BlockT \in Nat /\ now + BlockT <= TimeoutT /\ (hasPoll => BlockT = 0)
  BY <1>1, Times DEF BlockT, PollSlice, Left, Least
<1>3. now' = now + d
  BY DEF Takes
<1>4. d \in Nat /\ d <= BlockT
  BY <1>2
<1>5. now' <= TimeoutT /\ now' >= now /\ (hasPoll => d = 0)
  BY <1>1, <1>2, <1>3, <1>4, Times
<1> QED
  BY <1>1, <1>3, <1>4, <1>5, Lateness, Times

LEMMA LibraryInTime ==
  ASSUME Library', kind' \in {"http", "ftp"}, pc' \in {"wait", "op", "done"}, TimedOut'
  PROVE  TimeFits'
BY TimePartsNext DEF InTime, Budgeted

LEMMA LibraryExchanges ==
  ASSUME Holds, pc \in {"wait", "op"}, Library
  PROVE  kind \in {"http", "ftp"} /\ want \in {"send", "recv"}
BY DEF Holds, TypeOK, PlacesFit, Library, Datagrams

LEMMA CommandInTime ==
  ASSUME Holds, Holds', TimeFits, Command
  PROVE  TimeFits'
<1>1. /\ pc = "command" /\ pc' = "done" /\ UNCHANGED <<run, kind, step, hasPoll>> /\ kind = "ping"
      /\ step \in {"command", "uping"} /\ now = 0
  BY FinishDone DEF Command, run, Holds, PlacesFit, TimeFits, Fault
<1>2. PICK d \in 0..CommandT : now' = d
  BY <1>1 DEF Command, Takes
<1>3. CommandT \in Nat /\ (step = "uping" => CommandT = DnsT + UpingT)
      /\ (step = "command" => CommandT = TimeoutT + SliceT)
  BY <1>1, Times, Feeding DEF CommandT
<1>4. Opening' = IF step = "uping" THEN DnsT + UpingT ELSE DnsT
  BY <1>1, SameLibrary DEF Opening, Library, UpingT, PacketT
<1>5. Overrun' = SliceT
  BY <1>1 DEF Overrun, Datagrams
<1>6. now' <= Greater(TimeoutT, Opening') + Overrun'
  BY <1>1, <1>2, <1>3, <1>4, <1>5, Times, Feeding DEF Greater
<1>7. why' # "timeout"
  BY FinishWhy DEF Command, Fault
<1>8. InTime'
  BY <1>6 DEF InTime, Greater
<1>9. TimedOut'
  BY <1>7 DEF TimedOut
<1> QED
  BY <1>1, <1>8, <1>9, TimePartsNext

LEMMA ResolveInTime ==
  ASSUME Holds, Holds', TimeFits, Resolve
  PROVE  TimeFits'
<1>1. /\ now = 0 /\ UNCHANGED run /\ \E d \in 0..DnsT : now' = now + d
      /\ pc' \in {"open", "wait", "done"} /\ why' \in {why, "dns"}
  BY RaiseDone, RaiseWhy DEF Resolve, TimeFits
<1>2. now' \in Nat /\ now' <= DnsT
  BY <1>1, Times
<1>3. TimedOut'
  BY <1>1, <1>2, TimesOutLater, SameLibrary, TimeParts
<1>4. now' <= Late /\ now' <= Late + SliceT
  BY <1>2, Lateness, Times
<1>5. InTime'
  BY <1>2, <1>4, InTimeNext, Lateness, Times DEF Holds
<1>6. pc' = "open" => now' <= DnsT + (MaxAddrs - addrs') * TimeoutT
  <2>0. addrs' \in 0..MaxAddrs
    BY DEF Holds, TypeOK
  <2>4. \A x \in Nat : \A y \in 0..x : x - y \in Nat
    OBVIOUS
  <2>5. MaxAddrs \in Nat
    BY Times
  <2>1. MaxAddrs - addrs' \in Nat
    BY ONLY <2>0, <2>4, <2>5
  <2>2. \A x, y \in Nat : x * y \in Nat
    OBVIOUS
  <2>3. (MaxAddrs - addrs') * TimeoutT \in Nat
    BY <2>1, <2>2, Times
  <2> QED
    BY <1>2, <2>3, Times
<1>7. pc' = "wait" => now' <= Late + (IF want' = "datagram" THEN SliceT ELSE 0)
  BY <1>2, <1>4, Lateness
<1> QED
  BY <1>1, <1>3, <1>4, <1>5, <1>6, <1>7, TimePartsNext

LEMMA LessThanGreater ==
  \A n, a, b, c \in Nat : n <= a => n <= Greater(b, a) + c
BY DEF Greater

LEMMA CreateConnectionInTime ==
  ASSUME Holds, Holds', TimeFits, CreateConnection
  PROVE  TimeFits'
<1>1. /\ pc = "open" /\ Library /\ UNCHANGED run /\ Library' /\ kind \in Streams /\ step = "none"
      /\ now \in Nat /\ now <= DnsT + (MaxAddrs - addrs) * TimeoutT /\ addrs \in 0..MaxAddrs
  BY SameLibrary DEF CreateConnection, TimeFits, Holds, TypeOK, PlacesFit, Unconnected
<1>a. \A x, y \in Nat, z \in Int : (x - z) * y + y = (x - (z - 1)) * y /\ (x - z) * y \in Int
  OBVIOUS
<1>b. \A x, y, z \in Nat : z <= x => (x - z) * y <= x * y /\ x * y \in Nat
  OBVIOUS
<1>2. CASE addrs = 0
  <2>1. Raise(why) /\ UNCHANGED <<step, time>>
    BY <1>2 DEF CreateConnection
  <2>2. pc' = "done" /\ why' = why /\ UNCHANGED now
    BY <2>1, RaiseDone, RaiseWhy DEF time
  <2>3. TimedOut'
    BY <1>1, <2>2, TimesOutLater, SameLibrary, TimeParts
  <2>4. now' <= DnsT + MaxAddrs * TimeoutT
    BY <1>1, <1>2, <2>2, Times
  <2>5. Opening' = DnsT + MaxAddrs * TimeoutT
    BY <1>1, <2>1 DEF Opening
  <2>6. Overrun' \in Nat
    <3>1. \A x, y \in Nat : x * (1 + y) \in Nat
      OBVIOUS
    <3> QED
      BY <3>1, Times DEF Overrun
  <2>7. MaxAddrs * TimeoutT \in Nat
    BY <1>b, Times
  <2>8. now' <= Greater(TimeoutT, Opening') + Overrun'
    <3>1. now' \in Nat /\ Opening' \in Nat /\ now' <= Opening' /\ TimeoutT \in Nat
      BY <1>1, <2>2, <2>4, <2>5, <2>7, Times
    <3> QED
      BY ONLY <3>1, <2>6, LessThanGreater
  <2>9. InTime'
    BY <2>8 DEF InTime, Greater
  <2> QED
    BY <1>1, <2>2, <2>3, <2>9, TimePartsNext
<1>3. CASE addrs # 0
  <2>1. PICK d \in 0..TimeoutT :
              /\ Takes(d)
              /\ \/ Connected
                 \/ PassOver("refused")
                 \/ d = TimeoutT /\ PassOver("timeout")
    BY <1>3 DEF CreateConnection
  <2>2. now' = now + d /\ d \in Nat /\ d <= TimeoutT
    BY <2>1, Times DEF Takes
  <2>3. now' <= DnsT + (MaxAddrs - (addrs - 1)) * TimeoutT
    <3>1. (MaxAddrs - addrs) * TimeoutT + TimeoutT = (MaxAddrs - (addrs - 1)) * TimeoutT
          /\ (MaxAddrs - addrs) * TimeoutT \in Int
      BY <1>1, <1>a, Times
    <3>2. \A p, q \in Int : now <= DnsT + p /\ p + TimeoutT = q => now + d <= DnsT + q
      BY <1>1, <2>2, Times
    <3> QED
      <4>1. (MaxAddrs - addrs) * TimeoutT \in Int /\ (MaxAddrs - (addrs - 1)) * TimeoutT \in Int
        BY <3>1, Times
      <4>2. now + d <= DnsT + (MaxAddrs - (addrs - 1)) * TimeoutT
        BY <1>1, <3>1, <3>2, <4>1
      <4> QED
        BY <2>2, <4>2
  <2>4. now' <= DnsT + MaxAddrs * TimeoutT
    <3>1. (MaxAddrs - (addrs - 1)) * TimeoutT <= MaxAddrs * TimeoutT /\ MaxAddrs * TimeoutT \in Nat
      BY <1>1, <1>3, <1>b, Times
    <3>2. (MaxAddrs - (addrs - 1)) * TimeoutT \in Int /\ now' \in Nat
      BY <1>1, <1>a, <2>2, Times
    <3> QED
      BY <2>3, <3>1, <3>2, Times
  <2>5. TimedOut'
    <3>1. \/ why' \in {why, "none"} \/ why' # "timeout" \/ now' >= TimeoutT
      BY <1>1, <2>1, <2>2, Times DEF Connected, PassOver
    <3> QED
      BY <1>1, <2>2, <3>1, TimesOutLater, SameLibrary, TimeParts
  <2>6. \/ pc' \in {"wait", "telnet"} /\ step' # "uping"
        \/ pc' = "open" /\ addrs' = addrs - 1 /\ step' = step
    BY <1>1, <2>1, ConnectedPlace DEF PassOver
  <2>7. InTime'
    <3>1. Opening' = DnsT + MaxAddrs * TimeoutT
      BY <1>1, <2>6 DEF Opening
    <3>2. Overrun' \in Nat
      <4>1. \A x, y \in Nat : x * (1 + y) \in Nat
        OBVIOUS
      <4> QED
        BY <4>1, Times DEF Overrun
    <3>3. MaxAddrs * TimeoutT \in Nat /\ now' \in Nat
      BY <1>1, <1>b, <2>2, Times
    <3>4. now' <= Greater(TimeoutT, Opening') + Overrun'
      <4>1. now' \in Nat /\ Opening' \in Nat /\ now' <= Opening' /\ TimeoutT \in Nat
        BY <2>4, <3>1, <3>3, Times
      <4> QED
        BY ONLY <4>1, <3>2, LessThanGreater
    <3> QED
      BY <3>4 DEF InTime, Greater
  <2> QED
    BY <1>1, <2>3, <2>5, <2>6, <2>7, TimePartsNext
<1> QED
  BY <1>2, <1>3

LEMMA ConnectingInTime ==
  ASSUME Holds, Holds', TimeFits, Start \/ Refuse \/ PingFallsBack \/ OpenSocket \/ Again
  PROVE  TimeFits'
<1>1. CASE Start \/ Refuse \/ PingFallsBack \/ Again
  <2>1. (now' = 0 /\ why' # "timeout") \/ (now' = 0 /\ UNCHANGED <<now, run, why>>)
    BY <1>1, FinishWhy, RaiseWhy DEF Start, Refuse, PingFallsBack, Again, TimeFits, time, Fault
  <2>2. TimedOut'
    BY <2>1 DEF TimedOut, TimeFits, run
  <2>3. InTime'
    BY <2>1, InTimeNext, Lateness, Times DEF Holds
  <2>4. pc' \notin {"open", "wait", "op"}
    BY <1>1, FinishDone, RaiseDone DEF Start, Refuse, PingFallsBack, Again, Fault
  <2> QED
    BY <2>1, <2>2, <2>3, <2>4, TimePartsNext
<1>2. CASE OpenSocket
  <2>1. pc = "open" /\ ~Library /\ ~Library' /\ UNCHANGED <<run, now, hasPoll>> /\ now <= Late
    BY <1>2, SameLibrary, TimeParts DEF OpenSocket, time
  <2>2. \/ Raise(why) \/ Connected \/ (pc' = "wait" /\ UNCHANGED why)
        \/ \E e \in {"ECONNREFUSED", "EHOSTUNREACH"} : PassOver(Category(e))
    BY <1>2 DEF OpenSocket
  <2>3. pc' \in {"open", "wait", "telnet", "done"} /\ (why' = why \/ why' # "timeout")
    BY <2>1, <2>2, ConnectedPlace, RaiseDone, RaiseWhy DEF Connected, PassOver, Category
  <2>4. TimedOut'
    BY <2>1, <2>3, TimesOutLater, TimeParts DEF Holds, TypeOK
  <2> QED
    BY <2>1, <2>3, <2>4, SocketInTime
<1> QED
  BY <1>1, <1>2

(* An operation times out after its whole wait, which with poll only a    *)
(* library's is.                                                           *)
LEMMA TimeoutsAreLate ==
  ASSUME Holds, pc = "op", want # "datagram", NEW d \in 0..BlockT, Takes(d),
         NEW e \in Errors, Raises(e, d), Category(e) = "timeout"
  PROVE  now' >= TimeoutT \/ ~hasPoll
<1>1. BlockT > 0 /\ d = BlockT
  BY DEF Category, Raises, Errors
<1>2. hasPoll => BlockT = TimeoutT
  BY <1>1 DEF BlockT
<1> QED
  BY <1>1, <1>2, Times DEF Holds, TypeOK, Takes

LEMMA DatagramsAreSent ==
  ASSUME Holds, pc \in {"wait", "op"}, want = "datagram"
  PROVE  kind \in Datagrams /\ ~Library
BY DEF Holds, PlacesFit, Datagrams, Library

LEMMA WaitingInTime ==
  ASSUME Holds, Holds', TimeFits, WaitExpires \/ Poll \/ SetTimeout \/ LibraryCalls
  PROVE  TimeFits'
<1>0. /\ pc = "wait" /\ UNCHANGED run /\ (Library' <=> Library) /\ UNCHANGED <<kind, hasPoll>>
      /\ now \in Nat /\ now' \in Nat /\ TimedOut
  BY SameLibrary, TimeParts DEF WaitExpires, Poll, SetTimeout, LibraryCalls, Holds, TypeOK
<1>1. CASE WaitExpires
  <2>1. /\ ~Library /\ now >= TimeoutT /\ UNCHANGED <<now, want>> /\ pc' \in {"open", "done"}
        /\ pc' = "open" => want = "connect"
    BY <1>0, <1>1, RaiseDone, Times DEF WaitExpires, Left, time, DropAddress
  <2>2. TimedOut'
    BY <1>0, <2>1, TimesOutLater, Times
  <2>3. now' <= Late \/ (kind' \in Datagrams /\ want' = "datagram" /\ pc' # "open" /\ now' <= Late + SliceT)
    BY <1>0, <2>1, DatagramsAreSent, TimeParts, Lateness
  <2> QED
    BY <1>0, <2>1, <2>2, <2>3, SocketInTime
<1>2. CASE Poll \/ SetTimeout
  <2>1. ~Library /\ UNCHANGED why /\ pc' \in {"wait", "op"} /\ now < TimeoutT
    BY <1>0, <1>2, Times DEF Poll, SetTimeout, Holds, PlacesFit, Library, Left
  <2>2. \E d \in 0..PollSlice : now' = now + d
    BY <1>0, <1>2, SpansAreNat DEF Poll, SetTimeout, Feeds
  <2>3. PollSlice <= TimeoutT - now /\ PollSlice \in Nat
    BY <1>0, <2>1, SpansAreNat, Times DEF PollSlice, Least, Left
  <2>4. now' <= TimeoutT /\ now' >= now
    BY <1>0, <2>2, <2>3, Times
  <2>5. TimedOut'
    BY <1>0, <2>1, <2>4, TimesOutLater
  <2> QED
    BY <1>0, <2>1, <2>4, <2>5, SocketInTime, Lateness, Times
<1>3. CASE LibraryCalls
  <2>1. Library /\ UNCHANGED <<now, why>> /\ pc' = "op"
    BY <1>3 DEF LibraryCalls, time
  <2>2. kind \in {"http", "ftp"}
    BY <1>0, <2>1, LibraryExchanges
  <2>3. TimedOut'
    BY <1>0, <2>1, TimesOutLater
  <2> QED
    BY <1>0, <2>1, <2>2, <2>3, LibraryInTime
<1> QED
  BY <1>1, <1>2, <1>3

LEMMA ConnectInTime ==
  ASSUME Holds, Holds', TimeFits, Connect \/ OutOfBudget
  PROVE  TimeFits'
<1>0. /\ pc = "op" /\ UNCHANGED run /\ (Library' <=> Library) /\ UNCHANGED <<kind, hasPoll>>
      /\ now \in Nat /\ TimedOut /\ want # "datagram"
  BY SameLibrary, TimeParts DEF Connect, OutOfBudget, Holds, TypeOK
<1>1. CASE Connect
  <2>1. ~Library
    BY <1>1 DEF Connect, Holds, PlacesFit
  <2>2. PICK d \in 0..BlockT :
         /\ Takes(d)
         /\ \/ Connected
            \/ pc' = "wait" /\ UNCHANGED why
            \/ \E e \in Errors : Raises(e, d) /\ DropAddress(Category(e))
    BY <1>1 DEF Connect
  <2>3. now' <= TimeoutT /\ now' <= Late /\ now' >= now
    BY <1>0, <2>1, <2>2, OperationInTime
  <2>4. why' = why \/ why' # "timeout" \/ now' >= TimeoutT \/ ~hasPoll
    BY <1>0, <2>2, TimeoutsAreLate DEF Connected, DropAddress
  <2>5. TimedOut'
    BY <1>0, <2>3, <2>4, TimesOutLater
  <2>6. pc' \in {"wait", "telnet", "open"}
    BY <2>2, ConnectedPlace DEF DropAddress
  <2> QED
    BY <1>0, <2>1, <2>3, <2>5, <2>6, SocketInTime
<1>2. CASE OutOfBudget
  <2>1. UNCHANGED now /\ pc' = "done" /\ why' = "budget"
    BY <1>2, RaiseDone, RaiseWhy DEF OutOfBudget, time
  <2>2. TimedOut'
    BY <1>0, <2>1, TimesOutLater
  <2>3. CASE Library
    BY <1>0, <2>1, <2>2, <2>3, LibraryExchanges, LibraryInTime
  <2>4. CASE ~Library
    <3>1. now' <= Late
      BY <1>0, <2>1, <2>4, TimeParts, Lateness, Times
    <3> QED
      BY <1>0, <2>1, <2>2, <2>4, <3>1, SocketInTime
  <2> QED
    BY <2>3, <2>4
<1> QED
  BY <1>1, <1>2

LEMMA JudgeWhy == \A items : Judge(items) => why' \in {why, "ok", "bad"}
BY FinishWhy, RaiseWhy DEF Judge

LEMMA ExchangingInTime ==
  ASSUME Holds, Holds', TimeFits, Send \/ Receive
  PROVE  TimeFits'
<1>0. /\ pc = "op" /\ UNCHANGED run /\ (Library' <=> Library) /\ UNCHANGED <<kind, hasPoll>>
      /\ now \in Nat /\ TimedOut /\ want \in {"send", "recv"}
  BY SameLibrary, TimeParts DEF Send, Receive, Holds, TypeOK
<1>7. step # "uping" /\ BlockT \in Nat
  BY <1>0, StepsOfExchanges, SpansAreNat DEF Holds, PlacesFit, Exchanges, DmaSteps, FtpSteps
<1>1. PICK d \in 0..BlockT :
         /\ Takes(d)
         /\ \/ why' \in {why, "ok", "bad", "reset"}
            \/ \E e \in Errors : Raises(e, d) /\ why' = Category(e)
  <2>1. CASE Send
    BY <2>1, RaiseWhy DEF Send
  <2>2. CASE Receive
    <3>1. \A w : RaiseReading(w) => why' \in {why, "ok", "bad", w}
      BY JudgeWhy, RaiseWhy, FinishWhy DEF RaiseReading
    <3>2. PICK d \in 0..BlockT :
            /\ Takes(d)
            /\ \/ UNCHANGED why \/ Raise("bad") \/ RaiseReading("reset")
               \/ \E items : Judge(items)
               \/ \E e \in Errors : Raises(e, d) /\ RaiseReading(Category(e))
      BY <2>2 DEF Receive
    <3> QED
      BY <3>1, <3>2, JudgeWhy, RaiseWhy
  <2> QED
    BY <2>1, <2>2
<1>2. pc' \in {"wait", "done"}
  <2>1. CASE Send
    BY <2>1, RaiseDone DEF Send
  <2>2. CASE Receive
    <3>1. \A items : Judge(items) => pc' \in {"wait", "done"}
      BY <1>7, JudgePlace
    <3>2. \A w : RaiseReading(w) => pc' \in {"wait", "done"}
      BY <3>1, RaiseDone, FinishDone DEF RaiseReading
    <3> QED
      BY <2>2, <3>1, <3>2, RaiseDone DEF Receive
  <2> QED
    BY <2>1, <2>2
<1>3. now' = now + d /\ now' >= now /\ d \in Nat
  BY <1>1, <1>7, TimeGrows
<1>4. TimedOut'
  <2>1. why' = why \/ why' # "timeout" \/ now' >= TimeoutT \/ ~hasPoll
    BY <1>0, <1>1, TimeoutsAreLate
  <2> QED
    BY <1>0, <1>3, <2>1, TimesOutLater
<1>5. CASE Library
  BY <1>0, <1>2, <1>4, <1>5, LibraryExchanges, LibraryInTime
<1>6. CASE ~Library
  BY <1>0, <1>1, <1>2, <1>4, <1>6, OperationInTime, SocketInTime
<1> QED
  BY <1>5, <1>6

LEMMA DatagramInTime ==
  ASSUME Holds, Holds', TimeFits, ReceiveDatagram
  PROVE  TimeFits'
<1>0. /\ pc = "op" /\ UNCHANGED <<run, want>> /\ (Library' <=> Library) /\ UNCHANGED <<kind, hasPoll>>
      /\ now \in Nat /\ TimedOut /\ want = "datagram"
  BY SameLibrary, TimeParts DEF ReceiveDatagram, Holds, TypeOK
<1>1. kind \in Datagrams /\ ~Library
  BY <1>0, DatagramsAreSent
<1>2. now <= TimeoutT /\ BlockT = SliceT
  BY <1>0, <1>1, TimeParts DEF BlockT
<1>3. \E d \in {0, SliceT} : now' = now + d
  BY <1>2 DEF ReceiveDatagram, Takes
<1>4. now' >= now /\ now' <= Late + SliceT
  BY <1>0, <1>2, <1>3, Lateness, Times
<1>5. (why' = why \/ why' # "timeout") /\ pc' \in {"wait", "done"}
  BY FinishWhy, FinishDone, RaiseWhy, RaiseDone DEF ReceiveDatagram, IdentJudges, PingJudges, Category
<1>6. TimedOut'
  BY <1>0, <1>4, <1>5, TimesOutLater
<1> QED
  BY <1>0, <1>1, <1>4, <1>5, <1>6, SocketInTime

(* A session looks at its deadline before each read, and a read with the  *)
(* answers it calls for is as long as their timeouts.                      *)
LEMMA TelnetReads ==
  ASSUME Holds, Telnet
  PROVE  \/ UNCHANGED now
         \/ now < TimeoutT /\ \E d \in Nat : d <= IdleT * (1 + MaxIac) /\ now' = now + d
<1>1. CASE TelnetStops \/ TelnetOutOfBudget
  BY <1>1 DEF TelnetStops, TelnetOutOfBudget, time
<1>2. CASE TelnetQuiet \/ TelnetCloses \/ TelnetChunk \/ TelnetReplyFails
  <2>1. now < TimeoutT
    <3>1. ~Stops
      <4>1. CASE TelnetQuiet \/ TelnetCloses
        BY <4>1 DEF TelnetQuiet, TelnetCloses, ReadsChunk
      <4>2. CASE TelnetChunk
        BY <4>2 DEF TelnetChunk
      <4>3. CASE TelnetReplyFails
        BY <4>3 DEF TelnetReplyFails
      <4> QED
        BY <1>2, <4>1, <4>2, <4>3
    <3>2. ~(now >= TimeoutT) /\ now \in Nat
      BY <3>1 DEF Stops, Holds, TypeOK
    <3> QED
      BY <3>2, Times
  <2>2. \A a, i, n, m \in Nat : /\ i <= i * (1 + m) /\ i * (1 + m) \in Nat
                                /\ n <= m => i * (1 + n) <= i * (1 + m)
    <3>1. \A i, m \in Nat : i * (1 + m) = i + i * m /\ i * m \in Nat
      OBVIOUS
    <3>2. \A i, n, m \in Nat : n <= m => i * n <= i * m
      OBVIOUS
    <3> QED
      BY <3>1, <3>2
  <2>3. CASE TelnetQuiet \/ TelnetCloses \/ TelnetReplyFails
    <3>1. PICK d \in Nat : d <= ReadT /\ now' = now + d
      BY <2>3, ReadTimes DEF TelnetQuiet, TelnetCloses, TelnetReplyFails, Takes
    <3>2. d <= IdleT /\ IdleT <= IdleT * (1 + MaxIac) /\ IdleT * (1 + MaxIac) \in Nat
      BY <2>2, <3>1, ReadTimes, Times
    <3>3. d <= IdleT * (1 + MaxIac)
      <4>1. \A x, y, z \in Nat : x <= y /\ y <= z => x <= z
        OBVIOUS
      <4> QED
        BY <3>1, <3>2, <4>1, Times
    <3> QED
      BY <2>1, <3>1, <3>3
  <2>4. CASE TelnetChunk
    <3>1. PICK n \in 0..MaxIac : \E d \in 0..ChunkT(n) : now' = now + d
      BY <2>4 DEF TelnetChunk, Takes
    <3>2. PICK d \in 0..ChunkT(n) : now' = now + d
      BY <3>1
    <3>3. n \in Nat /\ n <= MaxIac
      BY Times
    <3>4. ChunkT(n) \in Nat /\ ChunkT(n) <= IdleT * (1 + n)
      <4>1. budget \in Nat \ {0}
        BY <2>4, Times DEF TelnetChunk, Holds, TypeOK
      <4> QED
        BY <3>3, <4>1, ReadTimes
    <3>5. IdleT * (1 + n) <= IdleT * (1 + MaxIac)
      BY <2>2, <3>3, Times
    <3>6. \A i, x \in Nat : i * (1 + x) \in Nat
      OBVIOUS
    <3>7. \A x, y, z, w \in Nat : x <= y /\ y <= z /\ z <= w => x <= w
      OBVIOUS
    <3>8. d \in Nat /\ d <= ChunkT(n) /\ IdleT * (1 + n) \in Nat /\ IdleT * (1 + MaxIac) \in Nat
      BY <3>2, <3>3, <3>4, <3>6, Times
    <3>9. d <= IdleT * (1 + MaxIac)
      BY ONLY <3>4, <3>5, <3>7, <3>8
    <3> QED
      BY <2>1, <3>2, <3>8, <3>9
  <2> QED
    BY <1>2, <2>3, <2>4
<1> QED
  BY <1>1, <1>2 DEF Telnet

(* A session ends, for a reason of its own or for want of budget, or goes *)
(* on.                                                                     *)
LEMMA TelnetEnds ==
  ASSUME Telnet
  PROVE  \/ \E t, w : EndSession(t, w) /\ w # "timeout"
         \/ Raise("budget")
         \/ UNCHANGED <<pc, why>>
<1>1. CASE TelnetStops \/ TelnetOutOfBudget
  BY <1>1 DEF TelnetStops, TelnetOutOfBudget
<1>2. CASE TelnetQuiet
  BY <1>2 DEF TelnetQuiet
<1>3. CASE TelnetCloses
  <2>1. peer' # "timeout" /\ EndSession(tel, peer')
    BY <1>3 DEF TelnetCloses
  <2> QED
    BY <2>1
<1>4. CASE TelnetChunk
  <2>1. \/ Raise("budget")
        \/ \E t, see : EndSession(t, see) /\ see \in {"plenty", "marker"}
        \/ UNCHANGED <<pc, why>>
    BY <1>4, Zenon DEF TelnetChunk
  <2> QED
    BY <2>1
<1>5. CASE TelnetReplyFails
  BY <1>5 DEF TelnetReplyFails
<1> QED
  BY <1>1, <1>2, <1>3, <1>4, <1>5 DEF Telnet

LEMMA TelnetInTime ==
  ASSUME Holds, Holds', TimeFits, Telnet
  PROVE  TimeFits'
<1>1. /\ pc = "telnet" /\ kind = "telnet" /\ UNCHANGED <<run, step>> /\ step = "session"
      /\ pc' \in {"telnet", "done"}
  <2>1. pc = "telnet" /\ UNCHANGED <<run, step>>
    <3>1. CASE TelnetStops \/ TelnetOutOfBudget
      BY <3>1 DEF TelnetStops, TelnetOutOfBudget
    <3>2. CASE TelnetQuiet \/ TelnetCloses
      BY <3>2 DEF TelnetQuiet, TelnetCloses, ReadsChunk
    <3>3. CASE TelnetChunk
      BY <3>3 DEF TelnetChunk
    <3>4. CASE TelnetReplyFails
      BY <3>4 DEF TelnetReplyFails
    <3> QED
      BY <3>1, <3>2, <3>3, <3>4 DEF Telnet
  <2>2. pc' \in {"telnet", "done"}
    BY <2>1, TelnetEnds, RaiseDone, FinishDone DEF EndSession
  <2> QED
    BY <2>1, <2>2 DEF Holds, PlacesFit, run
<1>2. /\ (Library' <=> Library) /\ UNCHANGED <<kind, hasPoll>> /\ now \in Nat /\ now' \in Nat
      /\ TimedOut /\ InTime
  BY <1>1, SameLibrary, TimeParts DEF Holds, TypeOK
<1>3. why' = why \/ why' # "timeout"
  <2>1. \A t, w : EndSession(t, w) => why' = w
    BY FinishWhy DEF EndSession
  <2> QED
    BY <2>1, TelnetEnds, RaiseWhy
<1>4. now' >= now
  BY <1>2, TelnetReads
<1>5. TimedOut'
  BY <1>1, <1>2, <1>3, <1>4, TimesOutLater
<1>6. Opening' = Opening /\ Overrun' = Overrun /\ Overrun = IdleT * (1 + MaxIac) /\ Budgeted /\ Budgeted'
  BY <1>1, <1>2 DEF Opening, Overrun, Budgeted, Datagrams, UpingT, PacketT
<1>7. now' <= Greater(TimeoutT, Opening) + Overrun
  <2>1. CASE UNCHANGED now
    BY <1>2, <1>6, <2>1 DEF InTime
  <2>2. CASE now < TimeoutT /\ \E d \in Nat : d <= IdleT * (1 + MaxIac) /\ now' = now + d
    <3>1. PICK d \in Nat : d <= Overrun /\ now' = now + d
      BY <1>6, <2>2
    <3>2. Opening \in Nat /\ Overrun \in Nat
      <4>1. \A x, y \in Nat : x * y \in Nat /\ x * (1 + y) \in Nat
        OBVIOUS
      <4>2. MaxAddrs * TimeoutT \in Nat /\ IdleT * (1 + MaxIac) \in Nat
        BY <4>1, Times
      <4> QED
        BY <1>6, <4>2, Feeding, Times DEF Opening
    <3>3. Greater(TimeoutT, Opening) \in Nat /\ TimeoutT <= Greater(TimeoutT, Opening)
      BY <3>2, Times DEF Greater
    <3>4. \A n, t, g, x, o \in Nat : n < t /\ t <= g /\ x <= o => n + x <= g + o
      OBVIOUS
    <3>5. now + d <= Greater(TimeoutT, Opening) + Overrun
      BY <1>2, <2>2, <3>1, <3>2, <3>3, <3>4, Times
    <3> QED
      BY <3>1, <3>5
  <2> QED
    BY <2>1, <2>2, TelnetReads
<1>8. InTime'
  BY <1>6, <1>7 DEF InTime, Greater
<1> QED
  BY <1>1, <1>5, <1>8, TimePartsNext

LEMMA StutterInTime == TimeFits /\ UNCHANGED vars => TimeFits'
<1> SUFFICES ASSUME TimeFits, UNCHANGED vars PROVE TimeFits'
  OBVIOUS
<1>1. UNCHANGED <<pc, want, step, now, addrs, status, why>> /\ UNCHANGED run
  BY DEF vars, sock, time
<1>2. (Library' <=> Library) /\ UNCHANGED <<kind, hasPoll>>
  BY <1>1, SameLibrary
<1>3. (TimedOut' <=> TimedOut) /\ Opening' = Opening /\ Overrun' = Overrun /\ (Budgeted' <=> Budgeted)
  BY <1>1, <1>2 DEF TimedOut, Opening, Overrun, Budgeted, UpingT, PacketT
<1>4. InTime' <=> InTime
  BY <1>1, <1>3 DEF InTime, Greater
<1> QED
  BY <1>1, <1>2, <1>3, <1>4, TimeParts, TimePartsNext

LEMMA StepInTime == Holds /\ Holds' /\ TimeFits /\ [Next]_vars => TimeFits'
BY ConnectingInTime, CommandInTime, ResolveInTime, CreateConnectionInTime, WaitingInTime,
   ConnectInTime, ExchangingInTime, DatagramInTime, TelnetInTime, StutterInTime
DEF Next, Probe

(* A probe is over when its time is, but for the call it is in: a lookup,  *)
(* uping, the addresses a library tries, the reads of a session and a      *)
(* datagram's last slice; http.client and ftplib know no deadline.  With   *)
(* poll it reports a timeout only when its time is over (_ProbeBudget and  *)
(* the deadlines of _socket_wait, _connect_socket, _recv_datagram).        *)
THEOREM DeadlinesAreKept == Spec => []DeadlineIsKept
<1>1. Init => TimeFits
  <2> SUFFICES ASSUME Init PROVE TimeFits
    OBVIOUS
  <2>1. now = 0 /\ why = "none" /\ pc = "idle"
    BY DEF Init
  <2>2. InTime
    BY <2>1, InitHolds, InTimeNow, Lateness, Times DEF Holds
  <2> QED
    BY <2>1, <2>2, TimeParts DEF TimedOut
<1>2. Spec => []TimeFits
  BY <1>1, AlwaysHolds, StepInTime, PTL DEF Spec
<1>3. TimeFits => DeadlineIsKept
  BY DEF TimeFits
<1> QED
  BY <1>2, <1>3, PTL

-----------------------------------------------------------------------------
(* What a peer that answers rightly is told.                                *)

(* A read moves items from the wire to the reply.                           *)
LEMMA RestIsRead ==
  ASSUME NEW s, NEW c, NEW k, NEW g \in Seq(Items), NEW w \in Seq(Items), Rest(s, c, k, g, w),
         NEW n \in 1..Len(w)
  PROVE  /\ Rest(s, c, k, g \o SubSeq(w, 1, n), SubSeq(w, n + 1, Len(w)))
         /\ Len(g \o SubSeq(w, 1, n)) \in 1..k /\ k \in Nat
         /\ g \o SubSeq(w, 1, n) \in Seq(Items)
<1> DEFINE h == SubSeq(w, 1, n)
           r == SubSeq(w, n + 1, Len(w))
<1>1. Len(g) \in Nat /\ Len(w) \in Nat /\ n \in Nat \ {0} /\ n <= Len(w) /\ Len(g) + Len(w) = k
  BY LenProperties DEF Rest
<1>2. \A i \in 1..Len(w) : w[i] \in Items
  BY ElementOfSeq
<1>3. h \in Seq(Items) /\ Len(h) = n /\ \A i \in 1..n : h[i] = w[i]
  <2>1. 1 \in Int /\ n \in Int /\ \A i \in 1..n : w[i] \in Items
    BY <1>1, <1>2
  <2>2. /\ h \in Seq(Items) /\ Len(h) = (IF 1 <= n THEN n - 1 + 1 ELSE 0)
        /\ \A i \in 1..n - 1 + 1 : h[i] = w[1 + i - 1]
    BY <2>1, SubSeqProperties
  <2> HIDE DEF h
  <2> QED
    BY <1>1, <2>2
<1>4. Len(r) = Len(w) - n /\ \A i \in 1..Len(w) - n : r[i] = w[n + i]
  <2>1. n + 1 \in Int /\ Len(w) \in Int /\ \A i \in (n + 1)..Len(w) : w[i] \in Items
    BY <1>1, <1>2
  <2>2. /\ Len(r) = (IF n + 1 <= Len(w) THEN Len(w) - (n + 1) + 1 ELSE 0)
        /\ \A i \in 1..Len(w) - (n + 1) + 1 : r[i] = w[n + 1 + i - 1]
    BY <2>1, SubSeqProperties
  <2> HIDE DEF r
  <2> QED
    BY <1>1, <2>2
<1>5. /\ g \o h \in Seq(Items) /\ Len(g \o h) = Len(g) + n
      /\ \A i \in 1..Len(g) + n : (g \o h)[i] = IF i <= Len(g) THEN g[i] ELSE h[i - Len(g)]
  BY <1>3, ConcatProperties
<1> HIDE DEF h, r
<1>6. \A i \in 1..Len(g) + n : (g \o h)[i] = Item(s, c, i = k)
  <2> TAKE i \in 1..Len(g) + n
  <2>1. CASE i <= Len(g)
    BY <1>1, <1>5, <2>1 DEF Rest
  <2>2. CASE ~(i <= Len(g))
    <3>1. PICK j \in 1..n : i = Len(g) + j /\ i - Len(g) = j
      <4>1. \A a, b \in Nat : \A x \in 1..(a + b) : ~(x <= a) => x - a \in 1..b /\ x = a + (x - a)
        OBVIOUS
      <4>2. i - Len(g) \in 1..n /\ i = Len(g) + (i - Len(g))
        BY <1>1, <2>2, <4>1
      <4> QED
        BY <4>2
    <3>2. h[j] = w[j] /\ w[j] = Item(s, c, Len(g) + j = k)
      BY <1>1, <1>3, <3>1 DEF Rest
    <3> QED
      BY <1>5, <2>2, <3>1, <3>2
  <2> QED
    BY <2>1, <2>2
<1>7. \A i \in 1..Len(w) - n : r[i] = Item(s, c, Len(g) + n + i = k)
  <2> TAKE i \in 1..Len(w) - n
  <2>1. n + i \in 1..Len(w) /\ Len(g) + (n + i) = Len(g) + n + i
    BY <1>1
  <2>2. w[n + i] = Item(s, c, Len(g) + (n + i) = k)
    BY <2>1 DEF Rest
  <2> QED
    BY <1>4, <2>1, <2>2
<1>8. Len(g \o h) + Len(r) = k /\ Len(g \o h) \in 1..k /\ k \in Nat
  BY <1>1, <1>4, <1>5
<1>9. Rest(s, c, k, g \o h, r)
  BY <1>4, <1>5, <1>6, <1>7, <1>8 DEF Rest
<1> QED
  BY <1>5, <1>8, <1>9 DEF h, r

(* Once it has been read, a reply is what its code says.                    *)
LEMMA RestIsWhole ==
  ASSUME NEW s, NEW c, NEW k, NEW g \in Seq(Items), NEW w \in Seq(Items), Rest(s, c, k, g, w),
         Len(g) > 0
  PROVE  /\ CodeOf(g) = c
         /\ Len(g) = k => w = <<>> /\ g[Len(g)].eol
         /\ Len(g) # k => ~g[Len(g)].eol
<1>1. Len(g) \in Nat /\ Len(w) \in Nat /\ Len(g) + Len(w) = k
  BY LenProperties DEF Rest
<1>2. g[1] = Item(s, c, 1 = k) /\ g[Len(g)] = Item(s, c, Len(g) = k)
  BY <1>1 DEF Rest
<1>3. g # <<>> /\ Head(g) = g[1]
  BY <1>1
<1>4. CodeOf(g) = c
  BY <1>2, <1>3 DEF CodeOf, Item
<1>5. Len(g) = k => w = <<>>
  BY <1>1
<1>6. g[Len(g)].eol = (Len(g) = k)
  BY <1>2 DEF Item
<1> QED
  BY <1>4, <1>5, <1>6

(* A whole reply on the wire. *)
LEMMA CopiesRest ==
  ASSUME NEW s \in Steps, NEW c \in Words, NEW k \in Nat
  PROVE  Rest(s, c, k, <<>>, Copies(s, c, k))
<1>1. Len(Copies(s, c, k)) = k
  BY CopiesAreItems
<1>2. \A i \in 1..k : Copies(s, c, k)[i] = Item(s, c, i = k)
  BY DEF Copies
<1>3. Len(<<>>) = 0 /\ \A i \in 1..k : 0 + i = i
  OBVIOUS
<1> QED
  BY <1>1, <1>2, <1>3 DEF Rest

(* The whole of a right reply to a command, and the peer still there. *)
LEMMA RightAnswers ==
  ASSUME ~MultiLine, Holds, NEW s \in Asked \ {"doomed"},
         \/ kind = "dma" /\ s \in DmaSteps
         \/ kind = "ftp" /\ s \in FtpSteps
         \/ kind = "http" /\ s = "request",
         peer = "open", wire = <<>>, Answers(s), honest'
  PROVE  /\ honest /\ Due(s, <<>>, wire') /\ wire' \in Seq(Items)
         /\ peer' # "reset" /\ (peer' = "closed" => s \in {"request", "quit"})
<1> DEFINE Sent(r, n) ==
         /\ wire' = wire \o SubSeq(r, 1, n)
         /\ peer' \in {"open", "closed", "reset"}
         /\ honest' = (/\ honest /\ n = Len(r)
                       /\ \A i \in 1..n : r[i].code \notin {"bad", "5xx"}
                       /\ \/ peer' = "open" /\ s # "request"
                          \/ peer' = "closed" /\ s \in {"request", "quit"})
<1>1. PICK r \in Replies(s) : \E n \in 0..Len(r) : Sent(r, n)
  BY DEF Answers
<1>2. PICK n \in 0..Len(r) : Sent(r, n)
  BY <1>1
<1>3. /\ honest /\ n = Len(r) /\ wire' = wire \o SubSeq(r, 1, n)
      /\ \A i \in 1..Len(r) : r[i].code \notin {"bad", "5xx"}
      /\ peer' # "reset" /\ (peer' = "closed" => s \in {"request", "quit"})
  BY <1>2 DEF Holds, TypeOK
<1>4. r \in Seq(Items)
  <2>1. kind = "dma" => s \in DOMAIN Needs
    BY DEF DmaSteps, FtpSteps, Needs
  <2> QED
    BY <2>1, RepliesAreItems
<1>5. wire' = r
  BY <1>3, <1>4, SubSeqFull, ConcatEmptySeq
<1> HIDE DEF Sent
<1>6. CASE s = "identify"
  <2>1. PICK c \in {"ok", "bad"} :
          \/ r = Copies("identify", "bad", 1)
          \/ r = Copies("identify", "ok", 1) \o Copies("title", c, 2)
    BY <1>1, <1>6 DEF Replies
  <2>2. {"identify", "title"} \subseteq Steps /\ {"ok", "bad"} \subseteq Words
    BY DEF Steps, Words, Codes, Needs
  <2>3. \A d \in Words, x \in Steps, m \in {1, 2} : \A i \in 1..m : Copies(x, d, m)[i].code = d
    BY DEF Copies, Item
  <2>4. /\ Copies("identify", "ok", 1) \in Seq(Items) /\ Len(Copies("identify", "ok", 1)) = 1
        /\ Copies("title", c, 2) \in Seq(Items) /\ Len(Copies("title", c, 2)) = 2
        /\ Len(Copies("identify", "bad", 1)) = 1
    BY <2>2, CopiesAreItems
  <2>5. r # Copies("identify", "bad", 1)
    <3>1. Copies("identify", "bad", 1)[1].code = "bad" /\ 1 \in 1..1
      BY <2>2, <2>3
    <3> QED
      BY <1>3, <2>4, <3>1
  <2>6. r = Copies("identify", "ok", 1) \o Copies("title", c, 2)
    BY <2>1, <2>5
  <2>7. Len(r) = 3 /\ r[1].code = "ok" /\ r[2].code = c
    <3>1. /\ Len(r) = 1 + 2
          /\ \A i \in 1..1 + 2 : r[i] = IF i <= 1 THEN Copies("identify", "ok", 1)[i]
                                       ELSE Copies("title", c, 2)[i - 1]
      BY <2>4, <2>6, ConcatProperties
    <3>2. Copies("identify", "ok", 1)[1].code = "ok" /\ Copies("title", c, 2)[1].code = c
      BY <2>2, <2>3
    <3>3. r[1] = Copies("identify", "ok", 1)[1] /\ r[2] = Copies("title", c, 2)[1]
      BY <3>1
    <3> QED
      BY <3>1, <3>2, <3>3
  <2>8. c = "ok"
    BY <1>3, <2>7
  <2>9. SubSeq(r, 2, 3) = Copies("title", c, 2)
    <3> DEFINE u == Copies("identify", "ok", 1)
               v == Copies("title", c, 2)
    <3>1. u \in Seq(Items) /\ v \in Seq(Items) /\ Len(u) = 1 /\ Len(v) = 2 /\ r = u \o v
      BY <2>4, <2>6
    <3> HIDE DEF u, v
    <3>2. SubSeq(u \o v, 2, 3) = SubSeq(v, 2 - Len(u), 3 - Len(u))
      <4>1. 2 \in Len(u) + 1 .. Len(u) + Len(v) /\ 3 \in Len(u) .. Len(u) + Len(v)
        BY <3>1
      <4> QED
        BY <3>1, <4>1, SubSeqOfConcat2
    <3>3. SubSeq(v, 1, 2) = v
      BY <3>1, SubSeqFull
    <3>4. 2 - Len(u) = 1 /\ 3 - Len(u) = 2
      BY <3>1
    <3>5. r = u \o v
      BY <3>1
    <3>6. SubSeq(r, 2, 3) = v
      BY ONLY <3>2, <3>3, <3>4, <3>5
    <3> QED
      BY <3>6 DEF v
  <2>10. Rest("title", "ok", 2, <<>>, SubSeq(r, 2, 3))
    BY <2>2, <2>8, <2>9, CopiesRest
  <2> QED
    BY <1>3, <1>4, <1>5, <1>6, <2>7, <2>10 DEF Due, FtpSteps
<1>7. CASE s # "identify"
  <2>1. s \in DOMAIN Codes
    BY <1>7 DEF Asked
  <2>2. PICK c \in Codes[s], k \in {1, 2} :
          /\ r = Copies(s, c, k)
          /\ kind = "dma" => k = Needs[s]
          /\ kind = "http" => k = 2
    <3>1. CASE kind = "dma"
      BY <1>7, <3>1 DEF Replies, Needs, DmaSteps, FtpSteps
    <3>2. CASE kind = "ftp"
      BY <1>7, <3>2 DEF Replies, Lines
    <3>3. CASE kind = "http"
      BY <1>7, <3>3 DEF Replies
    <3> QED
      BY <3>1, <3>2, <3>3
  <2>3. c \in Words /\ s \in Steps
    BY <2>1, CodesAreWords
  <2>4. Rest(s, c, k, <<>>, r) /\ Len(r) = k
    BY <2>2, <2>3, CopiesRest, CopiesAreItems
  <2>5. r[1] = Item(s, c, 0 + 1 = k)
    BY <2>4 DEF Rest
  <2>6. c \in Right(s)
    BY <1>3, <2>4, <2>5 DEF Right, Item
  <2>7. kind = "dma" => c = "ok"
    <3>1. \A x \in DmaSteps : x \in DOMAIN Codes => Codes[x] \subseteq {"ok", "bad"}
      BY DEF Codes, DmaSteps
    <3>2. kind = "dma" => s \in DmaSteps
      OBVIOUS
    <3> QED
      BY <2>1, <2>6, <3>1, <3>2 DEF Right
  <2>8. Len(<<>>) < k
    OBVIOUS
  <2> QED
    BY <1>3, <1>4, <1>5, <1>7, <2>2, <2>4, <2>6, <2>7, <2>8 DEF Due, DmaSteps, FtpSteps
<1> QED
  BY <1>6, <1>7

(* A probe that ends well, or for want of time or budget, or with a peer   *)
(* that is unreached or wrong.                                             *)
LEMMA GoodDone ==
  ASSUME pc' = "done",
         honest' => \/ status' = "OK" \/ why' \in {"timeout", "budget"} \/ ~reached'
                    \/ kind' = "telnet" /\ ~(tel'.text > 0)
  PROVE  GoodFits'
BY DEF GoodFits, GoodPeerIsOK, Unconnected

(* Before its connection a probe has nothing to judge. *)
LEMMA GoodUnconnected ==
  ASSUME Holds', GoodFits, Unconnected, Unconnected', UNCHANGED <<got, wire, peer, honest>>
  PROVE  GoodFits'
<1>1. step' = "none" /\ pc' \notin {"done", "telnet"}
      /\ (pc' \in {"wait", "op"} => want' = "connect")
  BY DEF Holds, PlacesFit, Unconnected
<1>2. honest' => got' = <<>> /\ wire' = <<>> /\ peer' = "open"
  BY DEF GoodFits
<1> QED
  BY <1>1, <1>2 DEF GoodFits, GoodPeerIsOK

(* Waiting changes nothing for the judgement. *)
LEMMA GoodWaits ==
  ASSUME GoodFits, pc \in {"wait", "op"}, pc' \in {"wait", "op"}, UNCHANGED run,
         UNCHANGED <<want, step, got, wire, peer, honest>>
  PROVE  GoodFits'
<1>1. UNCHANGED kind /\ pc # "done" /\ pc' # "done" /\ pc' # "telnet"
  BY DEF run
<1>2. Unconnected' => Unconnected
  BY DEF Unconnected
<1>3. Due(step', got', wire') = Due(step, got, wire)
  OBVIOUS
<1> QED
  BY <1>1, <1>2, <1>3 DEF GoodFits, GoodPeerIsOK

(* Connected, a probe asks, or hears the greeting that comes unasked. *)
LEMMA ConnectedGood ==
  ASSUME ~MultiLine, Holds, Holds', GoodFits, Unconnected, Connected, UNCHANGED run, UNCHANGED got
  PROVE  GoodFits'
<1>1. honest => got = <<>> /\ wire = <<>> /\ peer = "open"
  BY DEF GoodFits
<1>2. CASE /\ kind \in {"dma", "http"} /\ step' \in {"auth", "identify", "request"}
           /\ pc' = "wait" /\ want' = "send" /\ UNCHANGED <<tel, wire, peer, honest>>
  BY <1>1, <1>2 DEF GoodFits, GoodPeerIsOK, Unconnected, run
<1>3. CASE /\ kind = "ftp" /\ step' = "greeting" /\ pc' = "wait" /\ want' = "recv"
           /\ Answers("greeting")
  <2>1. "greeting" \in Asked \ {"doomed"} /\ "greeting" \in FtpSteps
    BY DEF Asked, Codes, FtpSteps
  <2>2. peer = "open" \/ UNCHANGED honest
    BY <1>3 DEF Answers
  <2>3. ASSUME honest'
        PROVE  Due("greeting", <<>>, wire') /\ peer' = "open" /\ got' = <<>>
    <3>1. honest
      BY <1>3, <2>3 DEF Answers, Holds, TypeOK
    <3>2. got = <<>> /\ wire = <<>> /\ peer = "open"
      BY <1>1, <3>1
    <3>3. /\ Due("greeting", <<>>, wire') /\ peer' # "reset"
          /\ (peer' = "closed" => "greeting" \in {"request", "quit"})
      BY <1>3, <2>1, <2>3, <3>2, RightAnswers
    <3>4. peer' \in {"open", "closed", "reset"}
      BY DEF Holds, TypeOK
    <3> QED
      BY <3>2, <3>3, <3>4
  <2> QED
    BY <1>3, <2>3 DEF GoodFits, GoodPeerIsOK, Unconnected, run
<1>4. CASE /\ kind = "telnet" /\ step' = "session"
           /\ pc' = "telnet" /\ tel' = [FreshTel EXCEPT !.since = now']
  <2>1. ~tel'.marker
    BY <1>4 DEF FreshTel
  <2> QED
    BY <1>4, <2>1 DEF GoodFits, GoodPeerIsOK, Unconnected, run, Exchanges
<1> QED
  BY <1>2, <1>3, <1>4 DEF Connected

LEMMA ConnectingGood ==
  ASSUME ~MultiLine, Holds, Holds', ReachFits, GoodFits,
         Start \/ Refuse \/ PingFallsBack \/ Command \/ OpenSocket \/ CreateConnection \/ Again
  PROVE  GoodFits'
<1>1. CASE Start
  BY <1>1, GoodUnconnected DEF Start, Unconnected, net
<1>2. CASE Refuse
  BY <1>2, GoodDone, FinishDone DEF Refuse, Fault, ReachFits, net
<1>3. CASE PingFallsBack
  <2>1. CASE pc' = "command"
    BY <1>3, <2>1 DEF PingFallsBack, run, GoodFits, GoodPeerIsOK, Unconnected
  <2>2. CASE Raise("unsupported")
    BY <1>3, <2>2, GoodDone, RaiseDone DEF PingFallsBack, ReachFits, net
  <2> QED
    BY <1>3, <2>1, <2>2 DEF PingFallsBack
<1>4. CASE Command
  <2>1. pc' = "done" /\ (status' = "OK" \/ ~reached')
    BY <1>4, FinishDone DEF Command, Finish, Fault, ReachFits, net
  <2> QED
    BY <2>1, GoodDone
<1>5. CASE OpenSocket \/ CreateConnection
  <2>1. pc = "open" /\ ~reached /\ UNCHANGED run /\ UNCHANGED got /\ Unconnected
    BY <1>5 DEF OpenSocket, CreateConnection, ReachFits, Unconnected
  <2>2. \/ Raise(why) /\ UNCHANGED net
        \/ Connected
        \/ pc' = "wait" /\ want' = "connect" /\ UNCHANGED net
        \/ \E w : PassOver(w)
    BY <1>5 DEF OpenSocket, CreateConnection
  <2>3. CASE Raise(why) /\ UNCHANGED net
    BY <2>1, <2>3, GoodDone, RaiseDone DEF net
  <2>4. CASE Connected
    BY <2>1, <2>4, ConnectedGood
  <2>5. CASE pc' = "wait" /\ want' = "connect" /\ UNCHANGED net
    BY <2>1, <2>5, GoodUnconnected DEF Unconnected, net
  <2>6. CASE \E w : PassOver(w)
    BY <2>1, <2>6, GoodUnconnected DEF PassOver, Unconnected, net
  <2> QED
    BY <2>2, <2>3, <2>4, <2>5, <2>6
<1>6. CASE Again
  BY <1>6 DEF Again, GoodFits, GoodPeerIsOK, Unconnected
<1> QED
  BY <1>1, <1>2, <1>3, <1>4, <1>5, <1>6

LEMMA ResolveGood ==
  ASSUME Holds, Holds', ReachFits, GoodFits, Resolve
  PROVE  GoodFits'
<1>1. pc = "resolve" /\ ~reached /\ UNCHANGED run /\ UNCHANGED got /\ Unconnected
  BY DEF Resolve, ReachFits, Unconnected
<1>2. CASE pc' = "open" /\ UNCHANGED net
  BY <1>1, <1>2, GoodUnconnected DEF Unconnected, net
<1>3. CASE Raise("dns") /\ UNCHANGED net
  BY <1>1, <1>3, GoodDone, RaiseDone DEF net
<1>4. CASE /\ kind \in Datagrams /\ pc' = "wait" /\ want' = "datagram"
           /\ \/ UNCHANGED <<wire, honest>>
              \/ /\ kind = "ident"
                 /\ \E c \in Codes.ident : wire' = Copies(kind, c, 1) /\ honest' = (c = "ok")
              \/ kind = "ping"
  <2>1. ASSUME honest', kind = "ident", wire' # <<>>
        PROVE  wire'[1].code = "ok"
    <3>1. CASE UNCHANGED <<wire, honest>>
      BY <1>1, <2>1, <3>1 DEF GoodFits
    <3>2. CASE \E c \in Codes.ident : wire' = Copies(kind, c, 1) /\ honest' = (c = "ok")
      <4>1. wire' = Copies(kind, "ok", 1)
        BY <2>1, <3>2
      <4> QED
        BY <4>1 DEF Copies, Item
    <3> QED
      BY <1>4, <2>1, <3>1, <3>2
  <2> QED
    BY <1>1, <1>4, <2>1 DEF GoodFits, GoodPeerIsOK, Unconnected, run, Datagrams, Exchanges
<1> QED
  BY <1>2, <1>3, <1>4 DEF Resolve

LEMMA WaitingGood ==
  ASSUME ~MultiLine, Holds, Holds', GoodFits,
         WaitExpires \/ Poll \/ SetTimeout \/ LibraryCalls \/ Connect \/ OutOfBudget
  PROVE  GoodFits'
<1>1. CASE WaitExpires
  <2>1. CASE want = "connect"
    BY <1>1, <2>1, GoodUnconnected DEF WaitExpires, DropAddress, Unconnected, net
  <2>2. CASE want # "connect"
    BY <1>1, <2>2, GoodDone, RaiseDone, RaiseWhy DEF WaitExpires
  <2> QED
    BY <2>1, <2>2
<1>2. CASE Poll \/ SetTimeout \/ LibraryCalls
  BY <1>2, GoodWaits DEF Poll, SetTimeout, LibraryCalls, net
<1>3. CASE Connect
  <2>1. pc = "op" /\ want = "connect" /\ UNCHANGED run /\ UNCHANGED got /\ Unconnected
    BY <1>3 DEF Connect, Unconnected
  <2>2. \/ Connected
        \/ pc' = "wait" /\ UNCHANGED <<want, step, sock, tel, status, why, net>>
        \/ \E e \in Errors : DropAddress(Category(e))
    BY <1>3 DEF Connect
  <2>3. CASE pc' = "wait" /\ UNCHANGED <<want, step, sock, tel, status, why, net>>
    BY <2>1, <2>3, GoodUnconnected DEF Unconnected, net
  <2>4. CASE \E e \in Errors : DropAddress(Category(e))
    BY <2>1, <2>4, GoodUnconnected DEF DropAddress, Unconnected, net
  <2> QED
    BY <2>1, <2>2, <2>3, <2>4, ConnectedGood
<1>4. CASE OutOfBudget
  BY <1>4, GoodDone, RaiseDone, RaiseWhy DEF OutOfBudget
<1> QED
  BY <1>1, <1>2, <1>3, <1>4

(* Where a right answer leads. *)
LEMMA RightMoves ==
  /\ \A x \in Moves : /\ x[1] \notin {"request", "quit"}
                      /\ x[1] \in FtpSteps => x[3] \in FtpSteps \ {"greeting"}
                      /\ x[1] \in DmaSteps /\ x[2] = "ok" =>
                           x[3] \in DmaSteps \ {"doomed"} /\ (x[3] = "title" <=> x[1] = "identify")
  /\ \A s \in DmaSteps \ {"doomed"} : \/ <<s, "ok">> \in GoodEnds
                                      \/ \E x \in Moves : x[1] = s /\ x[2] = "ok"
  /\ \A s \in FtpSteps : \A c \in Right(s) : \/ <<s, c>> \in GoodEnds
                                             \/ \E x \in Moves : x[1] = s /\ x[2] = c
  /\ \A c \in Right("request") : <<"request", c>> \in GoodEnds
<1>1. \A x \in DmaMoves : /\ x[1] \notin {"request", "quit"} /\ x[1] \notin FtpSteps
                          /\ x[2] = "ok" => /\ x[3] \in DmaSteps \ {"doomed"}
                                            /\ x[3] = "title" <=> x[1] = "identify"
  BY DEF DmaMoves, DmaSteps, FtpSteps
<1>2. \A x \in FtpMoves : /\ x[1] \notin {"request", "quit"} /\ x[1] \notin DmaSteps
                          /\ x[3] \in FtpSteps \ {"greeting"}
  BY DEF FtpMoves, DmaSteps, FtpSteps
<1>3. \A s \in DmaSteps \ {"doomed"} : \/ <<s, "ok">> \in GoodEnds
                                       \/ \E x \in Moves : x[1] = s /\ x[2] = "ok"
  <2>1. <<"count", "ok">> \in GoodEnds
    BY DEF GoodEnds
  <2>2. /\ <<"auth", "ok", "identify">> \in Moves /\ <<"identify", "ok", "title">> \in Moves
        /\ <<"title", "ok", "debug">> \in Moves /\ <<"debug", "ok", "size">> \in Moves
        /\ <<"size", "ok", "count">> \in Moves
    BY DEF Moves, DmaMoves
  <2>3. \A s, c, n : <<s, c, n>> \in Moves => \E x \in Moves : x[1] = s /\ x[2] = c
    OBVIOUS
  <2>4. DmaSteps \ {"doomed"} = {"auth", "identify", "title", "debug", "size", "count"}
    BY DEF DmaSteps
  <2> QED
    BY <2>1, <2>2, <2>3, <2>4
<1>4. \A s \in FtpSteps : \A c \in Right(s) : \/ <<s, c>> \in GoodEnds
                                              \/ \E x \in Moves : x[1] = s /\ x[2] = c
  <2>1. /\ Right("greeting") = {"220"} /\ Right("user") = {"331", "230", "530"}
        /\ Right("pass") = {"230", "530"} /\ Right("pwd") = {"257"} /\ Right("quit") = {"221"}
    BY DEF Right, Codes
  <2>2. /\ <<"quit", "221">> \in GoodEnds /\ <<"user", "530">> \in GoodEnds
        /\ <<"pass", "530">> \in GoodEnds
    BY DEF GoodEnds, LoginRefused
  <2>3. /\ <<"greeting", "220", "user">> \in Moves /\ <<"user", "331", "pass">> \in Moves
        /\ <<"user", "230", "pwd">> \in Moves /\ <<"pass", "230", "pwd">> \in Moves
        /\ <<"pwd", "257", "quit">> \in Moves
    BY DEF Moves, FtpMoves
  <2>4. \A s, c, n : <<s, c, n>> \in Moves => \E x \in Moves : x[1] = s /\ x[2] = c
    OBVIOUS
  <2> QED
    BY <2>1, <2>2, <2>3, <2>4 DEF FtpSteps
<1>5. \A c \in Right("request") : <<"request", c>> \in GoodEnds
  <2>1. Right("request") = {"2xx", "auth"}
    BY DEF Right, Codes
  <2> QED
    BY <2>1 DEF GoodEnds, HttpEnds
<1> QED
  BY <1>1, <1>2, <1>3, <1>4, <1>5 DEF Moves

(* A right reply, judged when it is whole, is answered or accepted. *)
LEMMA JudgeGood ==
  ASSUME Holds, Holds', pc = "op", want = "recv", NEW items, Judge(items), UNCHANGED run,
         UNCHANGED honest,
         honest =>
           \/ /\ kind = "dma" /\ step # "doomed" /\ CodeOf(items) = "ok" /\ peer' = "open"
              /\ IF step = "identify" THEN Rest("title", "ok", 2, <<>>, wire') ELSE wire' = <<>>
           \/ /\ kind = "ftp" /\ CodeOf(items) \in Right(step) /\ wire' = <<>>
              /\ peer' = "open" \/ (step = "quit" /\ peer' = "closed")
           \/ kind = "http" /\ CodeOf(items) \in Right("request")
  PROVE  GoodFits'
<1> DEFINE m == {x \in Moves : x[1] = step /\ x[2] = CodeOf(items)}
<1>0. SUFFICES ASSUME honest' PROVE GoodFits'
  BY DEF GoodFits
<1>1. /\ kind = "dma" => step \in DmaSteps
      /\ kind = "ftp" => step \in FtpSteps
      /\ kind = "http" => step = "request"
      /\ got' = <<>> /\ UNCHANGED kind
  BY StepsOfExchanges DEF Holds, PlacesFit, Judge, run
<1>2. CASE m # {}
  <2>1. PICK x \in m : step' = x[3]
    BY <1>2 DEF Judge
  <2>2. pc' = "wait" /\ want' = IF step' = "title" THEN "recv" ELSE "send"
    BY <1>2 DEF Judge
  <2>3. x \in Moves /\ x[1] = step /\ x[2] = CodeOf(items)
    BY <2>1
  <2> HIDE DEF m
  <2>4. kind # "http"
    BY <1>1, <2>3, RightMoves
  <2>5. CASE kind = "dma"
    <3>1. step' \in DmaSteps \ {"doomed"} /\ (step' = "title" <=> step = "identify")
      BY <1>0, <1>1, <2>1, <2>3, <2>5, RightMoves
    <3>2. step' = "title" => Due(step', got', wire')
      BY <1>0, <1>1, <2>5, <3>1 DEF Due, FtpSteps, Needs
    <3>3. step' # "title" => wire' = <<>>
      BY <1>0, <2>5, <3>1
    <3>4. peer' = "open"
      BY <1>0, <2>5
    <3> QED
      BY <1>1, <2>2, <2>5, <3>1, <3>2, <3>3, <3>4 DEF GoodFits, GoodPeerIsOK, Unconnected
  <2>6. CASE kind = "ftp"
    <3>1. step' \in FtpSteps \ {"greeting"} /\ step # "quit"
      BY <1>1, <2>1, <2>3, <2>6, RightMoves
    <3>2. wire' = <<>> /\ peer' = "open" /\ want' = "send" /\ step' # "doomed"
      BY <1>0, <2>2, <2>6, <3>1 DEF FtpSteps
    <3> QED
      BY <1>1, <2>2, <2>6, <3>2 DEF GoodFits, GoodPeerIsOK, Unconnected
  <2> QED
    BY <1>0, <2>4, <2>5, <2>6
<1>3. CASE m = {}
  <2>1. ~\E x \in Moves : x[1] = step /\ x[2] = CodeOf(items)
    BY <1>3
  <2> HIDE DEF m
  <2>2. <<step, CodeOf(items)>> \in GoodEnds
    BY <1>0, <1>1, <2>1, RightMoves
  <2>3. Finish("OK", "ok")
    BY <1>3, <2>2 DEF Judge, m
  <2> QED
    BY <2>3, GoodDone DEF Finish
<1> QED
  BY <1>2, <1>3

LEMMA HeadIsFirst ==
  ASSUME NEW x \in Seq(Items), Len(x) > 0
  PROVE  x # <<>> /\ Head(x) = x[1]
OBVIOUS

(* What was read of a right reply is a part of it, or all and right. *)
ReadRightly(items, left) ==
  /\ ~Complete(items) => Due(step, items, left)
  /\ Complete(items) =>
       \/ /\ kind = "dma" /\ CodeOf(items) = "ok"
          /\ IF step = "identify" THEN Rest("title", "ok", 2, <<>>, left) ELSE left = <<>>
       \/ kind = "ftp" /\ CodeOf(items) \in Right(step) /\ left = <<>>

(* A read of a right reply leaves the rest of it, or completes it. *)
LEMMA DueIsRead ==
  ASSUME Holds, pc = "op", want = "recv", step # "doomed", Due(step, got, wire),
         NEW n \in 1..Least(Len(wire), Asks),
         NEW items, items = got \o SubSeq(wire, 1, n),
         NEW left, left = SubSeq(wire, n + 1, Len(wire))
  PROVE  ReadRightly(items, left)
<1> USE DEF ReadRightly
<1>1. /\ kind \in Exchanges
      /\ kind = "dma" => step \in DmaSteps
      /\ kind = "ftp" => step \in FtpSteps
      /\ kind = "http" => step = "request"
  BY StepsOfExchanges DEF Holds, PlacesFit
<1>2. n \in 1..Len(wire) /\ (kind = "dma" => n <= Needs[step] - Len(got))
  BY ReadFits
<1>3. got \in Seq(Items) /\ wire \in Seq(Items)
  BY DEF Holds, TypeOK
<1>4. CASE kind = "dma" /\ step = "identify"
  <2>1. got = <<>> /\ Len(wire) = 3 /\ wire[1].code = "ok" /\ Rest("title", "ok", 2, <<>>, SubSeq(wire, 2, 3))
    BY <1>4 DEF Due
  <2>2. n = 1
    BY <1>2, <1>4, <2>1 DEF Needs
  <2>3. left = SubSeq(wire, 2, 3)
    BY <2>1, <2>2
  <2>4. items = SubSeq(wire, 1, 1)
    <3>1. SubSeq(wire, 1, n) \in Seq(Items)
      BY ReadFits
    <3> QED
      BY <2>1, <2>2, <3>1, ConcatEmptySeq
  <2>5. items \in Seq(Items) /\ Len(items) = 1 /\ items[1] = wire[1]
    <3>1. 1 \in Int /\ \A i \in 1..1 : wire[i] \in Items
      BY <1>3, <2>1, ElementOfSeq
    <3>2. /\ SubSeq(wire, 1, 1) \in Seq(Items) /\ Len(SubSeq(wire, 1, 1)) = 1 - 1 + 1
          /\ \A i \in 1..1 - 1 + 1 : SubSeq(wire, 1, 1)[i] = wire[1 + i - 1]
      BY <3>1, SubSeqProperties
    <3>3. 1 \in 1..1 - 1 + 1 /\ 1 + 1 - 1 = 1 /\ 1 - 1 + 1 = 1
      OBVIOUS
    <3>4. SubSeq(wire, 1, 1)[1] = wire[1] /\ Len(SubSeq(wire, 1, 1)) = 1
      BY <3>2, <3>3
    <3> QED
      BY <2>4, <3>2, <3>4
  <2>6. CodeOf(items) = "ok"
    <3>1. items # <<>> /\ Head(items) = items[1]
      BY ONLY <2>5, HeadIsFirst
    <3> QED
      BY <2>1, <2>5, <3>1 DEF CodeOf
  <2>7. Complete(items)
    BY <1>4, <2>5 DEF Complete, Needs
  <2> QED
    BY <1>4, <2>1, <2>3, <2>6, <2>7
<1>5. CASE kind = "dma" /\ step # "identify"
  <2>1. Rest(step, "ok", Needs[step], got, wire)
    BY <1>1, <1>5 DEF Due
  <2>2. /\ Rest(step, "ok", Needs[step], items, left) /\ items \in Seq(Items)
        /\ Len(items) \in 1..Needs[step] /\ left \in Seq(Items)
    BY <1>2, <1>3, <2>1, RestIsRead, ReadFits
  <2>3. CodeOf(items) = "ok" /\ (Len(items) = Needs[step] => left = <<>>)
    <3>1. Len(items) > 0
      BY <2>1, <2>2, <1>2, <1>3, RestIsRead
    <3> QED
      BY ONLY <2>2, <3>1, RestIsWhole
  <2>4. Complete(items) <=> Len(items) = Needs[step]
    BY <1>5 DEF Complete
  <2>5. Due(step, items, left)
    BY <1>1, <1>5, <2>2 DEF Due, DmaSteps, FtpSteps
  <2> QED
    BY <1>5, <2>3, <2>4, <2>5
<1>6. CASE kind = "ftp"
  <2>1. PICK c \in Right(step), k \in {1, 2} : Rest(step, c, k, got, wire) /\ Len(got) < k
    BY <1>1, <1>6 DEF Due
  <2>2. /\ Rest(step, c, k, items, left) /\ items \in Seq(Items)
        /\ Len(items) \in 1..k /\ left \in Seq(Items)
    BY <1>2, <1>3, <2>1, RestIsRead, ReadFits
  <2>3. /\ CodeOf(items) = c
        /\ Len(items) = k => left = <<>> /\ items[Len(items)].eol
        /\ Len(items) # k => ~items[Len(items)].eol
    <3>1. Len(items) > 0
      BY <2>2
    <3> QED
      BY ONLY <2>2, <3>1, RestIsWhole
  <2>4. Complete(items) <=> items[Len(items)].eol
    BY <1>6 DEF Complete
  <2>5. Len(items) # k => Len(items) < k
    BY <2>1, <2>2
  <2>6. Len(items) # k => Due(step, items, left)
    BY <1>1, <1>6, <2>1, <2>2, <2>5 DEF Due, DmaSteps, FtpSteps
  <2> QED
    BY <1>6, <2>1, <2>3, <2>4, <2>6
<1>7. CASE kind = "http"
  <2>1. PICK c \in Right(step) : Rest(step, c, 2, got, wire)
    BY <1>1, <1>7 DEF Due
  <2>2. Rest(step, c, 2, items, left)
    BY <1>2, <1>3, <2>1, RestIsRead
  <2>3. ~Complete(items)
    BY <1>7 DEF Complete
  <2> QED
    BY <1>1, <1>7, <2>2, <2>3 DEF Due, DmaSteps, FtpSteps
<1> QED
  BY <1>1, <1>4, <1>5, <1>6, <1>7 DEF Exchanges

(* What an honest peer has left when a probe reads. *)
LEMMA HonestReading ==
  ASSUME Holds, GoodFits, honest, pc = "op", want = "recv"
  PROVE  /\ step # "doomed" /\ Due(step, got, wire) /\ peer # "reset"
         /\ peer = "closed" => step \in {"request", "quit"}
         /\ kind = "http" /\ got # <<>> => CodeOf(got) \in Right("request")
<1>1. kind \in Exchanges /\ (kind = "http" => step = "request")
  BY StepsOfExchanges DEF Holds, PlacesFit
<1>2. /\ step # "doomed" /\ Due(step, got, wire) /\ peer # "reset"
      /\ peer = "closed" => step \in {"request", "quit"}
  BY <1>1 DEF GoodFits
<1>3. ASSUME kind = "http", got # <<>> PROVE CodeOf(got) \in Right("request")
  <2>1. PICK c \in Right("request") : Rest("request", c, 2, got, wire)
    BY <1>1, <1>2, <1>3 DEF Due
  <2>2. got \in Seq(Items) /\ wire \in Seq(Items) /\ Len(got) > 0
    BY <1>3 DEF Holds, TypeOK
  <2> QED
    BY <2>1, <2>2, RestIsWhole
<1> QED
  BY <1>2, <1>3

LEMMA RaiseReadingGood ==
  ASSUME Holds, Holds', GoodFits, pc = "op", want = "recv", NEW w, RaiseReading(w),
         UNCHANGED run, UNCHANGED net,
         honest => w = "timeout" \/ (HttpClient /\ got # <<>>)
  PROVE  GoodFits'
<1>0. UNCHANGED <<wire, peer, reached, honest>>
  BY DEF net
<1>1. CASE HttpClient /\ got # <<>>
  <2>1. Judge(got) /\ kind = "http"
    BY <1>1 DEF RaiseReading, HttpClient
  <2>2. honest => CodeOf(got) \in Right("request")
    BY <1>1, <2>1, HonestReading
  <2> QED
    BY <1>0, <2>1, <2>2, JudgeGood
<1>2. CASE ~(HttpClient /\ got # <<>>)
  <2>1. pc' = "done" /\ why' = w
    BY <1>2, FinishDone, FinishWhy, RaiseDone, RaiseWhy DEF RaiseReading
  <2> QED
    BY <1>0, <1>2, <2>1, GoodDone
<1> QED
  BY <1>1, <1>2

LEMMA ReceiveGood ==
  ASSUME Holds, Holds', GoodFits, Receive
  PROVE  GoodFits'
<1>0. /\ pc = "op" /\ want = "recv" /\ UNCHANGED run /\ kind \in Exchanges
      /\ kind = "dma" => step \in DmaSteps
      /\ kind = "ftp" => step \in FtpSteps
      /\ kind = "http" => step = "request"
  BY StepsOfExchanges DEF Receive, Holds, PlacesFit
<1>1. CASE \E n \in 1..Least(Len(wire), Asks) :
             /\ wire' = SubSeq(wire, n + 1, Len(wire))
             /\ UNCHANGED <<peer, reached, honest>>
             /\ \/ Complete(got \o SubSeq(wire, 1, n)) /\ Judge(got \o SubSeq(wire, 1, n))
                \/ /\ ~Complete(got \o SubSeq(wire, 1, n))
                   /\ got' = got \o SubSeq(wire, 1, n) /\ pc' = "wait"
                   /\ UNCHANGED <<want, step, sock, status, why>>
  <2>1. PICK n \in 1..Least(Len(wire), Asks) :
             /\ wire' = SubSeq(wire, n + 1, Len(wire))
             /\ UNCHANGED <<peer, reached, honest>>
             /\ \/ Complete(got \o SubSeq(wire, 1, n)) /\ Judge(got \o SubSeq(wire, 1, n))
                \/ /\ ~Complete(got \o SubSeq(wire, 1, n))
                   /\ got' = got \o SubSeq(wire, 1, n) /\ pc' = "wait"
                   /\ UNCHANGED <<want, step, sock, status, why>>
    BY <1>1
  <2>2. PICK items : items = got \o SubSeq(wire, 1, n)
    OBVIOUS
  <2>3. honest => /\ ~Complete(items) => Due(step, items, wire')
                  /\ Complete(items) =>
                       \/ /\ kind = "dma" /\ CodeOf(items) = "ok"
                          /\ IF step = "identify" THEN Rest("title", "ok", 2, <<>>, wire')
                             ELSE wire' = <<>>
                       \/ kind = "ftp" /\ CodeOf(items) \in Right(step) /\ wire' = <<>>
    <3> SUFFICES ASSUME honest
                 PROVE  /\ ~Complete(items) => Due(step, items, wire')
                        /\ Complete(items) =>
                             \/ /\ kind = "dma" /\ CodeOf(items) = "ok"
                                /\ IF step = "identify" THEN Rest("title", "ok", 2, <<>>, wire')
                                   ELSE wire' = <<>>
                             \/ kind = "ftp" /\ CodeOf(items) \in Right(step) /\ wire' = <<>>
      OBVIOUS
    <3>1. step # "doomed" /\ Due(step, got, wire)
      BY <1>0, HonestReading
    <3>2. PICK left : left = wire'
      OBVIOUS
    <3>3. left = SubSeq(wire, n + 1, Len(wire))
      BY <2>1, <3>2
    <3>4. ReadRightly(items, left)
      <4>1. /\ Holds /\ pc = "op" /\ want = "recv"
            /\ n \in 1..Least(Len(wire), Asks)
        BY <1>0
      <4> QED
        BY ONLY <4>1, <2>2, <3>1, <3>3, DueIsRead
    <3> QED
      BY <3>2, <3>4 DEF ReadRightly
  <2>4. honest => /\ step # "doomed" /\ peer' # "reset"
                  /\ peer' = "closed" => step \in {"request", "quit"}
    BY <1>0, <2>1, HonestReading
  <2>5. peer' \in {"open", "closed", "reset"}
    BY DEF Holds, TypeOK
  <2>6. CASE Complete(items) /\ Judge(items)
    <3>1. ASSUME honest, kind = "dma" PROVE peer' = "open"
      BY <1>0, <2>4, <2>5, <3>1 DEF DmaSteps
    <3>2. ASSUME honest, kind = "ftp" PROVE peer' = "open" \/ (step = "quit" /\ peer' = "closed")
      BY <1>0, <2>4, <2>5, <3>2 DEF FtpSteps
    <3> QED
      BY <1>0, <2>1, <2>3, <2>4, <2>6, <3>1, <3>2, JudgeGood
  <2>7. CASE ~Complete(items) /\ got' = items /\ pc' = "wait" /\ UNCHANGED <<want, step>>
    <3>1. honest' => Due(step', got', wire')
      BY <2>1, <2>3, <2>7
    <3>2. UNCHANGED kind
      BY <1>0 DEF run
    <3> QED
      BY <1>0, <2>1, <2>4, <2>7, <3>1, <3>2 DEF GoodFits, GoodPeerIsOK, Unconnected, Exchanges
  <2> QED
    BY <2>1, <2>2, <2>6, <2>7
<1>2. CASE /\ wire = <<>> /\ peer = "closed" /\ UNCHANGED net
           /\ \/ kind = "dma" /\ Raise("bad")
              \/ HttpClient /\ got = <<>> /\ RaiseReading("reset")
              \/ ~(HttpClient /\ got = <<>>) /\ kind # "dma" /\ Judge(got)
  <2>0. UNCHANGED <<wire, peer, reached, honest>> /\ UNCHANGED kind
    BY <1>0, <1>2 DEF net, run
  <2>1. CASE ~honest
    BY <2>0, <2>1 DEF GoodFits
  <2>2. CASE honest
    <3>1. step \in {"request", "quit"} /\ Due(step, got, wire)
      BY <1>0, <1>2, <2>2, HonestReading
    <3>2. Len(<<>>) = 0 /\ got \in Seq(Items) /\ Len(got) \in Nat
      BY DEF Holds, TypeOK
    <3>3. kind = "http"
      <4>1. kind # "dma"
        BY <1>0, <3>1 DEF DmaSteps
      <4>2. ASSUME kind = "ftp" PROVE FALSE
        <5>1. PICK c \in Right(step), k \in {1, 2} : Rest(step, c, k, got, wire) /\ Len(got) < k
          BY <1>0, <3>1, <4>2 DEF Due
        <5>2. Len(got) = k
          BY <1>2, <3>2, <5>1 DEF Rest
        <5> QED
          BY <5>1, <5>2
      <4> QED
        BY <1>0, <4>1, <4>2 DEF Exchanges
    <3>4. got # <<>>
      <4>1. PICK c \in Right(step) : Rest(step, c, 2, got, wire)
        BY <1>0, <3>1, <3>3 DEF Due
      <4> QED
        BY <1>2, <3>2, <4>1 DEF Rest
    <3>5. Judge(got) /\ CodeOf(got) \in Right("request")
      BY <1>0, <1>2, <2>2, <3>3, <3>4, HonestReading
    <3> QED
      BY <1>0, <2>0, <3>3, <3>5, JudgeGood
  <2> QED
    BY <2>1, <2>2 DEF Holds, TypeOK
<1>3. CASE pc' = "wait" /\ UNCHANGED <<want, step, got, sock, status, why>> /\ UNCHANGED net
  BY <1>0, <1>3, GoodWaits DEF net
<1>4. CASE /\ UNCHANGED net
           /\ \E w : RaiseReading(w) /\ (w = "timeout" \/ (w = "reset" /\ peer = "reset"))
  BY <1>0, <1>4, RaiseReadingGood, HonestReading
<1> QED
  <2>1. HttpClient => kind # "dma"
    BY DEF HttpClient
  <2> QED
    BY <1>1, <1>2, <1>3, <1>4, <2>1 DEF Receive

LEMMA SendGood ==
  ASSUME ~MultiLine, Holds, Holds', GoodFits, Send
  PROVE  GoodFits'
<1>0. /\ pc = "op" /\ want = "send" /\ UNCHANGED run /\ UNCHANGED got /\ kind \in Exchanges
      /\ kind = "dma" => step \in DmaSteps /\ step # "title"
      /\ kind = "ftp" => step \in FtpSteps
      /\ kind = "http" => step = "request"
      /\ step \in Asked
  BY StepsOfExchanges DEF Send, Holds, PlacesFit
<1>1. honest => step # "doomed" /\ got = <<>> /\ wire = <<>> /\ peer = "open"
  BY <1>0 DEF GoodFits
<1>2. CASE pc' = "wait" /\ want' = "recv" /\ Answers(step) /\ UNCHANGED step
  <2>1. ASSUME honest'
        PROVE  /\ step # "doomed" /\ Due(step, got', wire') /\ peer' # "reset"
               /\ peer' = "closed" => step \in {"request", "quit"}
    <3>1. honest
      BY <1>2, <2>1 DEF Answers, Holds, TypeOK
    <3>2. /\ Due(step, <<>>, wire') /\ peer' # "reset"
          /\ peer' = "closed" => step \in {"request", "quit"}
      <4>1. \/ kind = "dma" /\ step \in DmaSteps
            \/ kind = "ftp" /\ step \in FtpSteps
            \/ kind = "http" /\ step = "request"
        BY <1>0 DEF Exchanges
      <4>2. step \in Asked \ {"doomed"} /\ peer = "open" /\ wire = <<>> /\ Answers(step)
        BY <1>0, <1>1, <1>2, <3>1
      <4> QED
        BY <2>1, <4>1, <4>2, RightAnswers
    <3> QED
      BY <1>0, <1>1, <3>1, <3>2
  <2>2. UNCHANGED kind
    BY <1>0 DEF run
  <2> QED
    BY <1>0, <1>2, <2>1, <2>2 DEF GoodFits, GoodPeerIsOK, Unconnected, Exchanges
<1>3. CASE pc' = "wait" /\ UNCHANGED <<want, step, sock, status, why, net>>
  BY <1>0, <1>3, GoodWaits DEF net
<1>4. CASE \E w : /\ Raise(w) /\ UNCHANGED net /\ w \in {"reset", "timeout"}
                  /\ w = "reset" => peer # "open"
  BY <1>1, <1>4, GoodDone, RaiseDone, RaiseWhy DEF net
<1> QED
  BY <1>2, <1>3, <1>4 DEF Send

LEMMA DatagramGood ==
  ASSUME Holds, Holds', GoodFits, ReceiveDatagram
  PROVE  GoodFits'
<1>0. /\ pc = "op" /\ want = "datagram" /\ UNCHANGED run /\ UNCHANGED <<want, step, got>>
      /\ kind \in Datagrams /\ UNCHANGED kind
  BY DatagramsAreSent DEF ReceiveDatagram, run
<1>1. CASE kind = "ident" /\ wire # <<>> /\ IdentJudges(Head(wire)) /\ UNCHANGED honest
  <2>1. honest => wire[1].code = "ok"
    BY <1>0, <1>1 DEF GoodFits
  <2>2. Head(wire) = wire[1]
    BY <1>1 DEF Holds, TypeOK
  <2>3. pc' = "done" /\ (honest' => status' = "OK")
    BY <1>1, <2>1, <2>2 DEF IdentJudges, Finish
  <2> QED
    BY <2>3, GoodDone
<1>2. CASE kind = "ping" /\ PingJudges(Head(wire))
  <2>1. \/ pc' = "done" /\ status' = "OK"
        \/ pc' = "wait"
    BY <1>2 DEF PingJudges, Finish
  <2>2. CASE pc' = "wait"
    BY <1>0, <1>2, <2>2 DEF GoodFits, GoodPeerIsOK, Unconnected, Exchanges
  <2> QED
    BY <2>1, <2>2, GoodDone
<1>3. CASE pc' = "wait" /\ UNCHANGED <<sock, status, why, net>>
  BY <1>0, <1>3, GoodWaits DEF net
<1>4. CASE pc' = "done" /\ honest' = FALSE
  BY <1>4, GoodDone
<1> QED
  BY <1>0, <1>1, <1>2, <1>3, <1>4, RaiseDone DEF ReceiveDatagram, Datagrams

LEMMA TelnetGood ==
  ASSUME Holds, Holds', GoodFits, Telnet
  PROVE  GoodFits'
<1>0. pc = "telnet" /\ kind = "telnet" /\ UNCHANGED kind /\ (honest => ~tel.marker)
  <2>1. pc = "telnet" /\ UNCHANGED run
    <3>1. CASE TelnetStops \/ TelnetOutOfBudget
      BY <3>1 DEF TelnetStops, TelnetOutOfBudget
    <3>2. CASE TelnetQuiet \/ TelnetCloses
      BY <3>2 DEF TelnetQuiet, TelnetCloses, ReadsChunk
    <3>3. CASE TelnetChunk
      BY <3>3 DEF TelnetChunk
    <3>4. CASE TelnetReplyFails
      BY <3>4 DEF TelnetReplyFails
    <3> QED
      BY <3>1, <3>2, <3>3, <3>4 DEF Telnet
  <2> QED
    BY <2>1 DEF Holds, PlacesFit, GoodFits, run
<1>1. \A t, w : EndSession(t, w) /\ (honest' => ~t.marker) => GoodFits'
  <2> SUFFICES ASSUME NEW t, NEW w, EndSession(t, w), honest' => ~t.marker PROVE GoodFits'
    OBVIOUS
  <2>1. pc' = "done" /\ tel' = t /\ status' = SessionStatus(t)
    BY DEF EndSession, Finish
  <2>2. honest' /\ t.text > 0 => status' = "OK"
    BY <2>1 DEF SessionStatus
  <2> QED
    BY <1>0, <2>1, <2>2, GoodDone
<1>2. CASE TelnetStops
  BY <1>0, <1>1, <1>2 DEF TelnetStops, net
<1>3. CASE TelnetOutOfBudget
  BY <1>3, GoodDone, RaiseDone, RaiseWhy DEF TelnetOutOfBudget
<1>4. ASSUME pc' = "telnet", honest' => ~tel'.marker PROVE GoodFits'
  BY <1>0, <1>4 DEF GoodFits, GoodPeerIsOK, Unconnected, Exchanges
<1>5. CASE TelnetQuiet
  <2>1. UNCHANGED honest /\ (EndSession(tel, "idle") \/ UNCHANGED <<pc, tel>>)
    BY <1>5 DEF TelnetQuiet, net
  <2> QED
    BY <1>0, <1>1, <1>4, <2>1
<1>6. CASE TelnetCloses
  <2>1. (honest' => honest) /\ EndSession(tel, peer')
    BY <1>6 DEF TelnetCloses, Holds, TypeOK
  <2> QED
    BY <1>0, <1>1, <2>1
<1>7. CASE TelnetChunk
  <2>1. PICK n \in 0..MaxIac, see \in Sights, d \in Nat :
           \/ Raise("budget")
           \/ /\ honest' = (honest /\ see # "marker")
              /\ \/ EndSession(AfterChunk(n, see), see)
                 \/ tel' = AfterChunk(n, see) /\ UNCHANGED pc
    BY <1>7, ChunkFits
  <2>2. AfterChunk(n, see).marker = (see = "marker")
    BY DEF AfterChunk, Holds, TypeOK
  <2>3. CASE Raise("budget")
    BY <2>3, GoodDone, RaiseDone, RaiseWhy
  <2>4. CASE /\ honest' = (honest /\ see # "marker")
             /\ EndSession(AfterChunk(n, see), see)
    BY <1>1, <2>2, <2>4
  <2>5. CASE /\ honest' = (honest /\ see # "marker")
             /\ tel' = AfterChunk(n, see) /\ UNCHANGED pc
    BY <1>0, <1>4, <2>2, <2>5
  <2> QED
    BY <2>1, <2>3, <2>4, <2>5
<1>8. CASE TelnetReplyFails
  BY <1>1, <1>8 DEF TelnetReplyFails
<1> QED
  BY <1>2, <1>3, <1>5, <1>6, <1>7, <1>8 DEF Telnet

LEMMA StutterGood == GoodFits /\ UNCHANGED vars => GoodFits'
<1> SUFFICES ASSUME GoodFits, UNCHANGED vars PROVE GoodFits'
  OBVIOUS
<1>1. /\ UNCHANGED <<kind, pc, want, step, got, tel, status, why, wire, peer, reached, honest>>
  BY DEF vars, run, net
<1>2. Due(step', got', wire') = Due(step, got, wire)
  BY <1>1
<1> QED
  BY <1>1, <1>2 DEF GoodFits, GoodPeerIsOK, Unconnected

LEMMA StepGood == ~MultiLine /\ Holds /\ Holds' /\ ReachFits /\ GoodFits /\ [Next]_vars => GoodFits'
BY ConnectingGood, ResolveGood, WaitingGood, SendGood, ReceiveGood, DatagramGood, TelnetGood,
   StutterGood
DEF Next, Probe

(* A peer that answers every command rightly is reported OK unless the     *)
(* probe ran out of time or of socket operations: however TCP cuts its     *)
(* replies, they are read to their end and each is taken for the answer to *)
(* its own command (_dma_recv_exact, _ftp_read_response,                   *)
(* _recv_until_closed).  The hypothesis leaves out FTP replies of several  *)
(* lines, with which the code breaks the promise.                          *)
THEOREM GoodPeersAreOK ==
  ASSUME ~MultiLine
  PROVE  Spec => []GoodPeerIsOK
<1>1. Init => GoodFits
  BY DEF Init, GoodFits, GoodPeerIsOK, Unconnected
<1>2. Init => ReachFits
  BY DEF Init, ReachFits, OutageMeansUnreached
<1>3. Holds /\ Holds' /\ ReachFits /\ GoodFits /\ [Next]_vars => ReachFits' /\ GoodFits'
  BY StepReach, StepGood
<1>4. Spec => [](ReachFits /\ GoodFits)
  BY <1>1, <1>2, <1>3, AlwaysHolds, PTL DEF Spec
<1>5. GoodFits => GoodPeerIsOK
  BY DEF GoodFits, GoodPeerIsOK
<1> QED
  BY <1>4, <1>5, PTL

=============================================================================
