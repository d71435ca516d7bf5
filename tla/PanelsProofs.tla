----------------------------- MODULE PanelsProofs ------------------------------
(***************************************************************************)
(* From a frame to the glass, for every size of panel, byte and font, any  *)
(* checks and any frame of them; MaxDraws only bounds the runs.            *)
(*                                                                         *)
(* In this order: what the drivers send for a frame (sequences made of     *)
(* sequences); the watchdog; that a surface keeps a picture and the bus    *)
(* raises without a cause only; what a controller holds after a transfer   *)
(* of each driver; the painting of rows, marks and logo, pixel by pixel;   *)
(* the frames of every mode; the inductive invariant of a draw on its way; *)
(* and where a failing check stands in the picture.                        *)
(***************************************************************************)
EXTENDS Panels, NaturalsInduction, WellFoundedInduction, FiniteSetTheorems, TLAPS

-----------------------------------------------------------------------------
(* The panels: sequences made of sequences.                                *)

LEMMA FirstOf ==
  ASSUME NEW T \in SUBSET Nat, T # {}
  PROVE  \E n \in T : \A m \in T : n <= m
<1>1. IsWellFoundedOn(OpToRel(<, Nat), Nat)
  BY NatLessThanWellFounded
<1>2. PICK n \in T : \A m \in T : ~(<<m, n>> \in OpToRel(<, Nat))
  BY <1>1, WFMin
<1>3. \A m \in T : ~(m < n)
  BY <1>2 DEF OpToRel
<1> QED
  BY <1>3

(* The joins of the first n parts and of fewer.                            *)
IsJoin(f, n, seqs) ==
  f = [i \in 1 .. n |-> IF i = 1 THEN seqs[i] ELSE f[i - 1] \o seqs[i]]

LEMMA JoinExists ==
  ASSUME NEW seqs, NEW n \in Nat
  PROVE  \E f : IsJoin(f, n, seqs)
<1> DEFINE T == {m \in Nat : ~ \E f : IsJoin(f, m, seqs)}
<1>1. ASSUME NEW m \in T, \A k \in T : m <= k PROVE FALSE
  <2>1. CASE m = 0
    <3>1. IsJoin([i \in 1 .. 0 |-> <<>>], 0, seqs)
      BY DEF IsJoin
    <3> QED
      BY <2>1, <3>1
  <2>2. CASE m # 0
    <3>1. m - 1 \in Nat /\ ~ (m <= m - 1)
      BY <2>2
    <3>2. PICK h : IsJoin(h, m - 1, seqs)
      BY <1>1, <3>1
    <3> DEFINE g == [i \in 1 .. m |-> IF i = m THEN IF m = 1 THEN seqs[m] ELSE h[m - 1] \o seqs[m] ELSE h[i]]
    <3>3. \A i \in 1 .. m : g[i] = IF i = 1 THEN seqs[i] ELSE g[i - 1] \o seqs[i]
      <4> SUFFICES ASSUME NEW i \in 1 .. m
                   PROVE  g[i] = IF i = 1 THEN seqs[i] ELSE g[i - 1] \o seqs[i]
        OBVIOUS
      <4>1. CASE i = m
        <5>1. m # 1 => m - 1 \in 1 .. m /\ m - 1 # m
          BY <2>2
        <5>2. m # 1 => g[m - 1] = h[m - 1]
          BY <5>1
        <5> QED
          BY <4>1, <5>2
      <4>2. CASE i # m
        <5>1. i \in 1 .. m - 1
          BY <4>2
        <5>2. g[i] = h[i] /\ h[i] = IF i = 1 THEN seqs[i] ELSE h[i - 1] \o seqs[i]
          BY <3>2, <4>2, <5>1 DEF IsJoin
        <5>3. i # 1 => i - 1 \in 1 .. m /\ i - 1 # m
          BY <5>1
        <5>4. i # 1 => g[i - 1] = h[i - 1]
          BY <5>3
        <5> QED
          BY <5>2, <5>4
      <4> QED
        BY <4>1, <4>2
    <3> HIDE DEF g
    <3>4. g = [i \in 1 .. m |-> g[i]]
      BY DEF g
    <3>5. IsJoin(g, m, seqs)
      BY <3>3, <3>4 DEF IsJoin
    <3> QED
      BY <3>5
  <2> QED
    BY <2>1, <2>2
<1>2. T = {}
  BY <1>1, FirstOf
<1> QED
  BY <1>2

LEMMA Flat ==
  ASSUME NEW S, NEW seqs \in Seq(Seq(S))
  PROVE  FlattenSeq(seqs) \in Seq(S)
<1> DEFINE n == Len(seqs)
<1>1. n \in Nat /\ \A i \in 1 .. n : seqs[i] \in Seq(S)
  OBVIOUS
<1>2. CASE n = 0
  <2>1. seqs = <<>>
    BY <1>2
  <2>2. FlattenSeq(seqs) = seqs
    BY <1>2 DEF FlattenSeq
  <2>3. <<>> \in Seq(S)
    OBVIOUS
  <2> QED
    BY <2>1, <2>2, <2>3
<1>3. CASE n # 0
  <2>1. PICK f : IsJoin(f, n, seqs) /\ FlattenSeq(seqs) = f[n]
    <3> DEFINE g == CHOOSE f : IsJoin(f, n, seqs)
    <3>1. IsJoin(g, n, seqs)
      BY <1>1, JoinExists
    <3>2. FlattenSeq(seqs) = g[n]
      BY <1>3 DEF FlattenSeq, IsJoin
    <3> QED
      BY <3>1, <3>2
  <2> HIDE DEF n
  <2>2. \A i \in 1 .. n : f[i] = IF i = 1 THEN seqs[i] ELSE f[i - 1] \o seqs[i]
    BY <2>1 DEF IsJoin
  <2> DEFINE T == {i \in 1 .. n : f[i] \notin Seq(S)}
  <2>3. ASSUME NEW i \in T, \A j \in T : i <= j PROVE FALSE
    <3>1. CASE i = 1
      BY <1>1, <2>2, <2>3, <3>1
    <3>2. CASE i # 1
      <4>1. i - 1 \in 1 .. n /\ ~ (i <= i - 1)
        BY <1>1, <3>2
      <4>2. f[i - 1] \in Seq(S) /\ seqs[i] \in Seq(S)
        BY <1>1, <2>3, <4>1
      <4>3. f[i] = f[i - 1] \o seqs[i]
        BY <2>2, <3>2
      <4>4. f[i - 1] \o seqs[i] \in Seq(S)
        BY <4>2
      <4> QED
        BY <2>3, <4>3, <4>4
    <3> QED
      BY <3>1, <3>2
  <2>4. T \in SUBSET Nat
    BY <1>1
  <2>5. T = {}
    <3> HIDE DEF T
    <3> QED
      BY <2>3, <2>4, FirstOf
  <2> QED
    BY <1>1, <1>3, <2>1, <2>5
<1> QED
  BY <1>2, <1>3

-----------------------------------------------------------------------------
(* The watchdog and the 2.13-inch driver: only the last of what it does    *)
(* pauses.                                                                 *)

PausesLast(s) ==
  \A i \in DOMAIN s : s[i].op = "pause" => i = Len(s) /\ s[i].slices \in 0 .. Watchdog

LEMMA SettingsOfPanels ==
  /\ SleepT \in Nat /\ Watchdog \in Nat /\ SleepT <= Watchdog
  /\ Width \in Nat \ {0} /\ Bits \in Nat \ {0} /\ Width % Bits = 0
  /\ \A k \in Kinds : HeightOf[k] \in Nat \ {0}
BY PanelsAssumption

(* What a landscape draw does before its last pause.                       *)
Steps(canvas) ==
  LET bytes(plane) == {Data(Slice(Buffer(canvas, plane), (Pages - k) * Width, Width)) : k \in 1 .. Pages}
  IN  {Op(name) : name \in {"reset", "wait", "feed", "refresh", "sleep"}}
      \cup {Order("b"), Window(0, Pages - 1, 0, Width - 1), At(0, 0), Plane("black"), Plane("accent")}
      \cup bytes("black") \cup bytes("accent")

LEMMA StepsDoNotPause == ASSUME NEW canvas, NEW o \in Steps(canvas) PROVE o.op # "pause"
BY DEF Steps, Op, Order, Window, At, Plane, Data

LEMMA LandscapePauses ==
  ASSUME NEW canvas, Pages \in Nat
  PROVE  /\ LandscapeOps(canvas) \in Seq(Steps(canvas) \cup {Pause(SleepT)})
         /\ PausesLast(LandscapeOps(canvas))
<1> DEFINE S == Steps(canvas)
<1>1. /\ \A name \in {"reset", "wait", "feed", "refresh", "sleep"} : Op(name) \in S
      /\ {Order("b"), Window(0, Pages - 1, 0, Width - 1), At(0, 0), Plane("black"), Plane("accent")} \subseteq S
  BY DEF Steps
<1>2. \A plane \in {"black", "accent"}, k \in 1 .. Pages : Data(Slice(Buffer(canvas, plane), (Pages - k) * Width, Width)) \in S
  BY DEF Steps
<1> HIDE DEF S
<1>3. ASSUME NEW plane \in {"black", "accent"} PROVE LandscapePlane(plane, Buffer(canvas, plane)) \in Seq(S)
  <2> DEFINE parts == [k \in 1 .. Pages |->
                         <<Op("feed"), Data(Slice(Buffer(canvas, plane), (Pages - k) * Width, Width))>>]
  <2>1. parts \in Seq(Seq(S))
    BY <1>1, <1>2
  <2>2. FlattenSeq(parts) \in Seq(S)
    BY <2>1, Flat
  <2>3. <<Plane(plane)>> \in Seq(S) /\ <<Op("feed")>> \in Seq(S)
    BY <1>1
  <2>4. LandscapePlane(plane, Buffer(canvas, plane)) = <<Plane(plane)>> \o FlattenSeq(parts) \o <<Op("feed")>>
    BY DEF LandscapePlane
  <2> HIDE DEF parts
  <2> QED
    BY <2>2, <2>3, <2>4
<1>4. Reset \in Seq(S) /\ LandscapeSetUp \in Seq(S) /\ End \in Seq(S) /\ <<Op("feed")>> \in Seq(S)
  <2>1. Reset \in Seq(S) /\ End \in Seq(S) /\ <<Op("feed")>> \in Seq(S)
    BY <1>1 DEF Reset, End
  <2>2. <<Order("b"), Window(0, Pages - 1, 0, Width - 1), At(0, 0), Op("wait")>> \in Seq(S)
    BY <1>1
  <2> QED
    BY <2>1, <2>2 DEF LandscapeSetUp
<1> DEFINE most == LandscapeSetUp \o LandscapePlane("black", Buffer(canvas, "black"))
                   \o LandscapePlane("accent", Buffer(canvas, "accent")) \o <<Op("feed")>> \o End
<1>5. most \in Seq(S)
  BY <1>3, <1>4
<1>6. LandscapeOps(canvas) = most \o <<Pause(SleepT)>>
  BY DEF LandscapeOps
<1> HIDE DEF most
<1>7. LandscapeOps(canvas) \in Seq(S \cup {Pause(SleepT)})
  BY <1>5, <1>6
<1>8. PausesLast(LandscapeOps(canvas))
  <2>1. \A o \in S : o.op # "pause"
    BY StepsDoNotPause DEF S
  <2>2. Pause(SleepT).slices = SleepT
    BY DEF Pause
  <2> HIDE DEF S
  <2>3. \A i \in 1 .. Len(most) : (most \o <<Pause(SleepT)>>)[i] \in S
    BY <1>5
  <2>4. /\ Len(most \o <<Pause(SleepT)>>) = Len(most) + 1 /\ Len(most) \in Nat
        /\ (most \o <<Pause(SleepT)>>)[Len(most) + 1] = Pause(SleepT)
        /\ DOMAIN (most \o <<Pause(SleepT)>>) = 1 .. Len(most) + 1
    BY <1>5
  <2> QED
    BY <1>6, <2>1, <2>2, <2>3, <2>4, SettingsOfPanels DEF PausesLast
<1> QED
  BY <1>7, <1>8 DEF S

(* Fed until only the pause was left.                                      *)
FeedsOn ==
  /\ kind \in Kinds /\ (phase # "draw" => ops = <<>>)
  /\ Feeds(kind) => /\ \E S : ops \in Seq(S)
                    /\ \/ unfed = 0 /\ PausesLast(ops)
                       \/ ops = <<>> /\ unfed <= Watchdog

LEMMA OneStepLess ==
  ASSUME NEW S, NEW s \in Seq(S), s # <<>>, PausesLast(s)
  PROVE  /\ \E T : Tail(s) \in Seq(T)
         /\ PausesLast(Tail(s))
         /\ Head(s).op = "pause" => Tail(s) = <<>> /\ Head(s).slices \in 0 .. Watchdog
<1>1. /\ Tail(s) \in Seq(S) /\ Len(s) \in Nat \ {0} /\ Len(Tail(s)) = Len(s) - 1 /\ Head(s) = s[1]
      /\ \A i \in 1 .. Len(Tail(s)) : Tail(s)[i] = s[i + 1]
  OBVIOUS
<1>2. DOMAIN Tail(s) = 1 .. Len(Tail(s)) /\ DOMAIN s = 1 .. Len(s)
  BY <1>1
<1>3. ASSUME NEW i \in DOMAIN Tail(s), Tail(s)[i].op = "pause"
      PROVE  i = Len(Tail(s)) /\ Tail(s)[i].slices \in 0 .. Watchdog
  <2>1. i + 1 \in DOMAIN s /\ Tail(s)[i] = s[i + 1]
    BY <1>1, <1>2
  <2>2. i + 1 = Len(s) /\ s[i + 1].slices \in 0 .. Watchdog
    BY <1>3, <2>1 DEF PausesLast
  <2> QED
    BY <1>1, <1>2, <2>1, <2>2
<1>4. ASSUME Head(s).op = "pause" PROVE Tail(s) = <<>> /\ Head(s).slices \in 0 .. Watchdog
  <2>1. 1 = Len(s) /\ s[1].slices \in 0 .. Watchdog
    BY <1>1, <1>2, <1>4 DEF PausesLast
  <2>2. \A t \in Seq(S) : Len(t) = 0 => t = <<>>
    OBVIOUS
  <2>3. Len(Tail(s)) = 0
    <3>1. Len(Tail(s)) = Len(s) - 1 /\ Len(s) = 1
      BY <1>1, <2>1
    <3> QED
      BY <3>1
  <2> QED
    BY <1>1, <2>1, <2>2, <2>3
<1> QED
  BY <1>1, <1>3, <1>4 DEF PausesLast

LEMMA AtMostThat ==
  ASSUME NEW m \in Int, NEW n \in Int
  PROVE  Min({m, n}) \in {m, n} /\ Min({m, n}) <= m
<1>1. \E x \in {m, n} : \A y \in {m, n} : x <= y
  <2>1. CASE m <= n
    BY <2>1
  <2>2. CASE ~ (m <= n)
    BY <2>2
  <2> QED
    BY <2>1, <2>2
<1> QED
  BY <1>1 DEF Min

LEMMA FeedsOnKept == FeedsOn /\ [PanelNext]_panelVars => FeedsOn'
<1> SUFFICES ASSUME FeedsOn, [PanelNext]_panelVars PROVE FeedsOn'
  OBVIOUS
<1> USE SettingsOfPanels
<1>1. CASE UNCHANGED panelVars
  BY <1>1 DEF FeedsOn, panelVars
<1>2. ASSUME NEW a \in Apps, Draw(a) PROVE FeedsOn'
  <2>1. kind' = kind /\ unfed' = 0 /\ ops = <<>>
    BY <1>2 DEF Draw, FeedsOn
  <2>2. CASE Raises(a)
    <3>1. ops' = <<>> /\ phase' = "raised"
      BY <1>2, <2>1, <2>2 DEF Draw
    <3>2. <<>> \in Seq({}) /\ PausesLast(<<>>)
      BY DEF PausesLast
    <3> QED
      BY <2>1, <3>1, <3>2 DEF FeedsOn
  <2>3. CASE ~ Raises(a)
    <3>1. ops' = OpsOf(a) /\ phase' = "draw"
      BY <1>2, <2>3 DEF Draw
    <3>2. ASSUME Feeds(kind) PROVE (\E S : OpsOf(a) \in Seq(S)) /\ PausesLast(OpsOf(a))
      <4>1. OpsOf(a) = LandscapeOps(Canvas(a))
        BY <3>2 DEF OpsOf, OpsFor, Feeds, Vertical, Horizontal
      <4>2. Pages \in Nat
        BY DEF FeedsOn, Pages, Height
      <4> QED
        BY <4>1, <4>2, LandscapePauses
    <3> QED
      BY <2>1, <3>1, <3>2 DEF FeedsOn, Feeds
  <2> QED
    BY <2>2, <2>3
(* One thing the driver does.                                              *)
<1>3. ASSUME phase = "draw", ops # <<>>, Goes, Kept,
             unfed' \in {0, unfed} \/ (Does("pause") /\ Unfed(Head(ops).slices))
      PROVE  FeedsOn'
  <2>1. kind' = kind /\ phase' = phase /\ ops' = Tail(ops)
    BY <1>3 DEF Kept, Goes
  <2>2. ASSUME Feeds(kind)
        PROVE  /\ \E S : ops' \in Seq(S)
               /\ \/ unfed' = 0 /\ PausesLast(ops')
                  \/ ops' = <<>> /\ unfed' <= Watchdog
    <3>1. unfed = 0 /\ PausesLast(ops)
      BY <1>3, <2>2 DEF FeedsOn
    <3>2. PICK S : ops \in Seq(S)
      BY <2>2 DEF FeedsOn
    <3>3. /\ \E T : Tail(ops) \in Seq(T)
          /\ PausesLast(Tail(ops))
          /\ Head(ops).op = "pause" => Tail(ops) = <<>> /\ Head(ops).slices \in 0 .. Watchdog
      BY <1>3, <3>1, <3>2, OneStepLess
    <3>4. CASE unfed' \in {0, unfed}
      BY <2>1, <3>1, <3>3, <3>4
    <3>5. CASE Does("pause") /\ Unfed(Head(ops).slices)
      <4>1. Tail(ops) = <<>> /\ Head(ops).slices \in 0 .. Watchdog
        BY <3>3, <3>5 DEF Does
      <4>2. unfed' = Min({0 + Head(ops).slices, Watchdog + 1})
        BY <3>1, <3>5 DEF Unfed
      <4>3. unfed' <= Watchdog
        <5>1. PICK h \in 0 .. Watchdog : h = Head(ops).slices
          BY <4>1
        <5>2. 0 + h = h /\ h \in Int /\ Watchdog + 1 \in Int
          OBVIOUS
        <5>3. unfed' = Min({h, Watchdog + 1})
          BY <4>2, <5>1, <5>2
        <5>4. Min({h, Watchdog + 1}) \in {h, Watchdog + 1} /\ Min({h, Watchdog + 1}) <= h
          BY <5>2, AtMostThat
        <5> HIDE DEF Min
        <5> QED
          BY <5>2, <5>3, <5>4
      <4> QED
        BY <2>1, <3>3, <4>1, <4>3
    <3> QED
      BY <1>3, <3>4, <3>5
  <2> QED
    BY <1>3, <2>1, <2>2 DEF FeedsOn, Feeds
<1>4. ASSUME WaitSlice PROVE FeedsOn'
  <2>1. /\ phase = "draw" /\ ops # <<>> /\ kind' = kind /\ phase' = phase /\ ops' = ops
        /\ Feeds(kind) => unfed' = 0
    BY <1>4 DEF WaitSlice, Does, Kept, SlicePasses, Fed
  <2> QED
    BY <2>1 DEF FeedsOn, Feeds
<1>5. ASSUME BusFails \/ Drawn PROVE FeedsOn'
  <2>1. ops' = <<>> /\ kind' = kind /\ unfed' = unfed /\ phase' = "idle"
    BY <1>5 DEF BusFails, Drawn
  <2>2. <<>> \in Seq({}) /\ PausesLast(<<>>)
    BY DEF PausesLast
  <2> QED
    BY <2>1, <2>2 DEF FeedsOn, Feeds
<1>6. ASSUME SetUp \/ Transfer \/ ResetPanel \/ StartRefresh \/ EndWait \/ FeedWatchdog \/ GoToSleep \/ PausePasses
      PROVE  FeedsOn'
  <2>1. phase = "draw" /\ ops # <<>> /\ Goes /\ Kept
    BY <1>6 DEF SetUp, Transfer, ResetPanel, StartRefresh, EndWait, FeedWatchdog, GoToSleep, PausePasses, Does
  <2>2. unfed' \in {0, unfed} \/ (Does("pause") /\ Unfed(Head(ops).slices))
    BY <1>6 DEF SetUp, Transfer, ResetPanel, StartRefresh, EndWait, FeedWatchdog, GoToSleep, PausePasses, Fed
  <2> QED
    BY <1>3, <2>1, <2>2
<1> QED
  BY <1>1, <1>2, <1>4, <1>5, <1>6 DEF PanelNext

LEMMA FeedsFromTheStart == PanelInit => FeedsOn
<1>1. <<>> \in Seq({}) /\ PausesLast(<<>>)
  BY DEF PausesLast
<1> QED
  BY <1>1 DEF PanelInit, FeedsOn

(* Whatever the panel's size, however long its refresh takes and wherever  *)
(* the bus fails, the 2.13-inch driver keeps the watchdog fed through a    *)
(* draw: the only pause without a feed is its last step, shorter than the  *)
(* watchdog (_wait_until_idle, _send_landscape_plane, _sleep).             *)
THEOREM WatchdogStaysFed == PanelSpec => []WatchdogIsFed
<1>1. FeedsOn => WatchdogIsFed
  BY SettingsOfPanels DEF FeedsOn, WatchdogIsFed
<1> QED
  BY <1>1, FeedsFromTheStart, FeedsOnKept, PTL DEF PanelSpec

-----------------------------------------------------------------------------
(* Surfaces: where a pixel is kept.                                        *)

LEMMA PartsOf ==
  ASSUME NEW n \in Nat, NEW d \in Nat \ {0}
  PROVE  n \div d \in Nat /\ n % d \in 0 .. d - 1 /\ n = d * (n \div d) + (n % d)
OBVIOUS

(* The quotient and the remainder are those of one way to write a number.  *)
LEMMA OneWay ==
  ASSUME NEW d \in Nat \ {0}, NEW q \in Nat, NEW r \in 0 .. d - 1
  PROVE  (q * d + r) \div d = q /\ (q * d + r) % d = r
<1> DEFINE n == q * d + r
<1>1. n \in Nat
  OBVIOUS
<1>2. n \div d \in Nat /\ n % d \in 0 .. d - 1 /\ n = d * (n \div d) + (n % d)
  BY <1>1, PartsOf
<1> DEFINE e == q - (n \div d)
<1>3. e \in Int /\ d * e = (n % d) - r
  BY <1>2
<1>4. e = 0
  <2>1. CASE e >= 1
    <3>1. d * e >= d
      BY <2>1, <1>3
    <3> QED
      BY <3>1, <1>2, <1>3
  <2>2. CASE e <= -1
    <3>1. d * e <= -d
      BY <2>2, <1>3
    <3> QED
      BY <3>1, <1>2, <1>3
  <2> QED
    BY <2>1, <2>2, <1>3
<1> QED
  BY <1>2, <1>3, <1>4

(* Nobody of n in groups of d is beyond the last group.                    *)
LEMMA Grouped ==
  ASSUME NEW n \in Nat \ {0}, NEW d \in Nat \ {0}, NEW i \in 0 .. n - 1
  PROVE  /\ (n + d - 1) \div d \in Nat
         /\ i \div d \in 0 .. ((n + d - 1) \div d) - 1
         /\ n % d = 0 => n = d * ((n + d - 1) \div d)
<1> DEFINE q == i \div d   m == (n + d - 1) \div d   r == (n + d - 1) % d   h == n \div d
<1>1. q \in Nat /\ i % d \in 0 .. d - 1 /\ i = d * q + (i % d)
  BY PartsOf
<1>2. m \in Nat /\ r \in 0 .. d - 1 /\ n + d - 1 = d * m + r
  <2>1. n + d - 1 \in Nat
    OBVIOUS
  <2> QED
    BY <2>1, PartsOf
<1>3. h \in Nat /\ n % d \in 0 .. d - 1 /\ n = d * h + (n % d)
  BY PartsOf
<1>4. n % d = 0 => n = d * m
  <2> SUFFICES ASSUME n % d = 0 PROVE n = d * m
    OBVIOUS
  <2>1. n + d - 1 = h * d + (d - 1) /\ d - 1 \in 0 .. d - 1
    BY <1>3
  <2>2. m = h
    <3>1. (h * d + (d - 1)) \div d = h
      BY <1>3, <2>1, OneWay
    <3> QED
      BY <2>1, <3>1
  <2> QED
    BY <1>3, <2>2
<1> HIDE DEF q, m, r, h
<1>5. q < m
  <2> SUFFICES ASSUME q >= m PROVE FALSE
    BY <1>1, <1>2
  <2>1. d * q >= d * m
    <3>1. q = m + (q - m) /\ q - m \in Nat
      BY <1>1, <1>2
    <3>2. d * (m + (q - m)) = d * m + d * (q - m) /\ d * (q - m) \in Nat
      BY <3>1, <1>2
    <3> QED
      BY <3>1, <3>2, <1>2
  <2>2. d * q \in Int /\ d * m \in Int
    BY <1>1, <1>2
  <2> QED
    BY <1>1, <1>2, <2>1, <2>2
<1> QED
  BY <1>1, <1>2, <1>4, <1>5 DEF q, m

(* The x-th of w places in the q-th of m rows of them.                     *)
LEMMA Placed ==
  ASSUME NEW w \in Nat \ {0}, NEW m \in Nat, NEW x \in 0 .. w - 1, NEW q \in 0 .. m - 1
  PROVE  /\ q * w + x \in 0 .. w * m - 1
         /\ (q * w + x) % w = x /\ (q * w + x) \div w = q
<1>1. q \in Nat /\ q * w \in Nat /\ w * m \in Nat
  OBVIOUS
<1>2. (q + 1) * w <= w * m
  <2>1. m = (q + 1) + (m - (q + 1)) /\ m - (q + 1) \in Nat
    OBVIOUS
  <2>2. w * ((q + 1) + (m - (q + 1))) = w * (q + 1) + w * (m - (q + 1)) /\ w * (m - (q + 1)) \in Nat
    BY <2>1
  <2>3. (q + 1) * w = w * (q + 1) /\ w * (q + 1) \in Int
    OBVIOUS
  <2> QED
    BY <2>1, <2>2, <2>3
<1>3. (q + 1) * w = q * w + w
  OBVIOUS
<1> QED
  BY <1>1, <1>2, <1>3, OneWay

(* Surfaces that round the height down to whole bytes.                     *)
HeightFits == kind \in Oled \cup Vertical => Height % Bits = 0
Suits == HeightFits /\ kind \notin Misread

BitOf(p) == IF Tall(kind) THEN p[2] % Bits ELSE Bits - 1 - (p[1] % Bits)

LEMMA PixelKept ==
  ASSUME kind \in Kinds, HeightFits, NEW p \in Pixels
  PROVE  /\ BufferLength \in Nat /\ IndexOf(p) \in 0 .. BufferLength - 1
         /\ BitOf(p) \in 0 .. Bits - 1
         /\ p = IF Tall(kind) THEN <<IndexOf(p) % Width, (IndexOf(p) \div Width) * Bits + BitOf(p)>>
                ELSE <<(IndexOf(p) % RowBytes) * Bits + (Bits - 1 - BitOf(p)), IndexOf(p) \div RowBytes>>
<1> USE SettingsOfPanels
<1> DEFINE x == p[1]   y == p[2]
<1>1. x \in 0 .. Width - 1 /\ y \in 0 .. Height - 1 /\ p = <<x, y>> /\ Height \in Nat \ {0}
  BY DEF Pixels, Height
<1>2. /\ Pages \in Nat /\ y \div Bits \in 0 .. Pages - 1 /\ (Height % Bits = 0 => Height = Bits * Pages)
  BY <1>1, Grouped DEF Pages
<1>3. RowBytes \in Nat /\ x \div Bits \in 0 .. RowBytes - 1
  BY <1>1, Grouped DEF RowBytes
<1>4. /\ y % Bits \in 0 .. Bits - 1 /\ y = Bits * (y \div Bits) + (y % Bits)
      /\ x % Bits \in 0 .. Bits - 1 /\ x = Bits * (x \div Bits) + (x % Bits)
  BY <1>1, PartsOf
<1> HIDE DEF x, y
<1>5. CASE Tall(kind)
  <2> DEFINE q == y \div Bits
  <2>1. IndexOf(p) = q * Width + x /\ BitOf(p) = y % Bits
    <3>1. IndexOf(p) = x + q * Width /\ BitOf(p) = y % Bits
      BY <1>5 DEF IndexOf, BitOf, x, y
    <3> QED
      BY <1>1, <1>2, <3>1
  <2>5. q \in 0 .. Pages - 1 /\ Pages \in Nat /\ x \in 0 .. Width - 1 /\ Width \in Nat \ {0}
    BY <1>1, <1>2
  <2>2. /\ q * Width + x \in 0 .. Width * Pages - 1
        /\ (q * Width + x) % Width = x /\ (q * Width + x) \div Width = q
    <3> HIDE DEF q
    <3> QED
      BY <2>5, Placed
  <2>3. BufferLength = Width * Pages
    <3>1. CASE kind = "213b"
      BY <3>1 DEF BufferLength, Oled, Vertical
    <3>2. CASE kind \in Oled \cup Vertical
      <4>1. Width * Height = (Width * Pages) * Bits + 0 /\ Width * Pages \in Nat
        BY <1>2, <3>2 DEF HeightFits
      <4>2. (Width * Height) \div Bits = Width * Pages
        <5>1. PICK t \in Nat : t = Width * Pages
          BY <4>1
        <5>2. (t * Bits + 0) \div Bits = t
          BY OneWay
        <5> QED
          BY <4>1, <5>1, <5>2
      <4>3. BufferLength = (Width * Height) \div Bits
        BY <3>2 DEF BufferLength, Oled, Vertical
      <4> QED
        BY <4>2, <4>3
    <3> QED
      BY <1>5, <3>1, <3>2 DEF Tall, Vertical
  <2>4. q * Bits + (y % Bits) = y /\ Width * Pages \in Nat
    BY <1>2, <1>4
  <2> HIDE DEF q
  <2> QED
    BY <1>1, <1>4, <1>5, <2>1, <2>2, <2>3, <2>4
<1>6. CASE ~ Tall(kind)
  <2> DEFINE q == x \div Bits
  <2>1. IndexOf(p) = y * RowBytes + q /\ BitOf(p) = Bits - 1 - (x % Bits)
    BY <1>6 DEF IndexOf, BitOf, x, y
  <2>2. RowBytes \in Nat \ {0}
    BY <1>3
  <2>3. /\ y * RowBytes + q \in 0 .. RowBytes * Height - 1
        /\ (y * RowBytes + q) % RowBytes = q /\ (y * RowBytes + q) \div RowBytes = y
    <3>1. q \in 0 .. RowBytes - 1
      BY <1>3
    <3> HIDE DEF q
    <3> QED
      BY <1>1, <2>2, <3>1, Placed
  <2>4. BufferLength = RowBytes * Height
    BY <1>6 DEF BufferLength, Tall, Vertical
  <2>5. /\ q * Bits + (Bits - 1 - (Bits - 1 - (x % Bits))) = x /\ Bits - 1 - (x % Bits) \in 0 .. Bits - 1
        /\ RowBytes * Height \in Nat
    BY <1>1, <1>3, <1>4
  <2> HIDE DEF q
  <2> QED
    BY <1>1, <1>6, <2>1, <2>3, <2>4, <2>5
<1> QED
  BY <1>5, <1>6

(* Every surface keeps every pixel of a frame in a bit of its own: what    *)
(* was stored for it is what is sent, for every size of panel and byte.    *)
(* Only the one-colour surfaces with bytes of rows need a height that is a *)
(* whole number of bytes (set_pixel of the surfaces).                      *)
THEOREM SurfacesKeepPictures ==
  ASSUME kind \in Kinds, HeightFits, NEW canvas, NEW plane, NEW p \in Pixels
  PROVE  /\ IndexOf(p) \in DOMAIN Buffer(canvas, plane)
         /\ BitOf(p) \in Buffer(canvas, plane)[IndexOf(p)] <=> PlaneBit(plane, canvas[p])
<1>1. /\ IndexOf(p) \in 0 .. BufferLength - 1 /\ BitOf(p) \in 0 .. Bits - 1
      /\ p = IF Tall(kind) THEN <<IndexOf(p) % Width, (IndexOf(p) \div Width) * Bits + BitOf(p)>>
             ELSE <<(IndexOf(p) % RowBytes) * Bits + (Bits - 1 - BitOf(p)), IndexOf(p) \div RowBytes>>
  BY PixelKept
<1>2. Buffer(canvas, plane)[IndexOf(p)] = ByteAt(canvas, plane, IndexOf(p))
  BY <1>1 DEF Buffer
<1>3. BitOf(p) \in ByteAt(canvas, plane, IndexOf(p)) <=> BitSet(canvas, plane, p)
  BY <1>1 DEF ByteAt
<1>4. BitSet(canvas, plane, p) <=> PlaneBit(plane, canvas[p])
  BY DEF BitSet
<1> QED
  BY <1>1, <1>2, <1>3, <1>4 DEF Buffer

RaisesWithCause == kind \in Kinds /\ (phase = "raised" => ~ HeightFits)

(* No frame and no logo raises unless the surface rounds a height away     *)
(* that is no whole number of bytes, for every panel, font and state of the*)
(* checks (set_pixel of the surfaces).                                     *)
THEOREM FramesFit == PanelSpec => [](HeightFits => FrameFits)
<1>1. PanelInit => RaisesWithCause
  BY DEF PanelInit, RaisesWithCause
<1>2. RaisesWithCause /\ [PanelNext]_panelVars => RaisesWithCause'
  <2> SUFFICES ASSUME RaisesWithCause, [PanelNext]_panelVars PROVE RaisesWithCause'
    OBVIOUS
  <2>1. kind' = kind
    BY DEF PanelNext, panelVars, Draw, SetUp, Transfer, ResetPanel, StartRefresh, WaitSlice, EndWait, FeedWatchdog,
           GoToSleep, PausePasses, BusFails, Drawn, Kept
  <2>2. HeightFits' <=> HeightFits
    BY <2>1 DEF HeightFits, Height
  <2>3. CASE \E a \in Apps : Draw(a)
    <3>1. PICK a \in Apps : Draw(a)
      BY <2>3
    <3>2. phase' = "raised" => Raises(a)
      BY <3>1 DEF Draw
    <3>3. Raises(a) => \E p \in Pixels : IndexOf(p) >= BufferLength
      BY DEF Raises
    <3>4. ASSUME HeightFits, NEW p \in Pixels, IndexOf(p) >= BufferLength PROVE FALSE
      <4>1. BufferLength \in Nat /\ IndexOf(p) \in 0 .. BufferLength - 1
        BY <3>4, PixelKept DEF RaisesWithCause
      <4> QED
        BY <3>4, <4>1
    <3> QED
      BY <2>1, <2>2, <3>2, <3>3, <3>4 DEF RaisesWithCause
  <2>4. CASE ~ \E a \in Apps : Draw(a)
    <3>1. phase' = "raised" => phase = "raised"
      BY <2>4 DEF PanelNext, panelVars, SetUp, Transfer, ResetPanel, StartRefresh, WaitSlice, EndWait, FeedWatchdog,
             GoToSleep, PausePasses, BusFails, Drawn, Kept
    <3> QED
      BY <2>1, <2>2, <3>1 DEF RaisesWithCause
  <2> QED
    BY <2>3, <2>4
<1>3. RaisesWithCause => (HeightFits => FrameFits)
  BY DEF RaisesWithCause, FrameFits
<1> QED
  BY <1>1, <1>2, <1>3, PTL DEF PanelSpec

-----------------------------------------------------------------------------
(* A transfer, byte by byte: where a controller's pointer goes and what its*)
(* memory holds then.                                                      *)

IsRun(f, n, start, bytes) ==
  f = [s \in SUBSET (1 .. n) |->
         IF s = {} THEN start ELSE Stored(f[s \ {Max(s)}], bytes[Max(s)])]

LEMMA LargestOf ==
  ASSUME NEW n \in Nat, NEW s \in SUBSET (1 .. n), s # {}
  PROVE  Max(s) \in s /\ \A m \in s : m <= Max(s)
<1> DEFINE T == {n - m : m \in s}
<1>1. T \in SUBSET Nat /\ T # {}
  <2>1. \A m \in s : m \in 1 .. n
    OBVIOUS
  <2>2. \A m \in 1 .. n : n - m \in Nat
    OBVIOUS
  <2> QED
    BY <2>1, <2>2
<1>2. PICK t \in T : \A m \in T : t <= m
  <2> HIDE DEF T
  <2> QED
    BY <1>1, FirstOf
<1>3. PICK k \in s : t = n - k
  OBVIOUS
<1>4. \A m \in s : n - k <= n - m
  BY <1>2, <1>3
<1>5. \A m \in s : k >= m
  BY <1>4
<1>6. \E x \in s : \A y \in s : x >= y
  BY <1>5
<1> QED
  BY <1>6 DEF Max

LEMMA RunExists ==
  ASSUME NEW start, NEW bytes, NEW n \in Nat
  PROVE  \E f : IsRun(f, n, start, bytes)
<1> DEFINE T == {m \in Nat : ~ \E f : IsRun(f, m, start, bytes)}
<1>1. ASSUME NEW m \in T, \A k \in T : m <= k PROVE FALSE
  <2>1. CASE m = 0
    <3> DEFINE f == [s \in SUBSET (1 .. 0) |-> start]
    <3>1. \A s \in SUBSET (1 .. 0) : s = {}
      OBVIOUS
    <3>2. f = [s \in SUBSET (1 .. 0) |-> IF s = {} THEN start ELSE Stored(f[s \ {Max(s)}], bytes[Max(s)])]
      BY <3>1
    <3> HIDE DEF f
    <3> QED
      BY <2>1, <3>2 DEF IsRun
  <2>2. CASE m # 0
    <3>1. m - 1 \in Nat /\ ~ (m <= m - 1) /\ m \in Nat
      BY <2>2
    <3>2. PICK h : IsRun(h, m - 1, start, bytes)
      BY <1>1, <3>1
    <3> DEFINE g == [s \in SUBSET (1 .. m) |->
                       IF m \in s THEN Stored(h[s \ {m}], bytes[m]) ELSE h[s]]
    <3>3. \A s \in SUBSET (1 .. m) : g[s] = IF s = {} THEN start ELSE Stored(g[s \ {Max(s)}], bytes[Max(s)])
      <4> SUFFICES ASSUME NEW s \in SUBSET (1 .. m)
                   PROVE  g[s] = IF s = {} THEN start ELSE Stored(g[s \ {Max(s)}], bytes[Max(s)])
        OBVIOUS
      <4>1. CASE m \in s
        <5>1. s # {} /\ Max(s) = m
          <6>1. Max(s) \in s /\ \A k \in s : k <= Max(s)
            BY <3>1, <4>1, LargestOf
          <6>2. PICK k \in s : k = Max(s)
            BY <6>1
          <6>3. k \in 1 .. m /\ m <= k
            BY <4>1, <6>1, <6>2
          <6> QED
            BY <6>2, <6>3
        <5>2. s \ {m} \in SUBSET (1 .. m) /\ m \notin s \ {m}
          OBVIOUS
        <5>3. g[s \ {m}] = h[s \ {m}]
          BY <5>2
        <5> QED
          BY <4>1, <5>1, <5>3
      <4>2. CASE m \notin s
        <5>1. s \in SUBSET (1 .. m - 1)
          BY <3>1, <4>2
        <5>2. h[s] = IF s = {} THEN start ELSE Stored(h[s \ {Max(s)}], bytes[Max(s)])
          BY <3>2, <5>1 DEF IsRun
        <5>3. s \ {Max(s)} \in SUBSET (1 .. m) /\ m \notin s \ {Max(s)}
          BY <4>2
        <5>4. g[s \ {Max(s)}] = h[s \ {Max(s)}] /\ g[s] = h[s]
          BY <4>2, <5>3
        <5> QED
          BY <5>2, <5>4
      <4> QED
        BY <4>1, <4>2
    <3>4. g = [s \in SUBSET (1 .. m) |-> g[s]]
      OBVIOUS
    <3> HIDE DEF g
    <3>5. IsRun(g, m, start, bytes)
      BY <3>3, <3>4 DEF IsRun
    <3> QED
      BY <3>5
  <2> QED
    BY <2>1, <2>2
<1>2. T = {}
  <2> HIDE DEF T
  <2>1. T \in SUBSET Nat
    BY DEF T
  <2> QED
    BY <1>1, <2>1, FirstOf
<1> QED
  BY <1>2

(* The stages of a transfer: byte by byte.                                 *)
AreStages(g, c, memory, bytes, n) ==
  /\ g[0] = [c |-> c, ram |-> memory]
  /\ \A i \in 1 .. n : g[i] = Stored(g[i - 1], bytes[i])
  /\ Written(c, memory, bytes) = g[n]

LEMMA Stages ==
  ASSUME NEW c, NEW memory, NEW bytes, NEW n \in Nat, DOMAIN bytes = 1 .. n
  PROVE  \E g : AreStages(g, c, memory, bytes, n)
<1> DEFINE start == [c |-> c, ram |-> memory]
<1> DEFINE f == CHOOSE h : IsRun(h, n, start, bytes)
<1>1. IsRun(f, n, start, bytes)
  BY RunExists
<1>2. Written(c, memory, bytes) = f[1 .. n]
  BY DEF Written, FoldLeft, MapThenFoldSet, IsRun
<1> HIDE DEF f
<1> DEFINE g == [i \in 0 .. n |-> f[1 .. i]]
<1>3. g[0] = start
  <2>1. 1 .. 0 = {} /\ {} \in SUBSET (1 .. n) /\ g[0] = f[1 .. 0]
    OBVIOUS
  <2> QED
    BY <1>1, <2>1 DEF IsRun
<1>4. ASSUME NEW i \in 1 .. n PROVE g[i] = Stored(g[i - 1], bytes[i])
  <2>1. /\ 1 .. i \in SUBSET (1 .. n) /\ 1 .. i # {} /\ (1 .. i) \ {i} = 1 .. i - 1
        /\ g[i] = f[1 .. i] /\ g[i - 1] = f[1 .. i - 1]
    <3>1. 1 .. i \in SUBSET (1 .. n) /\ 1 .. i # {}
      OBVIOUS
    <3>2. (1 .. i) \ {i} = 1 .. i - 1
      OBVIOUS
    <3>3. i \in 0 .. n /\ i - 1 \in 0 .. n
      OBVIOUS
    <3>4. g[i] = f[1 .. i] /\ g[i - 1] = f[1 .. i - 1]
      BY <3>3
    <3> QED
      BY <3>1, <3>2, <3>4
  <2>2. Max(1 .. i) = i
    <3>1. Max(1 .. i) \in 1 .. i /\ \A m \in 1 .. i : m <= Max(1 .. i)
      BY <2>1, LargestOf
    <3> QED
      BY <3>1
  <2>3. f[1 .. i] = Stored(f[(1 .. i) \ {Max(1 .. i)}], bytes[Max(1 .. i)])
    BY <1>1, <2>1 DEF IsRun
  <2> QED
    BY <2>1, <2>2, <2>3
<1>5. Written(c, memory, bytes) = g[n]
  BY <1>2
<1> QED
  BY <1>3, <1>4, <1>5 DEF AreStages

-----------------------------------------------------------------------------
(* The places of a window, in the order in which they are written.         *)

Controllers ==
  [awake : BOOLEAN, first : {"a", "b"}, a0 : 0 .. LastAddress, a1 : 0 .. LastAddress,
   b0 : 0 .. LastAddress, b1 : 0 .. LastAddress, a : Int, b : Int, plane : Planes]

InWindow(c, x) == x[1] \in c.a0 .. c.a1 /\ x[2] \in c.b0 .. c.b1
Rows(c) == IF c.first = "b" THEN c.a1 - c.a0 + 1 ELSE c.b1 - c.b0 + 1
RowSize(c) == IF c.first = "b" THEN c.b1 - c.b0 + 1 ELSE c.a1 - c.a0 + 1
PlaceIn(c, x) ==
  IF c.first = "b" THEN (x[1] - c.a0) * RowSize(c) + (x[2] - c.b0) ELSE (x[2] - c.b0) * RowSize(c) + (x[1] - c.a0)
Pointer(c) == <<c.a, c.b>>
MovedTo(c, d) == d = [c EXCEPT !.a = d.a, !.b = d.b]

LEMMA NextPlace ==
  ASSUME NEW F \in Nat \ {0}, NEW S \in Nat \ {0}, NEW s \in 0 .. S - 1, NEW f \in 0 .. F - 1
  PROVE  /\ s * F + f \in 0 .. S * F - 1 /\ S * F \in Nat
         /\ f = F - 1 => s * F + f + 1 = (s + 1) * F
         /\ f = F - 1 /\ s = S - 1 => s * F + f + 1 = S * F
         /\ ~ (f = F - 1 /\ s = S - 1) => s * F + f + 1 < S * F
<1>1. s * F + f \in 0 .. S * F - 1 /\ S * F \in Nat /\ F * S = S * F
  <2>1. s * F + f \in 0 .. F * S - 1
    BY Placed
  <2>2. F * S = S * F /\ S * F \in Nat
    OBVIOUS
  <2> QED
    BY <2>1, <2>2
<1>2. (s + 1) * F = s * F + F /\ s * F \in Nat
  OBVIOUS
<1>3. CASE f # F - 1
  <2>1. s * F + (f + 1) \in 0 .. F * S - 1
    <3>1. f + 1 \in 0 .. F - 1
      BY <1>3
    <3> QED
      BY <3>1, Placed
  <2> QED
    BY <1>1, <1>2, <1>3, <2>1
<1>4. CASE f = F - 1 /\ s # S - 1
  <2>1. (s + 1) * F + 0 \in 0 .. F * S - 1
    <3>1. s + 1 \in 0 .. S - 1 /\ 0 \in 0 .. F - 1
      BY <1>4
    <3> QED
      BY <3>1, Placed
  <2> QED
    BY <1>1, <1>2, <1>4, <2>1
<1>5. CASE f = F - 1 /\ s = S - 1
  BY <1>1, <1>2, <1>5
<1> QED
  BY <1>1, <1>3, <1>4, <1>5

LEMMA SamePlace ==
  ASSUME NEW F \in Nat \ {0}, NEW s \in Nat, NEW f \in 0 .. F - 1, NEW t \in Nat, NEW g \in 0 .. F - 1,
         s * F + f = t * F + g
  PROVE  s = t /\ f = g
<1>1. (s * F + f) \div F = s /\ (s * F + f) % F = f
  BY OneWay
<1>2. (t * F + g) \div F = t /\ (t * F + g) % F = g
  BY OneWay
<1> QED
  BY <1>1, <1>2

LEMMA AddressFits == kind \in Kinds => LastAddress \in Nat /\ Height \in Nat \ {0} /\ Offset \in Nat
                                       /\ Width - 1 + Offset <= LastAddress /\ Height - 1 + Offset <= LastAddress
<1> SUFFICES ASSUME kind \in Kinds
             PROVE  LastAddress \in Nat /\ Height \in Nat \ {0} /\ Offset \in Nat
                    /\ Width - 1 + Offset <= LastAddress /\ Height - 1 + Offset <= LastAddress
  OBVIOUS
<1>1. Height \in Nat \ {0} /\ Width \in Nat \ {0} /\ Offset \in Nat
  BY PanelsAssumption DEF Height
<1>2. Max({Width, Height}) \in {Width, Height} /\ Width <= Max({Width, Height}) /\ Height <= Max({Width, Height})
  <2>1. \E x \in {Width, Height} : \A y \in {Width, Height} : x >= y
    <3>1. CASE Width >= Height
      BY <1>1, <3>1
    <3>2. CASE ~ (Width >= Height)
      BY <1>1, <3>2
    <3> QED
      BY <3>1, <3>2
  <2>2. PICK m : m = Max({Width, Height})
    OBVIOUS
  <2>3. m \in {Width, Height} /\ \A y \in {Width, Height} : m >= y
    BY <2>1, <2>2 DEF Max
  <2> QED
    BY <1>1, <2>2, <2>3
<1>3. PICK m \in {Width, Height} : m = Max({Width, Height})
  BY <1>2
<1>4. m \in Nat \ {0} /\ Width <= m /\ Height <= m /\ LastAddress = m - 1 + Offset
  BY <1>1, <1>2, <1>3 DEF LastAddress
<1> HIDE DEF Height
<1> QED
  BY <1>1, <1>4

(* The pointer goes on to the next place, from the last one to the first.  *)
LEMMA PointerAdvances ==
  ASSUME kind \in Kinds, NEW c \in Controllers, InWindow(c, Pointer(c))
  PROVE  LET d == Advance(c)
             n == PlaceIn(c, Pointer(c))
         IN  /\ d \in Controllers /\ MovedTo(c, d) /\ InWindow(c, Pointer(d))
             /\ n \in 0 .. Rows(c) * RowSize(c) - 1 /\ Rows(c) * RowSize(c) \in Nat
             /\ PlaceIn(c, Pointer(d)) = IF n + 1 = Rows(c) * RowSize(c) THEN 0 ELSE n + 1
<1> DEFINE d == Advance(c)   F == RowSize(c)   S == Rows(c)
<1>1. /\ c.a0 \in Nat /\ c.a1 \in Nat /\ c.b0 \in Nat /\ c.b1 \in Nat /\ c.a \in c.a0 .. c.a1 /\ c.b \in c.b0 .. c.b1
      /\ LastAddress \in Nat /\ c.a1 <= LastAddress /\ c.b1 <= LastAddress
  BY AddressFits DEF Controllers, InWindow, Pointer
<1>2. CASE c.first = "b"
  <2> DEFINE s == c.a - c.a0   f == c.b - c.b0
  <2>1. F \in Nat \ {0} /\ S \in Nat \ {0} /\ s \in 0 .. S - 1 /\ f \in 0 .. F - 1 /\ F = c.b1 - c.b0 + 1 /\ S = c.a1 - c.a0 + 1
    BY <1>1, <1>2 DEF RowSize, Rows
  <2>2. d = [c EXCEPT !.b = Next1(c.b, c.b0, c.b1), !.a = IF c.b >= c.b1 THEN Next1(c.a, c.a0, c.a1) ELSE c.a]
    BY <1>2 DEF Advance
  <2>3. /\ d.b = IF f = F - 1 THEN c.b0 ELSE c.b + 1
        /\ d.a = IF f = F - 1 THEN (IF s = S - 1 THEN c.a0 ELSE c.a + 1) ELSE c.a
    BY <1>1, <2>1, <2>2 DEF Controllers, Next1
  <2>4. d.a \in c.a0 .. c.a1 /\ d.b \in c.b0 .. c.b1
    BY <1>1, <2>1, <2>3
  <2>5. d \in Controllers /\ MovedTo(c, d) /\ InWindow(c, Pointer(d))
    <3>1. d.a \in Int /\ d.b \in Int
      BY <1>1, <2>4
    <3>2. d = [c EXCEPT !.a = d.a, !.b = d.b]
      BY <2>2 DEF Controllers
    <3>3. [c EXCEPT !.a = d.a, !.b = d.b] \in Controllers
      <4> HIDE DEF d
      <4> QED
        BY <3>1 DEF Controllers
    <3>4. d \in Controllers
      BY <3>2, <3>3
    <3> HIDE DEF d
    <3> QED
      BY <2>4, <3>2, <3>4 DEF MovedTo, InWindow, Pointer
  <2>6. /\ PlaceIn(c, Pointer(c)) = s * F + f
        /\ PlaceIn(c, Pointer(d)) = (d.a - c.a0) * F + (d.b - c.b0)
    BY <1>2 DEF PlaceIn, Pointer
  <2>7. /\ s * F + f \in 0 .. S * F - 1 /\ S * F \in Nat
        /\ f = F - 1 => s * F + f + 1 = (s + 1) * F
        /\ f = F - 1 /\ s = S - 1 => s * F + f + 1 = S * F
        /\ ~ (f = F - 1 /\ s = S - 1) => s * F + f + 1 < S * F
    <3>1. F \in Nat \ {0} /\ S \in Nat \ {0} /\ s \in 0 .. S - 1 /\ f \in 0 .. F - 1
      BY <2>1
    <3> HIDE DEF s, f, F, S
    <3> QED
      BY <3>1, NextPlace, Zenon
  <2>8. (d.a - c.a0) * F + (d.b - c.b0) = IF s * F + f + 1 = S * F THEN 0 ELSE s * F + f + 1
    <3> HIDE DEF d, F, S
    <3>1. CASE f = F - 1 /\ s = S - 1
      BY <1>1, <2>1, <2>3, <2>7, <3>1
    <3>2. CASE f = F - 1 /\ s # S - 1
      <4>1. d.a - c.a0 = s + 1 /\ d.b - c.b0 = 0
        BY <1>1, <2>1, <2>3, <3>2
      <4> QED
        BY <2>1, <2>7, <3>2, <4>1
    <3>3. CASE f # F - 1
      <4>1. d.a - c.a0 = s /\ d.b - c.b0 = f + 1
        BY <1>1, <2>1, <2>3, <3>3
      <4> QED
        BY <2>1, <2>7, <3>3, <4>1
    <3> QED
      BY <3>1, <3>2, <3>3
  <2> QED
    BY <2>5, <2>6, <2>7, <2>8
<1>3. CASE c.first # "b"
  <2> DEFINE s == c.b - c.b0   f == c.a - c.a0
  <2>1. F \in Nat \ {0} /\ S \in Nat \ {0} /\ s \in 0 .. S - 1 /\ f \in 0 .. F - 1 /\ F = c.a1 - c.a0 + 1 /\ S = c.b1 - c.b0 + 1
    BY <1>1, <1>3 DEF RowSize, Rows
  <2>2. d = [c EXCEPT !.a = Next1(c.a, c.a0, c.a1), !.b = IF c.a >= c.a1 THEN Next1(c.b, c.b0, c.b1) ELSE c.b]
    BY <1>3 DEF Advance
  <2>3. /\ d.a = IF f = F - 1 THEN c.a0 ELSE c.a + 1
        /\ d.b = IF f = F - 1 THEN (IF s = S - 1 THEN c.b0 ELSE c.b + 1) ELSE c.b
    BY <1>1, <2>1, <2>2 DEF Controllers, Next1
  <2>4. d.a \in c.a0 .. c.a1 /\ d.b \in c.b0 .. c.b1
    BY <1>1, <2>1, <2>3
  <2>5. d \in Controllers /\ MovedTo(c, d) /\ InWindow(c, Pointer(d))
    <3>1. d.a \in Int /\ d.b \in Int
      BY <1>1, <2>4
    <3>2. d = [c EXCEPT !.a = d.a, !.b = d.b]
      BY <2>2 DEF Controllers
    <3>3. [c EXCEPT !.a = d.a, !.b = d.b] \in Controllers
      <4> HIDE DEF d
      <4> QED
        BY <3>1 DEF Controllers
    <3>4. d \in Controllers
      BY <3>2, <3>3
    <3> HIDE DEF d
    <3> QED
      BY <2>4, <3>2, <3>4 DEF MovedTo, InWindow, Pointer
  <2>6. /\ PlaceIn(c, Pointer(c)) = s * F + f
        /\ PlaceIn(c, Pointer(d)) = (d.b - c.b0) * F + (d.a - c.a0)
    BY <1>3 DEF PlaceIn, Pointer
  <2>7. /\ s * F + f \in 0 .. S * F - 1 /\ S * F \in Nat
        /\ f = F - 1 => s * F + f + 1 = (s + 1) * F
        /\ f = F - 1 /\ s = S - 1 => s * F + f + 1 = S * F
        /\ ~ (f = F - 1 /\ s = S - 1) => s * F + f + 1 < S * F
    <3>1. F \in Nat \ {0} /\ S \in Nat \ {0} /\ s \in 0 .. S - 1 /\ f \in 0 .. F - 1
      BY <2>1
    <3> HIDE DEF s, f, F, S
    <3> QED
      BY <3>1, NextPlace, Zenon
  <2>8. (d.b - c.b0) * F + (d.a - c.a0) = IF s * F + f + 1 = S * F THEN 0 ELSE s * F + f + 1
    <3> HIDE DEF d, F, S
    <3>1. CASE f = F - 1 /\ s = S - 1
      BY <1>1, <2>1, <2>3, <2>7, <3>1
    <3>2. CASE f = F - 1 /\ s # S - 1
      <4>1. d.b - c.b0 = s + 1 /\ d.a - c.a0 = 0
        BY <1>1, <2>1, <2>3, <3>2
      <4> QED
        BY <2>1, <2>7, <3>2, <4>1
    <3>3. CASE f # F - 1
      <4>1. d.b - c.b0 = s /\ d.a - c.a0 = f + 1
        BY <1>1, <2>1, <2>3, <3>3
      <4> QED
        BY <2>1, <2>7, <3>3, <4>1
    <3> QED
      BY <3>1, <3>2, <3>3
  <2> QED
    BY <2>5, <2>6, <2>7, <2>8
<1> QED
  BY <1>2, <1>3

LEMMA PlacesDiffer ==
  ASSUME NEW c \in Controllers, kind \in Kinds, NEW x \in Addresses, NEW y \in Addresses, InWindow(c, x), InWindow(c, y),
         PlaceIn(c, x) = PlaceIn(c, y)
  PROVE  x = y
<1>1. /\ c.a0 \in Nat /\ c.a1 \in Nat /\ c.b0 \in Nat /\ c.b1 \in Nat
      /\ x[1] \in c.a0 .. c.a1 /\ x[2] \in c.b0 .. c.b1 /\ y[1] \in c.a0 .. c.a1 /\ y[2] \in c.b0 .. c.b1
      /\ x = <<x[1], x[2]>> /\ y = <<y[1], y[2]>>
  BY AddressFits DEF Controllers, InWindow, Addresses
<1>2. ASSUME NEW i \in {1, 2}, NEW j \in {1, 2}, NEW i0 \in Nat, NEW j0 \in Nat, NEW j1 \in Nat, i # j,
             x[i] - i0 \in Nat, y[i] - i0 \in Nat, x[j] \in j0 .. j1, y[j] \in j0 .. j1,
             (x[i] - i0) * (j1 - j0 + 1) + (x[j] - j0) = (y[i] - i0) * (j1 - j0 + 1) + (y[j] - j0)
      PROVE  x[1] = y[1] /\ x[2] = y[2]
  <2> DEFINE F == j1 - j0 + 1   s == x[i] - i0   t == y[i] - i0   f == x[j] - j0   g == y[j] - j0
  <2>1. F \in Nat \ {0} /\ s \in Nat /\ t \in Nat /\ f \in 0 .. F - 1 /\ g \in 0 .. F - 1 /\ s * F + f = t * F + g
    BY <1>2
  <2>2. s = t /\ f = g
    <3> HIDE DEF F, s, t, f, g
    <3> QED
      BY <2>1, SamePlace
  <2>3. x[1] \in Int /\ x[2] \in Int /\ y[1] \in Int /\ y[2] \in Int
    BY <1>1
  <2>4. x[i] = y[i] /\ x[j] = y[j]
    BY <1>2, <2>2, <2>3
  <2> QED
    BY <1>2, <2>4
<1>3. x[1] = y[1] /\ x[2] = y[2]
  <2>1. CASE c.first = "b"
    <3>1. (x[1] - c.a0) * (c.b1 - c.b0 + 1) + (x[2] - c.b0) = (y[1] - c.a0) * (c.b1 - c.b0 + 1) + (y[2] - c.b0)
      BY <2>1 DEF PlaceIn, RowSize
    <3>2. x[1] - c.a0 \in Nat /\ y[1] - c.a0 \in Nat
      BY <1>1
    <3> QED
      BY <1>1, <1>2, <3>1, <3>2
  <2>2. CASE c.first # "b"
    <3>1. (x[2] - c.b0) * (c.a1 - c.a0 + 1) + (x[1] - c.a0) = (y[2] - c.b0) * (c.a1 - c.a0 + 1) + (y[1] - c.a0)
      BY <2>2 DEF PlaceIn, RowSize
    <3>2. x[2] - c.b0 \in Nat /\ y[2] - c.b0 \in Nat
      BY <1>1
    <3> QED
      BY <1>1, <1>2, <3>1, <3>2
  <2> QED
    BY <2>1, <2>2
<1> QED
  BY <1>1, <1>3

IsMemory(m) == m = [plane \in Planes |-> [x \in Addresses |-> m[plane][x]]]

LEMMA SameWindow ==
  ASSUME NEW c \in Controllers, NEW d \in Controllers, MovedTo(c, d)
  PROVE  /\ Rows(d) = Rows(c) /\ RowSize(d) = RowSize(c) /\ d.plane = c.plane
         /\ \A x : (InWindow(d, x) <=> InWindow(c, x)) /\ PlaceIn(d, x) = PlaceIn(c, x)
         /\ \A e \in Controllers : MovedTo(d, e) => MovedTo(c, e)
<1>1. /\ d.a0 = c.a0 /\ d.a1 = c.a1 /\ d.b0 = c.b0 /\ d.b1 = c.b1 /\ d.first = c.first /\ d.plane = c.plane
  BY DEF MovedTo, Controllers
<1>2. ASSUME NEW e \in Controllers, MovedTo(d, e) PROVE MovedTo(c, e)
  BY <1>2 DEF MovedTo, Controllers
<1> QED
  BY <1>1, <1>2 DEF Rows, RowSize, InWindow, PlaceIn

ByteStored(m, after, p, x, byte) ==
  /\ IsMemory(after)
  /\ \A plane \in Planes, y \in Addresses : after[plane][y] = IF plane = p /\ y = x THEN byte ELSE m[plane][y]

LEMMA OneByte ==
  ASSUME NEW m, IsMemory(m), NEW p \in Planes, NEW x \in Addresses, NEW byte
  PROVE  ByteStored(m, [m EXCEPT ![p][x] = byte], p, x, byte)
<1> DEFINE after == [m EXCEPT ![p] = [m[p] EXCEPT ![x] = byte]]
<1>1. DOMAIN m = Planes /\ \A plane \in Planes : m[plane] = [y \in Addresses |-> m[plane][y]]
  BY DEF IsMemory
<1>2. \A plane \in Planes : after[plane] = IF plane = p THEN [m[p] EXCEPT ![x] = byte] ELSE m[plane]
  BY <1>1 DEF IsMemory
<1>3. \A y \in Addresses : [m[p] EXCEPT ![x] = byte][y] = IF y = x THEN byte ELSE m[p][y]
  BY <1>1
<1>4. \A plane \in Planes, y \in Addresses : after[plane][y] = IF plane = p /\ y = x THEN byte ELSE m[plane][y]
  <2> HIDE DEF after
  <2> QED
    BY <1>2, <1>3
<1>5. IsMemory(after)
  <2>1. DOMAIN after = Planes /\ after = [plane \in Planes |-> after[plane]]
    BY <1>1 DEF IsMemory
  <2>2. \A plane \in Planes : after[plane] = [y \in Addresses |-> after[plane][y]]
    <3> HIDE DEF after
    <3> SUFFICES ASSUME NEW plane \in Planes PROVE after[plane] = [y \in Addresses |-> after[plane][y]]
      OBVIOUS
    <3>1. CASE plane = p
      <4>1. after[plane] = [m[p] EXCEPT ![x] = byte] /\ m[p] = [y \in Addresses |-> m[p][y]]
        BY <1>1, <1>2, <3>1
      <4> QED
        BY <4>1
    <3>2. CASE plane # p
      BY <1>1, <1>2, <3>2
    <3> QED
      BY <3>1, <3>2
  <2> HIDE DEF after
  <2> QED
    BY <2>1, <2>2 DEF IsMemory
<1> QED
  BY <1>4, <1>5 DEF ByteStored

(* A transfer writes its bytes to the places from the pointer on.          *)
StreamWritten(c, m, after, first, n, bytes) ==
  /\ after.c \in Controllers /\ MovedTo(c, after.c) /\ InWindow(c, Pointer(after.c))
  /\ PlaceIn(c, Pointer(after.c)) = IF n > 0 /\ first + n = Rows(c) * RowSize(c) THEN 0 ELSE first + n
  /\ IsMemory(after.ram)
  /\ \A plane \in Planes, x \in Addresses :
       after.ram[plane][x] =
         IF plane = c.plane /\ InWindow(c, x) /\ PlaceIn(c, x) \in first .. first + n - 1
         THEN bytes[PlaceIn(c, x) - first + 1] ELSE m[plane][x]

LEMMA Streamed ==
  ASSUME kind \in Kinds, NEW c \in Controllers, InWindow(c, Pointer(c)), NEW memory, IsMemory(memory),
         NEW n \in Nat, NEW bytes, DOMAIN bytes = 1 .. n, NEW first \in Nat, first = PlaceIn(c, Pointer(c)),
         first + n <= Rows(c) * RowSize(c)
  PROVE  StreamWritten(c, memory, Written(c, memory, bytes), first, n, bytes)
<1> DEFINE Size == Rows(c) * RowSize(c)
           Fits(s, i) ==
             /\ s.c \in Controllers /\ MovedTo(c, s.c) /\ InWindow(c, Pointer(s.c))
             /\ PlaceIn(c, Pointer(s.c)) = IF i > 0 /\ first + i = Size THEN 0 ELSE first + i
             /\ IsMemory(s.ram)
             /\ \A plane \in Planes, x \in Addresses :
                  s.ram[plane][x] =
                    IF plane = c.plane /\ InWindow(c, x) /\ PlaceIn(c, x) \in first .. first + i - 1
                    THEN bytes[PlaceIn(c, x) - first + 1] ELSE memory[plane][x]
<1>1. PICK g : AreStages(g, c, memory, bytes, n)
  BY Stages
<1>0. LastAddress \in Nat
  BY AddressFits
<1>2. ASSUME NEW x \in Addresses, InWindow(c, x) PROVE PlaceIn(c, x) \in Nat
  <2>1. /\ c.a0 \in Nat /\ c.a1 \in Nat /\ c.b0 \in Nat /\ c.b1 \in Nat
        /\ x[1] \in c.a0 .. c.a1 /\ x[2] \in c.b0 .. c.b1
    BY <1>0, <1>2 DEF Controllers, InWindow, Addresses
  <2> DEFINE u == x[1] - c.a0   v == x[2] - c.b0   F == c.b1 - c.b0 + 1   G == c.a1 - c.a0 + 1
  <2>2. u \in Nat /\ v \in Nat /\ F \in Nat /\ G \in Nat
    <3>1. \A i, j \in Nat : \A k \in i .. j : k - i \in Nat /\ j - i + 1 \in Nat
      OBVIOUS
    <3> QED
      BY <2>1, <3>1
  <2>3. PlaceIn(c, x) = u * F + v \/ PlaceIn(c, x) = v * G + u
    BY DEF PlaceIn, RowSize
  <2> HIDE DEF u, v, F, G
  <2> QED
    BY <2>2, <2>3
<1>3. Fits(g[0], 0)
  <2>1. MovedTo(c, c)
    BY DEF MovedTo, Controllers
  <2>2. g[0].c = c /\ g[0].ram = memory
    BY <1>1 DEF AreStages
  <2>3. PlaceIn(c, Pointer(c)) = first + 0
    OBVIOUS
  <2>4. \A i \in Nat : ~ (i \in first .. first + 0 - 1)
    OBVIOUS
  <2>5. \A x \in Addresses : InWindow(c, x) => ~ (PlaceIn(c, x) \in first .. first + 0 - 1)
    BY <1>2, <2>4
  <2> QED
    BY <2>1, <2>2, <2>3, <2>5
<1>4. ASSUME NEW i \in 1 .. n, Fits(g[i - 1], i - 1) PROVE Fits(g[i], i)
  <2> DEFINE s == g[i - 1]   d == Advance(s.c)   q == Pointer(s.c)
  <2>1. g[i].c = d /\ g[i].ram = [s.ram EXCEPT ![s.c.plane][q] = bytes[i]]
    <3>1. g[i] = Stored(s, bytes[i])
      BY <1>1 DEF AreStages
    <3>2. Stored(s, bytes[i]).c = d /\ Stored(s, bytes[i]).ram = [s.ram EXCEPT ![s.c.plane][q] = bytes[i]]
      BY DEF Stored, Pointer
    <3> QED
      BY <3>1, <3>2
  <2>2. Size \in Nat /\ first + i <= Size /\ i \in Nat
    <3>1. Rows(c) * RowSize(c) \in Nat
      BY PointerAdvances
    <3> QED
      BY <3>1
  <2>3. /\ s.c \in Controllers /\ MovedTo(c, s.c) /\ InWindow(c, q) /\ IsMemory(s.ram)
        /\ PlaceIn(c, q) = first + i - 1
    BY <1>4, <2>2
  <2>4. /\ s.c.plane = c.plane /\ InWindow(s.c, q)
        /\ \A x : (InWindow(s.c, x) <=> InWindow(c, x)) /\ PlaceIn(s.c, x) = PlaceIn(c, x)
        /\ \A e \in Controllers : MovedTo(s.c, e) => MovedTo(c, e)
        /\ Rows(s.c) * RowSize(s.c) = Size
    <3> HIDE DEF s, q
    <3> QED
      BY <2>3, SameWindow
  <2>5. /\ d \in Controllers /\ MovedTo(s.c, d) /\ InWindow(s.c, Pointer(d))
        /\ PlaceIn(s.c, Pointer(d)) = IF PlaceIn(s.c, q) + 1 = Size THEN 0 ELSE PlaceIn(s.c, q) + 1
    <3>1. s.c \in Controllers /\ InWindow(s.c, Pointer(s.c))
      BY <2>3, <2>4
    <3> HIDE DEF s
    <3> QED
      BY <2>4, <3>1, PointerAdvances
  <2>6. PlaceIn(c, Pointer(d)) = IF i > 0 /\ first + i = Size THEN 0 ELSE first + i
    BY <2>2, <2>3, <2>4, <2>5
  <2>7. q \in Addresses /\ s.c.plane \in Planes
    <3>1. \A k : k \in 0 .. LastAddress => k \in Nat /\ k <= LastAddress
      BY <1>0
    <3>2. /\ s.c.a \in c.a0 .. c.a1 /\ s.c.b \in c.b0 .. c.b1 /\ s.c.plane \in Planes
          /\ c.a0 \in Nat /\ c.b0 \in Nat /\ c.a1 \in Nat /\ c.b1 \in Nat /\ c.a1 <= LastAddress /\ c.b1 <= LastAddress
      BY <2>3, <3>1 DEF InWindow, Pointer, Controllers
    <3>3. s.c.a \in 0 .. LastAddress /\ s.c.b \in 0 .. LastAddress
      <4>1. \A i0, j0 \in Nat : j0 <= LastAddress => \A k \in i0 .. j0 : k \in 0 .. LastAddress
        BY <1>0
      <4> HIDE DEF s
      <4> QED
        BY <3>2, <4>1
    <3> QED
      BY <3>2, <3>3 DEF Pointer, Addresses
  <2>8. /\ IsMemory(g[i].ram)
        /\ \A plane \in Planes, x \in Addresses :
             g[i].ram[plane][x] = IF plane = c.plane /\ x = q THEN bytes[i] ELSE s.ram[plane][x]
    <3> DEFINE p == s.c.plane   byte == bytes[i]
    <3>1. ByteStored(s.ram, [s.ram EXCEPT ![p][q] = byte], p, q, byte)
      <4>1. IsMemory(s.ram) /\ p \in Planes /\ q \in Addresses
        BY <2>3, <2>7
      <4> HIDE DEF s, q, p, byte
      <4> QED
        BY <4>1, OneByte
    <3>2. ByteStored(s.ram, g[i].ram, p, q, byte) /\ p = c.plane
      BY <2>1, <2>4, <3>1
    <3> HIDE DEF s, q, p, byte
    <3> QED
      BY <3>2 DEF ByteStored, byte
  <2>9. ASSUME NEW plane \in Planes, NEW x \in Addresses
        PROVE  g[i].ram[plane][x] =
                 IF plane = c.plane /\ InWindow(c, x) /\ PlaceIn(c, x) \in first .. first + i - 1
                 THEN bytes[PlaceIn(c, x) - first + 1] ELSE memory[plane][x]
    <3>1. s.ram[plane][x] =
            IF plane = c.plane /\ InWindow(c, x) /\ PlaceIn(c, x) \in first .. first + (i - 1) - 1
            THEN bytes[PlaceIn(c, x) - first + 1] ELSE memory[plane][x]
      BY <1>4
    <3>2. CASE x = q
      <4>1. PlaceIn(c, x) = first + i - 1 /\ InWindow(c, x) /\ PlaceIn(c, x) - first + 1 = i
        BY <2>2, <2>3, <3>2
      <4>2. PlaceIn(c, x) \in first .. first + i - 1 /\ ~ (PlaceIn(c, x) \in first .. first + (i - 1) - 1)
        BY <2>2, <4>1
      <4> HIDE DEF s, q
      <4> QED
        BY <2>8, <3>1, <3>2, <4>1, <4>2
    <3>3. CASE x # q
      <4>1. InWindow(c, x) => PlaceIn(c, x) # first + i - 1
        <5> HIDE DEF q
        <5> QED
          BY <2>3, <2>7, <3>3, PlacesDiffer
      <4>2. InWindow(c, x) => (PlaceIn(c, x) \in first .. first + i - 1 <=> PlaceIn(c, x) \in first .. first + (i - 1) - 1)
        <5>1. \A k \in Nat : k # first + i - 1 => (k \in first .. first + i - 1 <=> k \in first .. first + (i - 1) - 1)
          BY <2>2
        <5> QED
          BY <1>2, <4>1, <5>1
      <4> HIDE DEF s, q
      <4> QED
        BY <2>8, <3>1, <3>3, <4>2
    <3> QED
      BY <3>2, <3>3
  <2>10. g[i].c \in Controllers /\ MovedTo(c, g[i].c) /\ InWindow(c, Pointer(g[i].c))
    <3> HIDE DEF s, d, q
    <3> QED
      BY <2>1, <2>3, <2>4, <2>5
  <2>11. PlaceIn(c, Pointer(g[i].c)) = IF i > 0 /\ first + i = Size THEN 0 ELSE first + i
    <3> HIDE DEF s, d, q
    <3> QED
      BY <2>1, <2>6
  <2> HIDE DEF Size, s, d, q
  <2> QED
    BY <2>8, <2>9, <2>10, <2>11
<1> HIDE DEF Fits
<1> DEFINE T == {i \in 0 .. n : ~ Fits(g[i], i)}
<1>5. ASSUME NEW i \in T, \A j \in T : i <= j PROVE FALSE
  <2>1. i # 0
    BY <1>3
  <2>2. i \in 1 .. n /\ i - 1 \in 0 .. n /\ ~ (i <= i - 1)
    BY <2>1
  <2>3. Fits(g[i - 1], i - 1)
    BY <1>5, <2>2
  <2> QED
    BY <1>4, <2>2, <2>3
<1>6. T = {}
  <2>1. T \in SUBSET Nat
    OBVIOUS
  <2> HIDE DEF T
  <2> QED
    BY <1>5, <2>1, FirstOf
<1>7. Fits(g[n], n)
  BY <1>6
<1> QED
  BY <1>1, <1>7 DEF Fits, AreStages, StreamWritten

LEMMA OutOfReach ==
  ASSUME NEW m, IsMemory(m), NEW p \in Planes, NEW x, NEW byte
  PROVE  IsMemory([m EXCEPT ![p][x] = byte])
<1>1. CASE x \in Addresses
  BY <1>1, OneByte DEF ByteStored
<1>2. CASE x \notin Addresses
  <2>1. DOMAIN m[p] = Addresses
    BY DEF IsMemory
  <2>2. [m[p] EXCEPT ![x] = byte] = m[p]
    BY <1>2, <2>1 DEF IsMemory
  <2>3. [m EXCEPT ![p] = [m[p] EXCEPT ![x] = byte]] = m
    BY <2>2 DEF IsMemory
  <2> QED
    BY <2>3
<1> QED
  BY <1>1, <1>2

LEMMA AnyAdvance ==
  ASSUME kind \in Kinds, NEW c \in Controllers
  PROVE  Advance(c) \in Controllers /\ MovedTo(c, Advance(c))
<1> DEFINE d == Advance(c)
<1>1. LastAddress \in Nat
  BY AddressFits
<1>2. \A i \in Int, j, k \in 0 .. LastAddress : Next1(i, j, k) \in Int
  BY <1>1 DEF Next1
<1>3. PICK u \in Int, v \in Int : d = [c EXCEPT !.a = u, !.b = v]
  <2>1. CASE c.first = "b"
    <3>1. d = [c EXCEPT !.b = Next1(c.b, c.b0, c.b1), !.a = IF c.b >= c.b1 THEN Next1(c.a, c.a0, c.a1) ELSE c.a]
      BY <2>1 DEF Advance
    <3>2. /\ Next1(c.b, c.b0, c.b1) \in Int /\ (IF c.b >= c.b1 THEN Next1(c.a, c.a0, c.a1) ELSE c.a) \in Int
      BY <1>2 DEF Controllers
    <3>3. \A u, v : [c EXCEPT !.b = v, !.a = u] = [c EXCEPT !.a = u, !.b = v]
      BY DEF Controllers
    <3>4. PICK u \in Int, v \in Int :
            u = (IF c.b >= c.b1 THEN Next1(c.a, c.a0, c.a1) ELSE c.a) /\ v = Next1(c.b, c.b0, c.b1)
      BY <3>2
    <3>5. d = [c EXCEPT !.b = v, !.a = u]
      BY <3>1, <3>4
    <3>6. d = [c EXCEPT !.a = u, !.b = v]
      BY <3>3, <3>5
    <3> HIDE DEF d
    <3> QED
      BY <3>4, <3>6
  <2>2. CASE c.first # "b"
    <3>1. d = [c EXCEPT !.a = Next1(c.a, c.a0, c.a1), !.b = IF c.a >= c.a1 THEN Next1(c.b, c.b0, c.b1) ELSE c.b]
      BY <2>2 DEF Advance
    <3>2. /\ Next1(c.a, c.a0, c.a1) \in Int /\ (IF c.a >= c.a1 THEN Next1(c.b, c.b0, c.b1) ELSE c.b) \in Int
      BY <1>2 DEF Controllers
    <3> HIDE DEF d
    <3> QED
      BY <3>1, <3>2 DEF Controllers
  <2> QED
    BY <2>1, <2>2
<1> HIDE DEF d
<1>4. d \in Controllers /\ MovedTo(c, d)
  BY <1>3 DEF Controllers, MovedTo
<1> QED
  BY <1>4 DEF d

(* A transfer moves the pointer and nothing else of the controller.        *)
LEMMA TransferMoves ==
  ASSUME kind \in Kinds, NEW c \in Controllers, NEW m, IsMemory(m), NEW n \in Nat, NEW bytes, DOMAIN bytes = 1 .. n
  PROVE  LET after == Written(c, m, bytes)
         IN  after.c \in Controllers /\ MovedTo(c, after.c) /\ IsMemory(after.ram)
<1> DEFINE Fits(s) == s.c \in Controllers /\ MovedTo(c, s.c) /\ IsMemory(s.ram)
<1>1. PICK g : AreStages(g, c, m, bytes, n)
  BY Stages
<1>2. Fits(g[0])
  <2>1. g[0].c = c /\ g[0].ram = m
    BY <1>1 DEF AreStages
  <2>2. MovedTo(c, c)
    BY DEF MovedTo, Controllers
  <2> QED
    BY <2>1, <2>2
<1>3. ASSUME NEW i \in 1 .. n, Fits(g[i - 1]) PROVE Fits(g[i])
  <2> DEFINE s == g[i - 1]
  <2>1. g[i] = Stored(s, bytes[i])
    BY <1>1 DEF AreStages
  <2>2. /\ Stored(s, bytes[i]).c = Advance(s.c)
        /\ Stored(s, bytes[i]).ram = [s.ram EXCEPT ![s.c.plane][<<s.c.a, s.c.b>>] = bytes[i]]
    BY DEF Stored
  <2>3. s.c \in Controllers /\ MovedTo(c, s.c) /\ IsMemory(s.ram) /\ s.c.plane \in Planes
    BY <1>3 DEF Controllers
  <2>4. Advance(s.c) \in Controllers /\ MovedTo(c, Advance(s.c))
    <3>1. Advance(s.c) \in Controllers /\ MovedTo(s.c, Advance(s.c))
      BY <2>3, AnyAdvance
    <3> HIDE DEF s
    <3> QED
      BY <2>3, <3>1, SameWindow
  <2>5. IsMemory([s.ram EXCEPT ![s.c.plane][<<s.c.a, s.c.b>>] = bytes[i]])
    <3> HIDE DEF s
    <3> QED
      BY <2>3, OutOfReach
  <2> HIDE DEF s
  <2> QED
    BY <2>1, <2>2, <2>4, <2>5
<1> HIDE DEF Fits
<1> DEFINE T == {i \in 0 .. n : ~ Fits(g[i])}
<1>4. ASSUME NEW i \in T, \A j \in T : i <= j PROVE FALSE
  <2>1. i # 0
    BY <1>2
  <2>2. i \in 1 .. n /\ i - 1 \in 0 .. n /\ ~ (i <= i - 1)
    BY <2>1
  <2> QED
    BY <1>3, <1>4, <2>2
<1>5. T = {}
  <2>1. T \in SUBSET Nat
    OBVIOUS
  <2> HIDE DEF T
  <2> QED
    BY <1>4, <2>1, FirstOf
<1>6. Fits(g[n])
  BY <1>5
<1> QED
  BY <1>1, <1>6 DEF Fits, AreStages

-----------------------------------------------------------------------------
(* The state of a panel: its controller and its memory, and what the      *)
(* operations make of the controller.                                     *)
State(c, m) == [c |-> c, ram |-> m]
AtPlace(c, x, y) == [c EXCEPT !.a = x, !.b = y]
InOrder(c, f) == [c EXCEPT !.first = f]
OnPlane(c, p) == [c EXCEPT !.plane = p]
WithWindow(c, a0, a1, b0, b1) == [c EXCEPT !.a0 = a0, !.a1 = a1, !.b0 = b0, !.b1 = b1]
WithRows(c, b0, b1) == [c EXCEPT !.b0 = b0, !.b1 = b1, !.b = b0]

(* What the operations do to a controller that hears them.                 *)
Effect(s, o) ==
  IF o.op = "reset" THEN State(WideOpen, s.ram)
  ELSE IF o.op = "at" THEN State(AtPlace(s.c, o.a, o.b), s.ram)
  ELSE IF o.op = "window" THEN State(WithWindow(s.c, o.a0, o.a1, o.b0, o.b1), s.ram)
  ELSE IF o.op = "rows" THEN State(WithRows(s.c, o.b0, o.b1), s.ram)
  ELSE IF o.op = "order" THEN State(InOrder(s.c, o.first), s.ram)
  ELSE IF o.op = "plane" THEN State(OnPlane(s.c, o.plane), s.ram)
  ELSE IF o.op = "data" THEN Written(s.c, s.ram, o.bytes)
  ELSE s

LEMMA EffectIs ==
  \A s, o :
    /\ o.op = "reset" => Effect(s, o) = State(WideOpen, s.ram)
    /\ o.op = "at" => Effect(s, o) = State(AtPlace(s.c, o.a, o.b), s.ram)
    /\ o.op = "window" => Effect(s, o) = State(WithWindow(s.c, o.a0, o.a1, o.b0, o.b1), s.ram)
    /\ o.op = "rows" => Effect(s, o) = State(WithRows(s.c, o.b0, o.b1), s.ram)
    /\ o.op = "order" => Effect(s, o) = State(InOrder(s.c, o.first), s.ram)
    /\ o.op = "plane" => Effect(s, o) = State(OnPlane(s.c, o.plane), s.ram)
    /\ o.op = "data" => Effect(s, o) = Written(s.c, s.ram, o.bytes)
    /\ o.op \notin {"reset", "at", "window", "rows", "order", "plane", "data"} => Effect(s, o) = s
  BY DEF Effect

LEMMA StateParts == \A c, m : State(c, m).c = c /\ State(c, m).ram = m
  BY DEF State

LEMMA SameEffect == ASSUME kind' = kind, NEW s, NEW o PROVE Effect(s, o)' = Effect(s, o)
  BY DEF Effect, State, WideOpen, AtPlace, WithWindow, WithRows, InOrder, OnPlane, LastAddress, LastColumn, Height, Pages

(* The operations p lead from s to t; h are the states between.            *)
Between(s, p, t, h) ==
  /\ h[0] = s /\ h[Len(p)] = t
  /\ \A i \in 1 .. Len(p) : h[i] = Effect(h[i - 1], p[i])
Leads(s, p, t) == \E h : Between(s, p, t, h)

LEMMA NothingLeads == \A s : Leads(s, <<>>, s)
<1> SUFFICES ASSUME NEW s PROVE Leads(s, <<>>, s)
  OBVIOUS
<1>1. Between(s, <<>>, s, [i \in {0} |-> s])
  BY DEF Between
<1> QED
  BY <1>1 DEF Leads

LEMMA FirstLeads ==
  ASSUME NEW S, NEW p \in Seq(S), p # <<>>, NEW s, NEW t, Leads(Effect(s, Head(p)), Tail(p), t)
  PROVE  Leads(s, p, t)
<1>1. PICK h : Between(Effect(s, Head(p)), Tail(p), t, h)
  BY DEF Leads
<1> DEFINE g == [i \in 0 .. Len(p) |-> IF i = 0 THEN s ELSE h[i - 1]]
<1>2. /\ Len(p) \in Nat \ {0} /\ Len(Tail(p)) = Len(p) - 1 /\ Head(p) = p[1]
      /\ \A i \in 1 .. Len(Tail(p)) : Tail(p)[i] = p[i + 1]
  OBVIOUS
<1>3. h[0] = Effect(s, p[1]) /\ h[Len(p) - 1] = t /\ \A i \in 1 .. Len(p) - 1 : h[i] = Effect(h[i - 1], p[i + 1])
  BY <1>1, <1>2 DEF Between
<1>4. g[0] = s /\ g[Len(p)] = t
  BY <1>2, <1>3
<1>5. ASSUME NEW i \in 1 .. Len(p) PROVE g[i] = Effect(g[i - 1], p[i])
  <2>1. g[i] = h[i - 1]
    BY <1>2
  <2>2. CASE i = 1
    BY <1>2, <1>3, <2>1, <2>2
  <2>3. CASE i # 1
    <3>1. i - 1 \in 1 .. Len(p) - 1 /\ i - 1 \in 0 .. Len(p) /\ i - 1 # 0 /\ i - 1 + 1 = i /\ i - 1 - 1 = i - 2
      BY <1>2, <2>3
    <3>2. h[i - 1] = Effect(h[i - 2], p[i])
      BY <1>3, <3>1
    <3>3. g[i - 1] = h[i - 2]
      BY <3>1
    <3> QED
      BY <2>1, <3>2, <3>3
  <2> QED
    BY <2>2, <2>3
<1> HIDE DEF g
<1>6. Between(s, p, t, g)
  BY <1>4, <1>5 DEF Between
<1> QED
  BY <1>6 DEF Leads

LEMMA LeadsInTwo ==
  ASSUME NEW S, NEW p \in Seq(S), NEW q \in Seq(S), NEW s, NEW t, Leads(s, p \o q, t)
  PROVE  \E u : Leads(s, p, u) /\ Leads(u, q, t)
<1> DEFINE n == Len(p)   m == Len(q)   r == p \o q
<1>1. PICK h : Between(s, r, t, h)
  BY DEF Leads
<1>2. /\ n \in Nat /\ m \in Nat /\ Len(r) = n + m
      /\ \A i \in 1 .. n : r[i] = p[i]
      /\ \A i \in 1 .. m : r[n + i] = q[i]
  OBVIOUS
<1> HIDE DEF r
<1>3. h[0] = s /\ h[n + m] = t /\ \A i \in 1 .. n + m : h[i] = Effect(h[i - 1], r[i])
  BY <1>1, <1>2 DEF Between
<1> HIDE DEF n, m
<1>4. ASSUME NEW i \in 1 .. n PROVE h[i] = Effect(h[i - 1], p[i])
  BY <1>2, <1>3
<1> DEFINE g == [i \in 0 .. m |-> h[n + i]]
<1>5. g[0] = h[n] /\ g[m] = t
  BY <1>2, <1>3
<1>6. ASSUME NEW i \in 1 .. m PROVE g[i] = Effect(g[i - 1], q[i])
  <2>1. n + i \in 1 .. n + m /\ n + i - 1 = n + (i - 1) /\ i - 1 \in 0 .. m /\ i \in 0 .. m
    BY <1>2
  <2>2. h[n + i] = Effect(h[n + i - 1], r[n + i]) /\ r[n + i] = q[i]
    BY <1>2, <1>3, <2>1
  <2> QED
    BY <2>1, <2>2
<1> HIDE DEF g
<1>7. Leads(s, p, h[n])
  BY <1>3, <1>4 DEF Leads, Between, n
<1>8. Leads(h[n], q, t)
  BY <1>5, <1>6 DEF Leads, Between, m
<1> QED
  BY <1>7, <1>8

LEMMA OneLeads == ASSUME NEW s, NEW o, NEW t, Leads(s, <<o>>, t) PROVE t = Effect(s, o)
<1>1. PICK h : Between(s, <<o>>, t, h)
  BY DEF Leads
<1>2. Len(<<o>>) = 1 /\ <<o>>[1] = o /\ 1 \in 1 .. 1 /\ 1 - 1 = 0
  OBVIOUS
<1> QED
  BY <1>1, <1>2 DEF Between

-----------------------------------------------------------------------------
(* Where a window's places are, and that a transfer fills the window.      *)

SlowOf(c, x) == IF c.first = "b" THEN x[1] - c.a0 ELSE x[2] - c.b0
FastOf(c, x) == IF c.first = "b" THEN x[2] - c.b0 ELSE x[1] - c.a0

LEMMA PlaceFits ==
  ASSUME kind \in Kinds, NEW c \in Controllers, NEW x, InWindow(c, x)
  PROVE  /\ Rows(c) \in Nat \ {0} /\ RowSize(c) \in Nat \ {0}
         /\ SlowOf(c, x) \in 0 .. Rows(c) - 1 /\ FastOf(c, x) \in 0 .. RowSize(c) - 1
         /\ PlaceIn(c, x) = SlowOf(c, x) * RowSize(c) + FastOf(c, x)
<1>1. /\ c.a0 \in Nat /\ c.a1 \in Nat /\ c.b0 \in Nat /\ c.b1 \in Nat
      /\ x[1] \in c.a0 .. c.a1 /\ x[2] \in c.b0 .. c.b1
  BY AddressFits DEF Controllers, InWindow
<1>2. ASSUME NEW i \in Nat, NEW j \in Nat, NEW k \in i .. j
      PROVE  j - i + 1 \in Nat \ {0} /\ k - i \in 0 .. (j - i + 1) - 1
  OBVIOUS
<1>3. /\ c.a1 - c.a0 + 1 \in Nat \ {0} /\ x[1] - c.a0 \in 0 .. (c.a1 - c.a0 + 1) - 1
      /\ c.b1 - c.b0 + 1 \in Nat \ {0} /\ x[2] - c.b0 \in 0 .. (c.b1 - c.b0 + 1) - 1
  BY <1>1, <1>2
<1>4. CASE c.first = "b"
  BY <1>3, <1>4 DEF Rows, RowSize, SlowOf, FastOf, PlaceIn
<1>5. CASE c.first # "b"
  BY <1>3, <1>5 DEF Rows, RowSize, SlowOf, FastOf, PlaceIn
<1> QED
  BY <1>4, <1>5

(* A transfer into one line of the window, from its place f on.            *)
LineIsWritten(c, m, after, k, f, n, bytes) ==
  /\ after.c \in Controllers /\ MovedTo(c, after.c) /\ InWindow(c, Pointer(after.c))
  /\ PlaceIn(c, Pointer(after.c)) =
       IF k = Rows(c) - 1 /\ f + n = RowSize(c) THEN 0 ELSE k * RowSize(c) + f + n
  /\ IsMemory(after.ram)
  /\ \A plane \in Planes, x \in Addresses :
       after.ram[plane][x] =
         IF plane = c.plane /\ InWindow(c, x) /\ SlowOf(c, x) = k /\ FastOf(c, x) \in f .. f + n - 1
         THEN bytes[FastOf(c, x) - f + 1] ELSE m[plane][x]

LEMMA LineWritten ==
  ASSUME kind \in Kinds, NEW c \in Controllers, InWindow(c, Pointer(c)), NEW m, IsMemory(m),
         NEW k \in 0 .. Rows(c) - 1, NEW f \in Nat, NEW n \in Nat \ {0}, f + n <= RowSize(c),
         PlaceIn(c, Pointer(c)) = k * RowSize(c) + f, NEW bytes, DOMAIN bytes = 1 .. n
  PROVE  LineIsWritten(c, m, Written(c, m, bytes), k, f, n, bytes)
<1> DEFINE F == RowSize(c)   S == Rows(c)   first == k * F + f   after == Written(c, m, bytes)
<1>1. F \in Nat \ {0} /\ S \in Nat \ {0}
  BY PlaceFits
<1>2. k \in 0 .. S - 1 /\ k \in Nat /\ S * F \in Nat /\ k * F \in Nat /\ first \in Nat /\ f + n <= F /\ f \in Nat /\ n \in Nat \ {0}
  <2>1. k \in 0 .. S - 1 /\ k \in Nat
    BY <1>1
  <2> HIDE DEF S, F
  <2> QED
    BY <1>1, <2>1 DEF F
<1>3. /\ (k + 1) * F <= S * F /\ (k + 1) * F = k * F + F
      /\ k = S - 1 => (k + 1) * F = S * F
      /\ k # S - 1 => (k + 1) * F < S * F
  <2> HIDE DEF F, S
  <2>1. F - 1 \in 0 .. F - 1 /\ k * F + (F - 1) + 1 = (k + 1) * F
    BY <1>1, <1>2
  <2>2. k * F + (F - 1) \in 0 .. S * F - 1
    BY <1>1, <1>2, <2>1, NextPlace
  <2>3. k # S - 1 => k * F + (F - 1) + 1 < S * F
    BY <1>1, <1>2, <2>1, NextPlace
  <2>4. k = S - 1 => (k + 1) * F = S * F
    BY <1>1, <1>2
  <2> QED
    BY <1>1, <1>2, <2>1, <2>2, <2>3, <2>4
<1>4. first + n <= S * F /\ (first + n = S * F <=> k = S - 1 /\ f + n = F)
  <2> HIDE DEF F, S
  <2>1. PICK a \in Nat, b \in Nat : a = k * F /\ b = S * F
    BY <1>2
  <2>2. a + F <= b /\ (k = S - 1 => a + F = b) /\ (k # S - 1 => a + F < b)
    BY <1>3, <2>1
  <2> QED
    BY <1>1, <1>2, <2>1, <2>2
<1>5. /\ after.c \in Controllers /\ MovedTo(c, after.c) /\ InWindow(c, Pointer(after.c))
      /\ PlaceIn(c, Pointer(after.c)) = IF n > 0 /\ first + n = S * F THEN 0 ELSE first + n
      /\ IsMemory(after.ram)
      /\ \A plane \in Planes, x \in Addresses :
           after.ram[plane][x] =
             IF plane = c.plane /\ InWindow(c, x) /\ PlaceIn(c, x) \in first .. first + n - 1
             THEN bytes[PlaceIn(c, x) - first + 1] ELSE m[plane][x]
  <2>1. first = PlaceIn(c, Pointer(c)) /\ first + n <= Rows(c) * RowSize(c) /\ n \in Nat /\ first \in Nat
    BY <1>2, <1>4
  <2> HIDE DEF first, S, F
  <2>2. StreamWritten(c, m, after, first, n, bytes)
    BY <2>1, Streamed
  <2> HIDE DEF after
  <2> QED
    BY <2>2 DEF StreamWritten, S, F
<1>6. ASSUME NEW x \in Addresses, InWindow(c, x)
      PROVE  /\ PlaceIn(c, x) \in first .. first + n - 1 <=> SlowOf(c, x) = k /\ FastOf(c, x) \in f .. f + n - 1
             /\ SlowOf(c, x) = k => PlaceIn(c, x) - first + 1 = FastOf(c, x) - f + 1
  <2> DEFINE s == SlowOf(c, x)   g == FastOf(c, x)   p == PlaceIn(c, x)
  <2>1. s \in Nat /\ g \in 0 .. F - 1 /\ p = s * F + g
    <3>1. s \in 0 .. S - 1 /\ g \in 0 .. F - 1 /\ p = s * F + g
      BY <1>6, PlaceFits
    <3> HIDE DEF s, g, p, S, F
    <3> QED
      BY <1>1, <3>1
  <2> HIDE DEF s, g, p, F
  <2>2. s = k => p - first + 1 = g - f + 1 /\ (p \in first .. first + n - 1 <=> g \in f .. f + n - 1)
    <3> SUFFICES ASSUME s = k PROVE p - first + 1 = g - f + 1 /\ (p \in first .. first + n - 1 <=> g \in f .. f + n - 1)
      OBVIOUS
    <3>1. PICK a \in Nat : a = k * F
      BY <1>2
    <3>2. p = a + g /\ first = a + f /\ g \in Nat
      BY <1>1, <2>1, <3>1
    <3>3. n \in Nat /\ f \in Nat
      BY <1>2
    <3>4. p - first + 1 = g - f + 1
      BY <3>1, <3>2, <3>3
    <3>5. p \in first .. first + n - 1 <=> g \in f .. f + n - 1
      <4> HIDE DEF first
      <4> QED
        BY <3>1, <3>2, <3>3
    <3> QED
      BY <3>4, <3>5
  <2>3. p \in first .. first + n - 1 => s = k
    <3> SUFFICES ASSUME p \in first .. first + n - 1 PROVE s = k
      OBVIOUS
    <3> DEFINE j == p - first
    <3>1. j \in 0 .. n - 1 /\ p = first + j
      <4> HIDE DEF first
      <4> QED
        BY <1>2
    <3> HIDE DEF j
    <3>2. f + j \in 0 .. F - 1 /\ s * F + g = k * F + (f + j)
      <4>1. f + j \in 0 .. F - 1
        BY <1>1, <1>2, <3>1
      <4>2. s * F + g = first + j /\ k * F \in Nat /\ f \in Nat /\ j \in Nat
        BY <1>2, <2>1, <3>1
      <4> QED
        BY <4>1, <4>2
    <3> QED
      BY <1>1, <1>2, <2>1, <3>2, SamePlace
  <2> QED
    BY <2>2, <2>3 DEF s, g, p
<1>7. \A plane \in Planes, x \in Addresses :
        after.ram[plane][x] =
          IF plane = c.plane /\ InWindow(c, x) /\ SlowOf(c, x) = k /\ FastOf(c, x) \in f .. f + n - 1
          THEN bytes[FastOf(c, x) - f + 1] ELSE m[plane][x]
  <2> SUFFICES ASSUME NEW plane \in Planes, NEW x \in Addresses
               PROVE  after.ram[plane][x] =
                        IF plane = c.plane /\ InWindow(c, x) /\ SlowOf(c, x) = k /\ FastOf(c, x) \in f .. f + n - 1
                        THEN bytes[FastOf(c, x) - f + 1] ELSE m[plane][x]
    OBVIOUS
  <2> HIDE DEF after, first
  <2> QED
    BY <1>5, <1>6
<1>8. PlaceIn(c, Pointer(after.c)) = IF k = S - 1 /\ f + n = F THEN 0 ELSE k * F + f + n
  BY <1>2, <1>4, <1>5
<1> HIDE DEF after
<1> QED
  BY <1>5, <1>7, <1>8 DEF LineIsWritten, after

(* The window filled line by line, what is sent being line by line.        *)
WindowIsFilled(c, m, s, line) ==
  /\ s.c \in Controllers /\ MovedTo(c, s.c) /\ InWindow(c, Pointer(s.c))
  /\ PlaceIn(c, Pointer(s.c)) = 0 /\ IsMemory(s.ram)
  /\ \A plane \in Planes, x \in Addresses :
       s.ram[plane][x] =
         IF plane = c.plane /\ InWindow(c, x) THEN line[SlowOf(c, x) + 1][FastOf(c, x) + 1] ELSE m[plane][x]

LEMMA WindowFilled ==
  ASSUME kind \in Kinds, NEW c \in Controllers, InWindow(c, Pointer(c)), PlaceIn(c, Pointer(c)) = 0,
         NEW m, IsMemory(m), NEW line, NEW u, u[0] = [c |-> c, ram |-> m],
         \A k \in 1 .. Rows(c) : /\ u[k] = Effect(u[k - 1], Data(line[k]))
                                 /\ DOMAIN line[k] = 1 .. RowSize(c)
  PROVE  WindowIsFilled(c, m, u[Rows(c)], line)
<1> DEFINE F == RowSize(c)   S == Rows(c)
           Fits(s, k) ==
             /\ s.c \in Controllers /\ MovedTo(c, s.c) /\ InWindow(c, Pointer(s.c)) /\ IsMemory(s.ram)
             /\ PlaceIn(c, Pointer(s.c)) = IF k = S THEN 0 ELSE k * F
             /\ \A plane \in Planes, x \in Addresses :
                  s.ram[plane][x] =
                    IF plane = c.plane /\ InWindow(c, x) /\ SlowOf(c, x) < k
                    THEN line[SlowOf(c, x) + 1][FastOf(c, x) + 1] ELSE m[plane][x]
<1>1. F \in Nat \ {0} /\ S \in Nat \ {0}
  BY PlaceFits
<1>2. \A x \in Addresses : InWindow(c, x) => SlowOf(c, x) \in 0 .. S - 1 /\ FastOf(c, x) \in 0 .. F - 1
  BY PlaceFits
<1>3. Fits(u[0], 0)
  <2>1. MovedTo(c, c)
    BY DEF MovedTo, Controllers
  <2>2. \A x \in Addresses : InWindow(c, x) => ~ (SlowOf(c, x) < 0)
    <3> HIDE DEF S
    <3> QED
      BY <1>1, <1>2
  <2>3. 0 # S /\ 0 * F = 0
    <3> HIDE DEF S, F
    <3> QED
      BY <1>1
  <2> HIDE DEF S, F
  <2> QED
    BY <2>1, <2>2, <2>3
<1>4. ASSUME NEW k \in 1 .. S, Fits(u[k - 1], k - 1) PROVE Fits(u[k], k)
  <2> DEFINE s == u[k - 1]   d == s.c   bytes == line[k]   after == Written(d, s.ram, bytes)
  <2>1. u[k] = after /\ DOMAIN bytes = 1 .. F
    <3>1. u[k] = Effect(s, Data(bytes)) /\ DOMAIN bytes = 1 .. F
      OBVIOUS
    <3>2. Effect(s, Data(bytes)) = after
      BY EffectIs DEF Data
    <3> QED
      BY <3>1, <3>2
  <2>2. d \in Controllers /\ MovedTo(c, d) /\ IsMemory(s.ram) /\ InWindow(c, Pointer(d))
    BY <1>4
  <2>3. /\ Rows(d) = S /\ RowSize(d) = F /\ d.plane = c.plane
        /\ \A x : (InWindow(d, x) <=> InWindow(c, x)) /\ PlaceIn(d, x) = PlaceIn(c, x)
        /\ \A e \in Controllers : MovedTo(d, e) => MovedTo(c, e)
        /\ \A x : SlowOf(d, x) = SlowOf(c, x) /\ FastOf(d, x) = FastOf(c, x)
    <3>1. d.a0 = c.a0 /\ d.b0 = c.b0 /\ d.first = c.first
      BY <2>2 DEF MovedTo, Controllers
    <3> HIDE DEF d
    <3> QED
      BY <2>2, <3>1, SameWindow DEF SlowOf, FastOf
  <2>4. LineIsWritten(d, s.ram, after, k - 1, 0, F, bytes)
    <3>1. /\ k - 1 \in 0 .. Rows(d) - 1 /\ InWindow(d, Pointer(d)) /\ 0 + F <= RowSize(d) /\ 0 \in Nat
          /\ DOMAIN bytes = 1 .. F /\ F \in Nat \ {0}
      <4> HIDE DEF S, F, s, d, bytes
      <4> QED
        BY <1>1, <2>1, <2>2, <2>3
    <3>2. PlaceIn(d, Pointer(d)) = (k - 1) * RowSize(d) + 0
      <4>1. PlaceIn(c, Pointer(d)) = (k - 1) * F
        <5>1. k - 1 # S
          <6> HIDE DEF S
          <6> QED
            BY <1>1
        <5> QED
          BY <1>4, <5>1
      <4>2. (k - 1) * F + 0 = (k - 1) * F
        <5> HIDE DEF F, S
        <5> QED
          BY <1>1
      <4> HIDE DEF d, F, s
      <4> QED
        BY <2>3, <4>1, <4>2
    <3> HIDE DEF S, F, s, d, bytes
    <3> QED
      BY <2>2, <3>1, <3>2, LineWritten
  <2>5. /\ after.c \in Controllers /\ MovedTo(d, after.c) /\ InWindow(d, Pointer(after.c))
        /\ PlaceIn(d, Pointer(after.c)) =
             IF k - 1 = Rows(d) - 1 /\ 0 + F = RowSize(d) THEN 0 ELSE (k - 1) * RowSize(d) + 0 + F
        /\ IsMemory(after.ram)
        /\ \A plane \in Planes, x \in Addresses :
             after.ram[plane][x] =
               IF plane = d.plane /\ InWindow(d, x) /\ SlowOf(d, x) = k - 1 /\ FastOf(d, x) \in 0 .. 0 + F - 1
               THEN bytes[FastOf(d, x) - 0 + 1] ELSE s.ram[plane][x]
    <3> HIDE DEF after, S, F, s, d, bytes
    <3> QED
      BY <2>4 DEF LineIsWritten
  <2>6. PlaceIn(c, Pointer(after.c)) = IF k = S THEN 0 ELSE k * F
    <3>1. (k - 1) * F + 0 + F = k * F /\ 0 + F = F /\ (k - 1 = S - 1 <=> k = S)
      <4> HIDE DEF F, S
      <4>1. k \in Nat
        BY <1>1
      <4> QED
        BY <1>1, <4>1
    <3> HIDE DEF after, d, F, S
    <3> QED
      BY <2>3, <2>5, <3>1
  <2>7. ASSUME NEW plane \in Planes, NEW x \in Addresses
        PROVE  after.ram[plane][x] =
                 IF plane = c.plane /\ InWindow(c, x) /\ SlowOf(c, x) < k
                 THEN line[SlowOf(c, x) + 1][FastOf(c, x) + 1] ELSE m[plane][x]
    <3>1. s.ram[plane][x] =
            IF plane = c.plane /\ InWindow(c, x) /\ SlowOf(c, x) < k - 1
            THEN line[SlowOf(c, x) + 1][FastOf(c, x) + 1] ELSE m[plane][x]
      BY <1>4
    <3>2. after.ram[plane][x] =
            IF plane = c.plane /\ InWindow(c, x) /\ SlowOf(c, x) = k - 1 /\ FastOf(c, x) \in 0 .. 0 + F - 1
            THEN line[k][FastOf(c, x) - 0 + 1] ELSE s.ram[plane][x]
      <4> HIDE DEF after, d, F, S, s
      <4> QED
        BY <2>3, <2>5
    <3>3. InWindow(c, x) =>
            /\ SlowOf(c, x) = k - 1 => SlowOf(c, x) + 1 = k /\ SlowOf(c, x) < k /\ FastOf(c, x) \in 0 .. 0 + F - 1
                                       /\ FastOf(c, x) - 0 + 1 = FastOf(c, x) + 1
            /\ SlowOf(c, x) # k - 1 => (SlowOf(c, x) < k - 1 <=> SlowOf(c, x) < k)
      <4> HIDE DEF F, S
      <4> QED
        BY <1>1, <1>2
    <3> HIDE DEF after, s, F, S
    <3> QED
      BY <3>1, <3>2, <3>3
  <2>8. MovedTo(c, after.c) /\ InWindow(c, Pointer(after.c))
    <3> HIDE DEF after, d
    <3> QED
      BY <2>3, <2>5
  <2> HIDE DEF after, s, d, bytes, S, F
  <2> QED
    BY <2>1, <2>5, <2>6, <2>7, <2>8
<1> HIDE DEF Fits
<1> DEFINE T == {k \in 0 .. S : ~ Fits(u[k], k)}
<1>5. ASSUME NEW k \in T, \A j \in T : k <= j PROVE FALSE
  <2> HIDE DEF S
  <2>1. k # 0
    BY <1>3
  <2>2. k \in 1 .. S /\ k - 1 \in 0 .. S /\ ~ (k <= k - 1)
    BY <1>1, <2>1
  <2> QED
    BY <1>4, <1>5, <2>2
<1>6. T = {}
  <2>1. T \in SUBSET Nat
    OBVIOUS
  <2> HIDE DEF T
  <2> QED
    BY <1>5, <2>1, FirstOf
<1>7. Fits(u[S], S)
  <2>1. S \in 0 .. S
    <3> HIDE DEF S
    <3> QED
      BY <1>1
  <2> HIDE DEF S
  <2> QED
    BY <1>6, <2>1
<1>8. \A plane \in Planes, x \in Addresses :
        u[S].ram[plane][x] = IF plane = c.plane /\ InWindow(c, x) THEN line[SlowOf(c, x) + 1][FastOf(c, x) + 1] ELSE m[plane][x]
  <2>1. \A x \in Addresses : InWindow(c, x) => SlowOf(c, x) < S
    <3> HIDE DEF S
    <3> QED
      BY <1>1, <1>2
  <2> HIDE DEF S
  <2> QED
    BY <1>7, <2>1 DEF Fits
<1> QED
  BY <1>7, <1>8 DEF Fits, WindowIsFilled

(* The window of a controller that nobody has set.                         *)
IsWide(c) == c.first = "b" /\ c.a0 = 0 /\ c.a1 = LastAddress /\ c.b0 = 0 /\ c.b1 = LastAddress

LEMMA WideWindow ==
  ASSUME kind \in Kinds, NEW c \in Controllers, IsWide(c)
  PROVE  /\ Rows(c) = LastAddress + 1 /\ RowSize(c) = LastAddress + 1
         /\ \A x \in Addresses : /\ InWindow(c, x) /\ SlowOf(c, x) = x[1] /\ FastOf(c, x) = x[2]
                                 /\ PlaceIn(c, x) = x[1] * (LastAddress + 1) + x[2]
         /\ \A d \in Controllers : MovedTo(c, d) => IsWide(d)
<1>1. LastAddress \in Nat
  BY AddressFits
<1>2. Rows(c) = LastAddress + 1 /\ RowSize(c) = LastAddress + 1
  <2> HIDE DEF LastAddress
  <2> QED
    BY <1>1 DEF IsWide, Rows, RowSize
<1>3. ASSUME NEW x \in Addresses
      PROVE  /\ InWindow(c, x) /\ SlowOf(c, x) = x[1] /\ FastOf(c, x) = x[2]
             /\ PlaceIn(c, x) = x[1] * (LastAddress + 1) + x[2]
  <2>1. x[1] \in 0 .. LastAddress /\ x[2] \in 0 .. LastAddress
    BY DEF Addresses
  <2>2. x[1] - 0 = x[1] /\ x[2] - 0 = x[2]
    BY <1>1, <2>1
  <2>3. InWindow(c, x) /\ SlowOf(c, x) = x[1] /\ FastOf(c, x) = x[2]
    BY <2>1, <2>2 DEF IsWide, InWindow, SlowOf, FastOf
  <2>4. PlaceIn(c, x) = (x[1] - 0) * (LastAddress + 1) + (x[2] - 0)
    BY <1>2 DEF IsWide, PlaceIn
  <2> QED
    BY <2>2, <2>3, <2>4
<1>4. ASSUME NEW d \in Controllers, MovedTo(c, d) PROVE IsWide(d)
  BY <1>4 DEF IsWide, MovedTo, Controllers
<1> QED
  BY <1>2, <1>3, <1>4

(* Pages sent one by one, each after its address.                          *)
LEMMA PagesSent ==
  ASSUME kind \in Kinds, NEW c \in Controllers, IsWide(c), NEW m, IsMemory(m),
         NEW n \in Nat, n <= LastAddress + 1, NEW size \in Nat \ {0}, Offset + size <= LastAddress + 1,
         NEW line, NEW u, u[0] = [c |-> c, ram |-> m],
         \A k \in 1 .. n : /\ u[k] = Effect(Effect(u[k - 1], At(k - 1, Offset)), Data(line[k]))
                           /\ DOMAIN line[k] = 1 .. size
  PROVE  \A x \in Addresses :
           x[1] < n /\ x[2] \in Offset .. Offset + size - 1 =>
             u[n].ram[c.plane][x] = line[x[1] + 1][x[2] - Offset + 1]
<1> DEFINE Fits(s, k) ==
             /\ s.c \in Controllers /\ IsWide(s.c) /\ s.c.plane = c.plane /\ IsMemory(s.ram)
             /\ s = [c |-> s.c, ram |-> s.ram]
             /\ \A x \in Addresses :
                  x[1] < k /\ x[2] \in Offset .. Offset + size - 1 =>
                    s.ram[c.plane][x] = line[x[1] + 1][x[2] - Offset + 1]
<1>1. LastAddress \in Nat /\ Offset \in Nat
  BY AddressFits
<1>2. \A x \in Addresses : x[1] \in Nat /\ x[2] \in Nat
  BY <1>1 DEF Addresses
<1>3. Fits(u[0], 0)
  BY <1>2
<1>4. ASSUME NEW k \in 1 .. n, Fits(u[k - 1], k - 1) PROVE Fits(u[k], k)
  <2> DEFINE s == u[k - 1]   d == [s.c EXCEPT !.a = k - 1, !.b = Offset]   bytes == line[k]   after == Written(d, s.ram, bytes)
  <2>1. u[k] = after /\ DOMAIN bytes = 1 .. size
    <3>1. u[k] = Effect(Effect(s, At(k - 1, Offset)), Data(bytes)) /\ DOMAIN bytes = 1 .. size
      OBVIOUS
    <3>2. Effect(s, At(k - 1, Offset)) = State(d, s.ram)
      <4>1. \A x : Effect(x, At(k - 1, Offset)) = State(AtPlace(x.c, k - 1, Offset), x.ram)
        BY EffectIs DEF At
      <4> HIDE DEF s
      <4> QED
        BY <4>1 DEF AtPlace
    <3>4. Effect(State(d, s.ram), Data(bytes)) = after
      <4>1. \A x : Effect(x, Data(bytes)) = Written(x.c, x.ram, bytes)
        BY EffectIs DEF Data
      <4> HIDE DEF d, s
      <4> QED
        BY <4>1, StateParts
    <3> HIDE DEF after
    <3> QED
      BY <3>1, <3>2, <3>4
  <2>2. /\ d \in Controllers /\ IsWide(d) /\ d.plane = c.plane /\ Pointer(d) = <<k - 1, Offset>>
        /\ IsMemory(s.ram)
    <3>1. s.c \in Controllers /\ IsWide(s.c) /\ s.c.plane = c.plane /\ IsMemory(s.ram)
      BY <1>4
    <3>2. k - 1 \in Int /\ Offset \in Int
      BY <1>1
    <3>3. d \in Controllers
      <4> HIDE DEF s
      <4> QED
        BY <3>1, <3>2 DEF Controllers
    <3>4. IsWide(d) /\ d.plane = c.plane /\ Pointer(d) = <<k - 1, Offset>>
      <4> HIDE DEF s
      <4> QED
        BY <3>1 DEF Controllers, IsWide, Pointer
    <3> QED
      BY <3>1, <3>3, <3>4
  <2> HIDE DEF d
  <2>3. <<k - 1, Offset>> \in Addresses /\ k - 1 \in 0 .. LastAddress
    BY <1>1 DEF Addresses
  <2>4. /\ Rows(d) = LastAddress + 1 /\ RowSize(d) = LastAddress + 1
        /\ \A x \in Addresses : /\ InWindow(d, x) /\ SlowOf(d, x) = x[1] /\ FastOf(d, x) = x[2]
                                /\ PlaceIn(d, x) = x[1] * (LastAddress + 1) + x[2]
        /\ \A e \in Controllers : MovedTo(d, e) => IsWide(e)
    BY <2>2, WideWindow
  <2>5. LineIsWritten(d, s.ram, after, k - 1, Offset, size, bytes)
    <3>1. /\ k - 1 \in 0 .. Rows(d) - 1 /\ InWindow(d, Pointer(d)) /\ Offset + size <= RowSize(d)
          /\ PlaceIn(d, Pointer(d)) = (k - 1) * RowSize(d) + Offset
      <4>1. (LastAddress + 1) - 1 = LastAddress
        BY <1>1
      <4>2. <<k - 1, Offset>>[1] = k - 1 /\ <<k - 1, Offset>>[2] = Offset
        OBVIOUS
      <4> HIDE DEF LastAddress
      <4> QED
        BY <2>2, <2>3, <2>4, <4>1, <4>2
    <3> HIDE DEF s, bytes
    <3> QED
      BY <1>1, <2>1, <2>2, <3>1, LineWritten
  <2>6. /\ after.c \in Controllers /\ MovedTo(d, after.c) /\ IsMemory(after.ram)
        /\ \A x \in Addresses :
             after.ram[c.plane][x] =
               IF x[1] = k - 1 /\ x[2] \in Offset .. Offset + size - 1
               THEN bytes[x[2] - Offset + 1] ELSE s.ram[c.plane][x]
    <3>1. c.plane \in Planes
      BY DEF Controllers
    <3> HIDE DEF after, s, bytes
    <3> QED
      BY <2>2, <2>4, <2>5, <3>1 DEF LineIsWritten
  <2>7. IsWide(after.c) /\ after.c.plane = c.plane
    <3>1. after.c.plane = d.plane
      <4> HIDE DEF after
      <4> QED
        BY <2>2, <2>6 DEF MovedTo, Controllers
    <3> HIDE DEF after
    <3> QED
      BY <2>2, <2>4, <2>6, <3>1
  <2>8. ASSUME NEW x \in Addresses, x[1] < k, x[2] \in Offset .. Offset + size - 1
        PROVE  after.ram[c.plane][x] = line[x[1] + 1][x[2] - Offset + 1]
    <3>1. after.ram[c.plane][x] = IF x[1] = k - 1 THEN line[k][x[2] - Offset + 1] ELSE s.ram[c.plane][x]
      <4> HIDE DEF after, s
      <4> QED
        BY <2>6, <2>8
    <3>2. x[1] = k - 1 => x[1] + 1 = k
      BY <1>2
    <3>3. x[1] # k - 1 => x[1] < k - 1
      BY <1>2, <2>8
    <3>4. x[1] # k - 1 => s.ram[c.plane][x] = line[x[1] + 1][x[2] - Offset + 1]
      BY <1>4, <2>8, <3>3
    <3> HIDE DEF after, s
    <3> QED
      BY <3>1, <3>2, <3>4
  <2>9. after = [c |-> after.c, ram |-> after.ram]
    <3>1. PICK g : AreStages(g, d, s.ram, bytes, size)
      BY <2>1, Stages
    <3>2. after = g[size] /\ g[size] = Stored(g[size - 1], bytes[size])
      <4>1. size \in 1 .. size
        OBVIOUS
      <4> QED
        BY <3>1, <4>1 DEF AreStages
    <3>3. \A a, b : Stored(a, b) = [c |-> Stored(a, b).c, ram |-> Stored(a, b).ram]
      BY DEF Stored
    <3> HIDE DEF after, s, bytes
    <3> QED
      BY <3>2, <3>3
  <2> HIDE DEF after, s, bytes
  <2> QED
    BY <2>1, <2>6, <2>7, <2>8, <2>9
<1> HIDE DEF Fits
<1> DEFINE T == {k \in 0 .. n : ~ Fits(u[k], k)}
<1>5. ASSUME NEW k \in T, \A j \in T : k <= j PROVE FALSE
  <2>1. k # 0
    BY <1>3
  <2>2. k \in 1 .. n /\ k - 1 \in 0 .. n /\ ~ (k <= k - 1)
    BY <2>1
  <2> QED
    BY <1>4, <1>5, <2>2
<1>6. T = {}
  <2>1. T \in SUBSET Nat
    OBVIOUS
  <2> HIDE DEF T
  <2> QED
    BY <1>5, <2>1, FirstOf
<1>7. Fits(u[n], n)
  BY <1>6
<1> QED
  BY <1>7 DEF Fits

(* The window filled in one transfer.                                      *)
WindowIsSent(c, m, after, bytes) ==
  /\ after.c \in Controllers /\ MovedTo(c, after.c) /\ IsMemory(after.ram)
  /\ \A plane \in Planes, x \in Addresses :
       after.ram[plane][x] =
         IF plane = c.plane /\ InWindow(c, x) THEN bytes[PlaceIn(c, x) + 1] ELSE m[plane][x]

LEMMA WindowSent ==
  ASSUME kind \in Kinds, NEW c \in Controllers, InWindow(c, Pointer(c)), PlaceIn(c, Pointer(c)) = 0,
         NEW m, IsMemory(m), NEW bytes, DOMAIN bytes = 1 .. Rows(c) * RowSize(c)
  PROVE  WindowIsSent(c, m, Written(c, m, bytes), bytes)
<1> DEFINE n == Rows(c) * RowSize(c)   after == Written(c, m, bytes)
<1>1. Rows(c) \in Nat \ {0} /\ RowSize(c) \in Nat \ {0}
  BY PlaceFits
<1>2. n \in Nat
  <2> HIDE DEF Rows, RowSize
  <2> QED
    BY <1>1
<1>3. 0 + n <= Rows(c) * RowSize(c) /\ 0 = PlaceIn(c, Pointer(c)) /\ DOMAIN bytes = 1 .. n
  BY <1>2
<1>4. /\ after.c \in Controllers /\ MovedTo(c, after.c) /\ IsMemory(after.ram)
      /\ \A plane \in Planes, x \in Addresses :
           after.ram[plane][x] =
             IF plane = c.plane /\ InWindow(c, x) /\ PlaceIn(c, x) \in 0 .. 0 + n - 1
             THEN bytes[PlaceIn(c, x) - 0 + 1] ELSE m[plane][x]
  <2>1. PICK first \in Nat : first = 0
    OBVIOUS
  <2>2. first = PlaceIn(c, Pointer(c)) /\ first + n <= Rows(c) * RowSize(c) /\ DOMAIN bytes = 1 .. n /\ n \in Nat
    BY <1>2, <1>3, <2>1
  <2> HIDE DEF n
  <2>3. /\ after.c \in Controllers /\ MovedTo(c, after.c) /\ IsMemory(after.ram)
        /\ \A plane \in Planes, x \in Addresses :
             after.ram[plane][x] =
               IF plane = c.plane /\ InWindow(c, x) /\ PlaceIn(c, x) \in first .. first + n - 1
               THEN bytes[PlaceIn(c, x) - first + 1] ELSE m[plane][x]
    <3>1. StreamWritten(c, m, after, first, n, bytes)
      BY <2>2, Streamed
    <3> HIDE DEF after
    <3> QED
      BY <3>1 DEF StreamWritten
  <2> HIDE DEF after
  <2> QED
    BY <2>1, <2>3
<1>5. ASSUME NEW x \in Addresses, InWindow(c, x) PROVE PlaceIn(c, x) \in 0 .. 0 + n - 1 /\ PlaceIn(c, x) - 0 = PlaceIn(c, x)
  <2> DEFINE F == RowSize(c)   S == Rows(c)   s == SlowOf(c, x)   f == FastOf(c, x)
  <2>1. s \in 0 .. S - 1 /\ f \in 0 .. F - 1 /\ PlaceIn(c, x) = s * F + f
    BY <1>5, PlaceFits
  <2>2. s * F + f \in 0 .. S * F - 1
    <3> HIDE DEF F, S, s, f
    <3> QED
      BY <1>1, <2>1, NextPlace DEF F, S
  <2>3. \A i : i \in 0 .. n - 1 => i \in 0 .. 0 + n - 1 /\ i - 0 = i
    <3> HIDE DEF n
    <3> QED
      BY <1>2
  <2> HIDE DEF F, S, s, f
  <2> QED
    BY <2>1, <2>2, <2>3 DEF F, S
<1> HIDE DEF after, n
<1> QED
  BY <1>4, <1>5 DEF after, WindowIsSent

-----------------------------------------------------------------------------
(* Transfers that are made of parts, one operation after the other.        *)

LEMMA FlatJoins ==
  ASSUME NEW seqs, Len(seqs) \in Nat \ {0}
  PROVE  \E f : IsJoin(f, Len(seqs), seqs) /\ FlattenSeq(seqs) = f[Len(seqs)]
<1> DEFINE g == CHOOSE f : IsJoin(f, Len(seqs), seqs)
<1>1. IsJoin(g, Len(seqs), seqs)
  BY JoinExists
<1>2. FlattenSeq(seqs) = g[Len(seqs)]
  BY DEF FlattenSeq, IsJoin
<1> QED
  BY <1>1, <1>2

(* The parts of a flattened sequence lead through the states u.            *)
ThroughParts(s, seqs, n, t, u) ==
  u[0] = s /\ u[n] = t /\ \A k \in 1 .. n : Leads(u[k - 1], seqs[k], u[k])

LEMMA LeadsInParts ==
  ASSUME NEW S, NEW seqs \in Seq(Seq(S)), seqs # <<>>, NEW s, NEW t, Leads(s, FlattenSeq(seqs), t)
  PROVE  \E u : ThroughParts(s, seqs, Len(seqs), t, u)
<1> DEFINE n == Len(seqs)
<1>1. n \in Nat \ {0} /\ \A i \in 1 .. n : seqs[i] \in Seq(S)
  OBVIOUS
<1>2. PICK f : IsJoin(f, n, seqs) /\ FlattenSeq(seqs) = f[n]
  BY <1>1, FlatJoins
<1> HIDE DEF n
<1>3. \A i \in 1 .. n : f[i] = IF i = 1 THEN seqs[i] ELSE f[i - 1] \o seqs[i]
  BY <1>2 DEF IsJoin
<1> DEFINE Through(i) == f[i] \in Seq(S) /\ \A v : Leads(s, f[i], v) => \E u : ThroughParts(s, seqs, i, v, u)
<1>4. Through(1)
  <2>1. f[1] = seqs[1] /\ f[1] \in Seq(S)
    BY <1>1, <1>3
  <2>2. ASSUME NEW v, Leads(s, f[1], v) PROVE \E u : ThroughParts(s, seqs, 1, v, u)
    <3> DEFINE u == [i \in 0 .. 1 |-> IF i = 0 THEN s ELSE v]
    <3>1. u[0] = s /\ u[1] = v
      OBVIOUS
    <3> HIDE DEF u
    <3>2. ASSUME NEW k \in 1 .. 1 PROVE Leads(u[k - 1], seqs[k], u[k])
      <4>1. k = 1 /\ k - 1 = 0
        OBVIOUS
      <4> QED
        BY <2>1, <2>2, <3>1, <4>1
    <3>3. ThroughParts(s, seqs, 1, v, u)
      BY <3>1, <3>2 DEF ThroughParts
    <3> QED
      BY <3>3
  <2> QED
    BY <2>1, <2>2
<1>5. ASSUME NEW i \in 2 .. n, Through(i - 1) PROVE Through(i)
  <2>1. /\ i \in 1 .. n /\ i # 1 /\ i - 1 \in 1 .. n /\ i - 1 \in Nat
        /\ f[i] = f[i - 1] \o seqs[i] /\ f[i - 1] \in Seq(S) /\ seqs[i] \in Seq(S)
    <3>1. i \in 1 .. n /\ i # 1 /\ i - 1 \in 1 .. n /\ i - 1 \in Nat
      BY <1>1
    <3>2. f[i - 1] \in Seq(S)
      BY <1>5
    <3> HIDE DEF Through
    <3> QED
      BY <1>1, <1>3, <3>1, <3>2
  <2>2. f[i] \in Seq(S)
    BY <2>1
  <2>3. ASSUME NEW v, Leads(s, f[i], v) PROVE \E u : ThroughParts(s, seqs, i, v, u)
    <3> DEFINE p == f[i - 1]   q == seqs[i]
    <3>1. PICK w : Leads(s, p, w) /\ Leads(w, q, v)
      <4>1. p \in Seq(S) /\ q \in Seq(S) /\ Leads(s, p \o q, v)
        BY <2>1, <2>3
      <4> HIDE DEF p, q
      <4> QED
        BY <4>1, LeadsInTwo
    <3>2. PICK h : ThroughParts(s, seqs, i - 1, w, h)
      BY <1>5, <3>1
    <3> DEFINE u == [k \in 0 .. i |-> IF k = i THEN v ELSE h[k]]
    <3>3. u[0] = s /\ u[i] = v
      BY <2>1, <3>2 DEF ThroughParts
    <3>4. ASSUME NEW k \in 1 .. i PROVE Leads(u[k - 1], seqs[k], u[k])
      <4>1. u[k - 1] = h[k - 1]
        BY <2>1
      <4>2. CASE k = i
        <5>1. h[k - 1] = w
          BY <3>2, <4>2 DEF ThroughParts
        <5> QED
          BY <3>1, <3>3, <4>1, <4>2, <5>1
      <4>3. CASE k # i
        <5>1. k \in 1 .. i - 1 /\ u[k] = h[k]
          BY <2>1, <4>3
        <5>2. Leads(h[k - 1], seqs[k], h[k])
          BY <3>2, <5>1 DEF ThroughParts
        <5> QED
          BY <4>1, <5>1, <5>2
      <4> QED
        BY <4>2, <4>3
    <3> HIDE DEF u
    <3>5. ThroughParts(s, seqs, i, v, u)
      BY <3>3, <3>4 DEF ThroughParts
    <3> QED
      BY <3>5
  <2> QED
    BY <2>2, <2>3
<1> HIDE DEF Through
<1> DEFINE T == {i \in 1 .. n : ~ Through(i)}
<1>6. ASSUME NEW i \in T, \A j \in T : i <= j PROVE FALSE
  <2>1. i # 1
    BY <1>4
  <2>2. i \in 2 .. n /\ i - 1 \in 1 .. n /\ ~ (i <= i - 1)
    BY <1>1, <2>1
  <2> QED
    BY <1>5, <1>6, <2>2
<1>7. T = {}
  <2>1. T \in SUBSET Nat
    BY <1>1
  <2> HIDE DEF T
  <2> QED
    BY <1>6, <2>1, FirstOf
<1>8. Through(n)
  <2>1. n \in 1 .. n
    BY <1>1
  <2> QED
    BY <1>7, <2>1
<1>9. Leads(s, f[n], t)
  BY <1>2 DEF n
<1> QED
  BY <1>8, <1>9 DEF Through, n

LEMMA TwoLead ==
  ASSUME NEW s, NEW o, NEW q, NEW t, Leads(s, <<o, q>>, t) PROVE t = Effect(Effect(s, o), q)
<1>1. PICK h : Between(s, <<o, q>>, t, h)
  BY DEF Leads
<1>2. /\ Len(<<o, q>>) = 2 /\ <<o, q>>[1] = o /\ <<o, q>>[2] = q
      /\ 1 \in 1 .. 2 /\ 2 \in 1 .. 2 /\ 1 - 1 = 0 /\ 2 - 1 = 1
  OBVIOUS
<1>3. h[1] = Effect(h[0], o) /\ h[2] = Effect(h[1], q)
  BY <1>1, <1>2 DEF Between
<1> QED
  BY <1>1, <1>2, <1>3 DEF Between

LEMMA FourLead ==
  ASSUME NEW s, NEW o, NEW q, NEW r, NEW v, NEW t, Leads(s, <<o, q, r, v>>, t)
  PROVE  t = Effect(Effect(Effect(Effect(s, o), q), r), v)
<1>1. PICK h : Between(s, <<o, q, r, v>>, t, h)
  BY DEF Leads
<1>2. /\ Len(<<o, q, r, v>>) = 4 /\ <<o, q, r, v>>[1] = o /\ <<o, q, r, v>>[2] = q
      /\ <<o, q, r, v>>[3] = r /\ <<o, q, r, v>>[4] = v
      /\ 1 \in 1 .. 4 /\ 2 \in 1 .. 4 /\ 3 \in 1 .. 4 /\ 4 \in 1 .. 4
      /\ 1 - 1 = 0 /\ 2 - 1 = 1 /\ 3 - 1 = 2 /\ 4 - 1 = 3
  OBVIOUS
<1>3. h[1] = Effect(h[0], o) /\ h[2] = Effect(h[1], q) /\ h[3] = Effect(h[2], r) /\ h[4] = Effect(h[3], v)
  BY <1>1, <1>2 DEF Between
<1> QED
  BY <1>1, <1>2, <1>3 DEF Between

LEMMA ThreeLead ==
  ASSUME NEW s, NEW o, NEW q, NEW r, NEW t, Leads(s, <<o, q, r>>, t)
  PROVE  t = Effect(Effect(Effect(s, o), q), r)
<1>1. PICK h : Between(s, <<o, q, r>>, t, h)
  BY DEF Leads
<1>2. /\ Len(<<o, q, r>>) = 3 /\ <<o, q, r>>[1] = o /\ <<o, q, r>>[2] = q /\ <<o, q, r>>[3] = r
      /\ 1 \in 1 .. 3 /\ 2 \in 1 .. 3 /\ 3 \in 1 .. 3 /\ 1 - 1 = 0 /\ 2 - 1 = 1 /\ 3 - 1 = 2
  OBVIOUS
<1>3. h[1] = Effect(h[0], o) /\ h[2] = Effect(h[1], q) /\ h[3] = Effect(h[2], r)
  BY <1>1, <1>2 DEF Between
<1> QED
  BY <1>1, <1>2, <1>3 DEF Between

LEMMA FiveLead ==
  ASSUME NEW s, NEW o, NEW q, NEW r, NEW v, NEW w, NEW t, Leads(s, <<o, q, r, v, w>>, t)
  PROVE  t = Effect(Effect(Effect(Effect(Effect(s, o), q), r), v), w)
<1>1. PICK h : Between(s, <<o, q, r, v, w>>, t, h)
  BY DEF Leads
<1>2. /\ Len(<<o, q, r, v, w>>) = 5 /\ <<o, q, r, v, w>>[1] = o /\ <<o, q, r, v, w>>[2] = q
      /\ <<o, q, r, v, w>>[3] = r /\ <<o, q, r, v, w>>[4] = v /\ <<o, q, r, v, w>>[5] = w
      /\ 1 \in 1 .. 5 /\ 2 \in 1 .. 5 /\ 3 \in 1 .. 5 /\ 4 \in 1 .. 5 /\ 5 \in 1 .. 5
      /\ 1 - 1 = 0 /\ 2 - 1 = 1 /\ 3 - 1 = 2 /\ 4 - 1 = 3 /\ 5 - 1 = 4
  OBVIOUS
<1>3. /\ h[1] = Effect(h[0], o) /\ h[2] = Effect(h[1], q) /\ h[3] = Effect(h[2], r) /\ h[4] = Effect(h[3], v)
      /\ h[5] = Effect(h[4], w)
  BY <1>1, <1>2 DEF Between
<1> QED
  BY <1>1, <1>2, <1>3 DEF Between

LEMMA ManyLead ==
  ASSUME NEW s, NEW p, NEW t, Leads(s, p, t)
  PROVE  \E h : h[0] = s /\ h[Len(p)] = t /\ \A i \in 1 .. Len(p) : h[i] = Effect(h[i - 1], p[i])
BY DEF Leads, Between

LEMMA NoEffect ==
  \A c, m : /\ \A name \in {"wait", "feed", "refresh", "sleep"} : Effect(State(c, m), Op(name)) = State(c, m)
            /\ \A n : Effect(State(c, m), Pause(n)) = State(c, m)
  BY EffectIs, StateParts DEF Op, Pause

LEMMA EffectOfReset == \A c, m : Effect(State(c, m), Op("reset")) = State(WideOpen, m)
<1> HIDE DEF WideOpen
<1> QED
  BY EffectIs, StateParts DEF Op

LEMMA EffectOfAt == \A c, m, x, y : Effect(State(c, m), At(x, y)) = State(AtPlace(c, x, y), m)
  BY EffectIs, StateParts DEF At

LEMMA EffectOfWindow ==
  \A c, m, a0, a1, b0, b1 : Effect(State(c, m), Window(a0, a1, b0, b1)) = State(WithWindow(c, a0, a1, b0, b1), m)
  BY EffectIs, StateParts DEF Window

LEMMA EffectOfRows == \A c, m, b0, b1 : Effect(State(c, m), RowWindow(b0, b1)) = State(WithRows(c, b0, b1), m)
  BY EffectIs, StateParts DEF RowWindow

LEMMA EffectOfOrder == \A c, m, f : Effect(State(c, m), Order(f)) = State(InOrder(c, f), m)
  BY EffectIs, StateParts DEF Order

LEMMA EffectOfPlane == \A c, m, p : Effect(State(c, m), Plane(p)) = State(OnPlane(c, p), m)
  BY EffectIs, StateParts DEF Plane

LEMMA EffectOfData == \A c, m, bytes : Effect(State(c, m), Data(bytes)) = Written(c, m, bytes)
  BY EffectIs, StateParts DEF Data

LEMMA WrittenIsState ==
  ASSUME NEW c, NEW m, NEW n \in Nat, NEW bytes, DOMAIN bytes = 1 .. n
  PROVE  Written(c, m, bytes) = State(Written(c, m, bytes).c, Written(c, m, bytes).ram)
<1>1. PICK g : AreStages(g, c, m, bytes, n)
  BY Stages
<1>2. \A s, b : Stored(s, b) = State(Stored(s, b).c, Stored(s, b).ram)
  BY DEF Stored, State
<1>3. g[0] = State(g[0].c, g[0].ram)
  BY <1>1 DEF AreStages, State
<1>4. n # 0 => g[n] = Stored(g[n - 1], bytes[n])
  BY <1>1 DEF AreStages
<1>5. g[n] = State(g[n].c, g[n].ram)
  BY <1>2, <1>3, <1>4
<1> QED
  BY <1>1, <1>5 DEF AreStages

(* A controller ready for a plane of a window at the origin.               *)
Ready(c, f, a1, b1, p) ==
  /\ c \in Controllers /\ c.first = f /\ c.a0 = 0 /\ c.a1 = a1 /\ c.b0 = 0 /\ c.b1 = b1 /\ c.plane = p
  /\ InWindow(c, Pointer(c)) /\ PlaceIn(c, Pointer(c)) = 0

(* A controller after its set-up.                                          *)
Fresh(c, f, a1, b1) ==
  /\ c \in Controllers /\ c.first = f /\ c.a0 = 0 /\ c.a1 = a1 /\ c.b0 = 0 /\ c.b1 = b1
  /\ c.a = 0 /\ c.b = 0 /\ c.plane = "black"

Groups(n, d) == (n + d - 1) \div d

LEMMA FewGroups ==
  ASSUME NEW n \in Nat \ {0}, NEW d \in Nat \ {0}
  PROVE  Groups(n, d) \in Nat \ {0} /\ Groups(n, d) <= n
<1> DEFINE m == (n + d - 1) \div d   r == (n + d - 1) % d
<1>1. m \in Nat /\ r \in 0 .. d - 1 /\ n + d - 1 = d * m + r
  <2>1. n + d - 1 \in Nat
    OBVIOUS
  <2> QED
    BY <2>1, PartsOf
<1>2. 0 \div d \in 0 .. m - 1
  BY Grouped
<1> HIDE DEF m, r
<1>3. m \in Nat \ {0}
  BY <1>1, <1>2
<1>4. d * m = d * (m - 1) + d /\ d * (m - 1) \in Nat
  BY <1>3
<1>5. d * (m - 1) >= m - 1
  <2>1. d * (m - 1) = (d - 1) * (m - 1) + (m - 1) /\ (d - 1) * (m - 1) \in Nat
    BY <1>3
  <2> QED
    BY <1>3, <2>1
<1>6. m <= n
  BY <1>1, <1>3, <1>4, <1>5
<1> QED
  BY <1>3, <1>6 DEF Groups, m

LEMMA Sizes ==
  ASSUME kind \in Kinds
  PROVE  /\ LastAddress \in Nat /\ Width \in Nat \ {0} /\ Height \in Nat \ {0} /\ Bits \in Nat \ {0}
         /\ Pages \in Nat \ {0} /\ RowBytes \in Nat \ {0} /\ Width = Bits * RowBytes /\ Width \div Bits = RowBytes
         /\ Pages - 1 \in 0 .. LastAddress /\ Width - 1 \in 0 .. LastAddress
         /\ RowBytes - 1 \in 0 .. LastAddress /\ Height - 1 \in 0 .. LastAddress
<1>1. /\ LastAddress \in Nat /\ Height \in Nat \ {0} /\ Width \in Nat \ {0} /\ Bits \in Nat \ {0} /\ Width % Bits = 0
      /\ Width - 1 <= LastAddress /\ Height - 1 <= LastAddress
  <2>1. LastAddress \in Nat /\ Height \in Nat \ {0} /\ Width \in Nat \ {0} /\ Offset \in Nat
        /\ Width - 1 + Offset <= LastAddress /\ Height - 1 + Offset <= LastAddress
    BY AddressFits, SettingsOfPanels
  <2> HIDE DEF LastAddress, Height
  <2> QED
    BY <2>1, SettingsOfPanels
<1>2. Pages \in Nat \ {0} /\ Pages <= Height
  BY <1>1, FewGroups DEF Pages, Groups
<1>3. RowBytes \in Nat \ {0} /\ RowBytes <= Width
  BY <1>1, FewGroups DEF RowBytes, Groups
<1>4. Width = Bits * RowBytes
  <2>1. 0 \in 0 .. Width - 1
    BY <1>1
  <2> QED
    BY <1>1, <2>1, Grouped DEF RowBytes
<1>5. Width \div Bits = RowBytes
  <2>1. (RowBytes * Bits + 0) \div Bits = RowBytes
    BY <1>1, <1>3, OneWay
  <2>2. RowBytes * Bits + 0 = Width
    <3> HIDE DEF RowBytes
    <3> QED
      BY <1>1, <1>3, <1>4
  <2> QED
    BY <2>1, <2>2
<1> HIDE DEF LastAddress, Height, Pages, RowBytes
<1> QED
  BY <1>1, <1>2, <1>3, <1>4, <1>5

LEMMA WideIsFresh == kind \in Kinds => Fresh(WideOpen, "b", LastColumn, LastAddress)
<1> SUFFICES ASSUME kind \in Kinds PROVE Fresh(WideOpen, "b", LastColumn, LastAddress)
  OBVIOUS
<1>1. LastAddress \in Nat /\ 0 \in 0 .. LastAddress /\ LastAddress \in 0 .. LastAddress /\ LastColumn \in 0 .. LastAddress
  <2>1. LastAddress \in Nat /\ Pages - 1 \in 0 .. LastAddress
    BY Sizes
  <2> HIDE DEF LastAddress, Pages
  <2> QED
    BY <2>1 DEF LastColumn
<1> HIDE DEF LastAddress, LastColumn
<1> QED
  BY <1>1 DEF WideOpen, Fresh, Controllers, Planes

LEMMA FreshIsSet ==
  ASSUME NEW c, NEW f, NEW a1, NEW b1, Fresh(c, f, a1, b1)
  PROVE  /\ Fresh(AtPlace(c, 0, 0), f, a1, b1)
         /\ \A g \in {"a", "b"} : Fresh(InOrder(c, g), g, a1, b1)
         /\ \A x, y \in 0 .. LastAddress : Fresh(WithWindow(c, 0, x, 0, y), f, x, y)
         /\ \A y \in 0 .. LastAddress : Fresh(WithRows(c, 0, y), f, a1, y)
<1>1. Fresh(AtPlace(c, 0, 0), f, a1, b1)
  BY DEF Fresh, AtPlace, Controllers
<1>2. ASSUME NEW g \in {"a", "b"} PROVE Fresh(InOrder(c, g), g, a1, b1)
  BY DEF Fresh, InOrder, Controllers
<1>3. ASSUME NEW x \in 0 .. LastAddress, NEW y \in 0 .. LastAddress PROVE Fresh(WithWindow(c, 0, x, 0, y), f, x, y)
  <2>1. 0 \in 0 .. LastAddress
    BY DEF Fresh, Controllers
  <2> DEFINE d == WithWindow(c, 0, x, 0, y)
  <2>2. d \in Controllers /\ d.first = c.first /\ d.a0 = 0 /\ d.a1 = x /\ d.b0 = 0 /\ d.b1 = y /\ d.a = c.a /\ d.b = c.b
        /\ d.plane = c.plane
    BY <2>1 DEF Fresh, WithWindow, Controllers
  <2> HIDE DEF d
  <2> QED
    BY <2>2 DEF Fresh, d
<1>4. ASSUME NEW y \in 0 .. LastAddress PROVE Fresh(WithRows(c, 0, y), f, a1, y)
  <2>1. 0 \in 0 .. LastAddress
    BY DEF Fresh, Controllers
  <2> QED
    BY <2>1 DEF Fresh, WithRows, Controllers
<1> QED
  BY <1>1, <1>2, <1>3, <1>4

LEMMA FreshIsReady ==
  ASSUME kind \in Kinds, NEW c, NEW f \in {"a", "b"}, NEW a1 \in 0 .. LastAddress, NEW b1 \in 0 .. LastAddress,
         Fresh(c, f, a1, b1)
  PROVE  Ready(c, f, a1, b1, "black")
<1>1. LastAddress \in Nat
  BY AddressFits
<1>2. InWindow(c, Pointer(c))
  BY <1>1 DEF InWindow, Pointer, Fresh
<1>3. PlaceIn(c, Pointer(c)) = 0
  <2>1. (0 - 0) * (a1 - 0 + 1) + (0 - 0) = 0 /\ (0 - 0) * (b1 - 0 + 1) + (0 - 0) = 0
    BY <1>1
  <2>2. PlaceIn(c, Pointer(c)) \in {(0 - 0) * (a1 - 0 + 1) + (0 - 0), (0 - 0) * (b1 - 0 + 1) + (0 - 0)}
    BY DEF PlaceIn, Pointer, RowSize, Fresh
  <2> QED
    BY <2>1, <2>2
<1> QED
  BY <1>2, <1>3 DEF Ready, Fresh

LEMMA ReadyForPlane ==
  ASSUME NEW c, NEW f, NEW a1, NEW b1, NEW p, NEW q \in Planes, Ready(c, f, a1, b1, p)
  PROVE  Ready(OnPlane(c, q), f, a1, b1, q)
<1> DEFINE d == OnPlane(c, q)
<1>1. d \in Controllers /\ d.first = c.first /\ d.a0 = c.a0 /\ d.a1 = c.a1 /\ d.b0 = c.b0 /\ d.b1 = c.b1
      /\ d.a = c.a /\ d.b = c.b /\ d.plane = q
  BY DEF Ready, Controllers, OnPlane
<1> HIDE DEF d
<1>2. InWindow(d, Pointer(d)) /\ PlaceIn(d, Pointer(d)) = 0
  BY <1>1 DEF Ready, InWindow, Pointer, PlaceIn, RowSize
<1> QED
  BY <1>1, <1>2 DEF Ready, d

(* What a plane's transfer leaves in the memory.                           *)
Held(m, after, f, a1, b1, p, line) ==
  /\ IsMemory(after)
  /\ \A plane \in Planes, x \in Addresses :
       after[plane][x] =
         IF plane = p /\ x[1] <= a1 /\ x[2] <= b1
         THEN IF f = "b" THEN line[x[1] + 1][x[2] + 1] ELSE line[x[2] + 1][x[1] + 1]
         ELSE m[plane][x]

AsReady(c, f, a1, b1, p) ==
  /\ Rows(c) = (IF f = "b" THEN a1 ELSE b1) + 1 /\ RowSize(c) = (IF f = "b" THEN b1 ELSE a1) + 1
  /\ \A x \in Addresses : /\ InWindow(c, x) <=> x[1] <= a1 /\ x[2] <= b1
                          /\ SlowOf(c, x) = IF f = "b" THEN x[1] ELSE x[2]
                          /\ FastOf(c, x) = IF f = "b" THEN x[2] ELSE x[1]
  /\ \A d \in Controllers : MovedTo(c, d) /\ InWindow(c, Pointer(d)) /\ PlaceIn(c, Pointer(d)) = 0
                              => Ready(d, f, a1, b1, p)

LEMMA ReadyWindow ==
  ASSUME kind \in Kinds, NEW c, NEW f \in {"a", "b"}, NEW a1 \in 0 .. LastAddress, NEW b1 \in 0 .. LastAddress, NEW p,
         Ready(c, f, a1, b1, p)
  PROVE  AsReady(c, f, a1, b1, p)
<1>1. LastAddress \in Nat
  BY AddressFits
<1>2. /\ c \in Controllers /\ c.first = f /\ c.a0 = 0 /\ c.a1 = a1 /\ c.b0 = 0 /\ c.b1 = b1 /\ c.plane = p
  BY DEF Ready
<1>3. a1 \in Nat /\ b1 \in Nat
  BY <1>1
<1>4. Rows(c) = (IF f = "b" THEN a1 ELSE b1) + 1 /\ RowSize(c) = (IF f = "b" THEN b1 ELSE a1) + 1
  BY <1>2, <1>3 DEF Rows, RowSize
<1>5. ASSUME NEW x \in Addresses
      PROVE  /\ InWindow(c, x) <=> x[1] <= a1 /\ x[2] <= b1
             /\ SlowOf(c, x) = IF f = "b" THEN x[1] ELSE x[2]
             /\ FastOf(c, x) = IF f = "b" THEN x[2] ELSE x[1]
  <2>1. x[1] \in Nat /\ x[2] \in Nat
    BY <1>1 DEF Addresses
  <2> QED
    BY <1>2, <1>3, <2>1 DEF InWindow, SlowOf, FastOf
<1>6. ASSUME NEW d \in Controllers, MovedTo(c, d), InWindow(c, Pointer(d)), PlaceIn(c, Pointer(d)) = 0
      PROVE  Ready(d, f, a1, b1, p)
  <2>1. d.first = f /\ d.a0 = 0 /\ d.a1 = a1 /\ d.b0 = 0 /\ d.b1 = b1 /\ d.plane = p
    BY <1>2, <1>6 DEF MovedTo, Controllers
  <2>2. InWindow(d, Pointer(d)) /\ PlaceIn(d, Pointer(d)) = 0
    BY <1>2, <1>6, SameWindow
  <2> QED
    BY <2>1, <2>2 DEF Ready
<1> QED
  BY <1>4, <1>5, <1>6 DEF AsReady

(* A plane sent line by line.                                              *)
PlaneSent(c, m, t, f, a1, b1, p, line) ==
  Ready(t.c, f, a1, b1, p) /\ t = State(t.c, t.ram) /\ Held(m, t.ram, f, a1, b1, p, line)

LEMMA LinesSent ==
  ASSUME kind \in Kinds, NEW c, NEW f \in {"a", "b"}, NEW a1 \in 0 .. LastAddress, NEW b1 \in 0 .. LastAddress,
         NEW p \in Planes, Ready(c, f, a1, b1, p), NEW m, IsMemory(m), NEW n \in Nat, NEW size \in Nat,
         n = (IF f = "b" THEN a1 ELSE b1) + 1, size = (IF f = "b" THEN b1 ELSE a1) + 1,
         NEW line, NEW u, u[0] = State(c, m),
         \A k \in 1 .. n : u[k] = Effect(u[k - 1], Data(line[k])) /\ DOMAIN line[k] = 1 .. size
  PROVE  PlaneSent(c, m, u[n], f, a1, b1, p, line)
<1>1. /\ Rows(c) = n /\ RowSize(c) = size
      /\ \A x \in Addresses : /\ InWindow(c, x) <=> x[1] <= a1 /\ x[2] <= b1
                              /\ SlowOf(c, x) = IF f = "b" THEN x[1] ELSE x[2]
                              /\ FastOf(c, x) = IF f = "b" THEN x[2] ELSE x[1]
      /\ \A d \in Controllers : MovedTo(c, d) /\ InWindow(c, Pointer(d)) /\ PlaceIn(c, Pointer(d)) = 0
                                  => Ready(d, f, a1, b1, p)
  <2>1. AsReady(c, f, a1, b1, p)
    BY ReadyWindow
  <2> QED
    BY <2>1 DEF AsReady
<1>2. c \in Controllers /\ InWindow(c, Pointer(c)) /\ PlaceIn(c, Pointer(c)) = 0 /\ c.plane = p
  BY DEF Ready
<1>3. u[0] = [c |-> c, ram |-> m]
  BY DEF State
<1>4. WindowIsFilled(c, m, u[Rows(c)], line)
  BY <1>1, <1>2, <1>3, WindowFilled
<1>5. Ready(u[n].c, f, a1, b1, p) /\ Held(m, u[n].ram, f, a1, b1, p, line)
  BY <1>1, <1>2, <1>4 DEF WindowIsFilled, Held
<1>6. u[n] = State(u[n].c, u[n].ram)
  <2>1. n \in 1 .. n
    <3>1. LastAddress \in Nat
      BY AddressFits
    <3>2. a1 \in Nat /\ b1 \in Nat
      BY <3>1
    <3> QED
      BY <3>2
  <2>2. u[n] = Written(u[n - 1].c, u[n - 1].ram, line[n]) /\ DOMAIN line[n] = 1 .. size
    <3>1. \A x, bytes : Effect(x, Data(bytes)) = Written(x.c, x.ram, bytes)
      BY EffectIs DEF Data
    <3> QED
      BY <2>1, <3>1
  <2> QED
    BY <2>2, WrittenIsState
<1> QED
  BY <1>5, <1>6 DEF PlaneSent

-----------------------------------------------------------------------------
(* What the set-ups lead to.                                               *)
Opens(s, f, a1, b1) == \A c, m, t : Leads(State(c, m), s, t) => \E d : t = State(d, m) /\ Fresh(d, f, a1, b1)

LEMMA OneReset == kind \in Kinds => \E d : Fresh(d, "b", LastColumn, LastAddress) /\ \A c, m :
                    Effect(Effect(State(c, m), Op("reset")), Op("wait")) = State(d, m)
<1> SUFFICES ASSUME kind \in Kinds
             PROVE  \A c, m : Effect(Effect(State(c, m), Op("reset")), Op("wait")) = State(WideOpen, m)
  BY WideIsFresh
<1> QED
  BY EffectOfReset, NoEffect

LEMMA TwoResets == kind \in Kinds => Opens(Reset, "b", LastColumn, LastAddress)
<1> SUFFICES ASSUME kind \in Kinds, NEW c, NEW m, NEW t, Leads(State(c, m), Reset, t)
             PROVE  \E d : t = State(d, m) /\ Fresh(d, "b", LastColumn, LastAddress)
  BY DEF Opens
<1>1. PICK d : Fresh(d, "b", LastColumn, LastAddress) /\ \A e, n :
                 Effect(Effect(State(e, n), Op("reset")), Op("wait")) = State(d, n)
  BY OneReset
<1>2. t = Effect(Effect(Effect(Effect(State(c, m), Op("reset")), Op("wait")), Op("reset")), Op("wait"))
  BY FourLead DEF Reset
<1>3. t = State(d, m)
  BY <1>1, <1>2
<1> QED
  BY <1>1, <1>3

(* Order, window and place, whatever else follows.                         *)
LEMMA WindowOpens ==
  ASSUME kind \in Kinds, NEW d, NEW f \in {"a", "b"}, NEW a1 \in 0 .. LastAddress, NEW b1 \in 0 .. LastAddress,
         Fresh(d, "b", LastColumn, LastAddress), NEW m
  PROVE  \E e : /\ Fresh(e, f, a1, b1)
                /\ Effect(Effect(State(d, m), Order(f)), Window(0, a1, 0, b1)) = State(e, m)
<1>1. Effect(State(d, m), Order(f)) = State(InOrder(d, f), m) /\ Fresh(InOrder(d, f), f, LastColumn, LastAddress)
  BY EffectOfOrder, FreshIsSet
<1>2. PICK e : e = InOrder(d, f)
  OBVIOUS
<1>3. Effect(State(e, m), Window(0, a1, 0, b1)) = State(WithWindow(e, 0, a1, 0, b1), m)
  BY EffectOfWindow
<1>4. Fresh(WithWindow(e, 0, a1, 0, b1), f, a1, b1)
  BY <1>1, <1>2, FreshIsSet
<1> QED
  BY <1>1, <1>2, <1>3, <1>4

LEMMA PlaceOpens ==
  ASSUME NEW e, NEW f, NEW a1, NEW b1, Fresh(e, f, a1, b1), NEW m
  PROVE  \E g : Fresh(g, f, a1, b1) /\ Effect(State(e, m), At(0, 0)) = State(g, m)
<1>1. Effect(State(e, m), At(0, 0)) = State(AtPlace(e, 0, 0), m)
  BY EffectOfAt
<1>2. Fresh(AtPlace(e, 0, 0), f, a1, b1)
  BY FreshIsSet
<1> QED
  BY <1>1, <1>2

(* A set-up in two parts: the second is heard by what the first opens.     *)
LEMMA OpensInTwo ==
  ASSUME NEW S, NEW p \in Seq(S), NEW q \in Seq(S), NEW f, NEW a1, NEW b1, Opens(p, f, a1, b1), NEW g, NEW a2, NEW b2,
         \A d, m, t : Fresh(d, f, a1, b1) /\ Leads(State(d, m), q, t) => \E e : t = State(e, m) /\ Fresh(e, g, a2, b2)
  PROVE  Opens(p \o q, g, a2, b2)
<1> SUFFICES ASSUME NEW c, NEW m, NEW t, Leads(State(c, m), p \o q, t)
             PROVE  \E e : t = State(e, m) /\ Fresh(e, g, a2, b2)
  BY DEF Opens
<1>1. PICK v : Leads(State(c, m), p, v) /\ Leads(v, q, t)
  BY LeadsInTwo
<1>2. PICK d : v = State(d, m) /\ Fresh(d, f, a1, b1)
  BY <1>1 DEF Opens
<1> QED
  BY <1>1, <1>2

(* The resets, then order, window, place and a wait.                       *)
LEMMA PlacedOpens ==
  ASSUME kind \in Kinds, NEW f \in {"a", "b"}, NEW a1 \in 0 .. LastAddress, NEW b1 \in 0 .. LastAddress
  PROVE  Opens(Reset \o <<Order(f), Window(0, a1, 0, b1), At(0, 0), Op("wait")>>, f, a1, b1)
<1> DEFINE w == Window(0, a1, 0, b1)
           S == {Op("reset"), Op("wait"), Order(f), w, At(0, 0)}
           rest == <<Order(f), w, At(0, 0), Op("wait")>>
<1>1. Opens(Reset, "b", LastColumn, LastAddress)
  BY TwoResets
<1>2. ASSUME NEW d, NEW m, NEW t, Fresh(d, "b", LastColumn, LastAddress), Leads(State(d, m), rest, t)
      PROVE  \E e : t = State(e, m) /\ Fresh(e, f, a1, b1)
  <2>1. t = Effect(Effect(Effect(Effect(State(d, m), Order(f)), w), At(0, 0)), Op("wait"))
    <3> HIDE DEF w
    <3> QED
      BY <1>2, FourLead
  <2>2. PICK e : Fresh(e, f, a1, b1) /\ Effect(Effect(State(d, m), Order(f)), w) = State(e, m)
    BY <1>2, WindowOpens
  <2>3. PICK g : Fresh(g, f, a1, b1) /\ Effect(State(e, m), At(0, 0)) = State(g, m)
    BY <2>2, PlaceOpens
  <2>4. t = State(g, m)
    BY <2>1, <2>2, <2>3, NoEffect
  <2> QED
    BY <2>3, <2>4
<1>3. Reset \in Seq(S) /\ rest \in Seq(S)
  <2> HIDE DEF w
  <2> QED
    BY DEF Reset
<1> HIDE DEF S, rest, w
<1>4. Opens(Reset \o rest, f, a1, b1)
  BY <1>1, <1>2, <1>3, OpensInTwo
<1> QED
  BY <1>4 DEF rest, w

LEMMA LandscapeOpens == kind \in Kinds => Opens(LandscapeSetUp, "b", Pages - 1, Width - 1)
BY PlacedOpens, Sizes DEF LandscapeSetUp

(* The mono panels with a vertical surface that get their picture.         *)
LEMMA VerticalOpens ==
  ASSUME kind \in Kinds, kind \in Vertical, kind \notin Misread
  PROVE  Opens(VerticalSetUp, "a", Pages - 1, Width - 1)
<1> DEFINE a1 == Pages - 1   b1 == Width - 1   w == Window(0, a1, 0, b1)   r == RowWindow(0, b1)
           S == {Op("reset"), Op("wait"), Order("a"), w, r}
<1>1. a1 \in 0 .. LastAddress /\ b1 \in 0 .. LastAddress
  BY Sizes
<1>2. PICK x : Fresh(x, "b", LastColumn, LastAddress) /\ \A c, m : Effect(State(c, m), Op("reset")) = State(x, m)
  BY WideIsFresh, EffectOfReset
<1>3. CASE kind = "2in13"
  <2>1. VerticalSetUp = Reset \o <<Order("a"), w, At(0, 0), Op("wait")>>
    BY <1>3 DEF VerticalSetUp
  <2> HIDE DEF a1, b1
  <2>2. Opens(Reset \o <<Order("a"), w, At(0, 0), Op("wait")>>, "a", a1, b1)
    BY <1>1, PlacedOpens
  <2> QED
    BY <2>1, <2>2 DEF a1, b1
<1>4. CASE kind = "2in7v2"
  <2> DEFINE p == <<Op("reset"), Op("reset"), Op("wait")>>   q == <<r, Order("a"), Op("wait")>>
  <2>1. VerticalSetUp = p \o q
    <3>1. VerticalSetUp = <<Op("reset"), Op("reset"), Op("wait"), r, Order("a"), Op("wait")>>
      BY <1>4 DEF VerticalSetUp
    <3> HIDE DEF r
    <3> QED
      BY <3>1
  <2>2. LastColumn = a1
    BY <1>4 DEF LastColumn
  <2> HIDE DEF a1, b1, r
  <2>3. ASSUME NEW c, NEW m, NEW t, Leads(State(c, m), p, t) PROVE t = State(x, m)
    BY <1>2, <2>3, ThreeLead, NoEffect
  <2>4. Opens(p, "b", a1, LastAddress)
    BY <1>2, <2>2, <2>3 DEF Opens
  <2>5. ASSUME NEW d, NEW m, NEW t, Fresh(d, "b", a1, LastAddress), Leads(State(d, m), q, t)
        PROVE  \E e : t = State(e, m) /\ Fresh(e, "a", a1, b1)
    <3>1. t = Effect(Effect(Effect(State(d, m), r), Order("a")), Op("wait"))
      BY <2>5, ThreeLead
    <3>2. PICK e : e = WithRows(d, 0, b1)
      OBVIOUS
    <3>3. Effect(State(d, m), r) = State(e, m) /\ Fresh(e, "b", a1, b1)
      BY <1>1, <2>5, <3>2, EffectOfRows, FreshIsSet DEF r
    <3>4. t = State(InOrder(e, "a"), m) /\ Fresh(InOrder(e, "a"), "a", a1, b1)
      BY <3>1, <3>3, EffectOfOrder, NoEffect, FreshIsSet
    <3> QED
      BY <3>4
  <2>6. p \in Seq(S) /\ q \in Seq(S)
    <3> HIDE DEF w
    <3> QED
      OBVIOUS
  <2> HIDE DEF S, p, q
  <2>7. Opens(p \o q, "a", a1, b1)
    BY <2>4, <2>5, <2>6, OpensInTwo
  <2> QED
    BY <2>1, <2>7 DEF a1, b1
<1>5. CASE kind = "3in7"
  <2> DEFINE p == <<Op("reset"), Op("reset"), Op("wait"), Op("wait")>>   q == <<Order("a"), w>>
  <2>1. VerticalSetUp = p \o q
    <3>1. VerticalSetUp = <<Op("reset"), Op("reset"), Op("wait"), Op("wait"), Order("a"), w>>
      BY <1>5 DEF VerticalSetUp
    <3> HIDE DEF w
    <3> QED
      BY <3>1
  <2> HIDE DEF a1, b1
  <2>3. ASSUME NEW c, NEW m, NEW t, Leads(State(c, m), p, t) PROVE t = State(x, m)
    BY <1>2, <2>3, FourLead, NoEffect
  <2>4. Opens(p, "b", LastColumn, LastAddress)
    BY <1>2, <2>3 DEF Opens
  <2>5. ASSUME NEW d, NEW m, NEW t, Fresh(d, "b", LastColumn, LastAddress), Leads(State(d, m), q, t)
        PROVE  \E e : t = State(e, m) /\ Fresh(e, "a", a1, b1)
    <3>1. t = Effect(Effect(State(d, m), Order("a")), w)
      <4> HIDE DEF w
      <4> QED
        BY <2>5, TwoLead
    <3> QED
      BY <1>1, <2>5, <3>1, WindowOpens
  <2>6. p \in Seq(S) /\ q \in Seq(S)
    <3> HIDE DEF w, r
    <3> QED
      OBVIOUS
  <2> HIDE DEF S, p, q
  <2>7. Opens(p \o q, "a", a1, b1)
    BY <2>4, <2>5, <2>6, OpensInTwo
  <2> QED
    BY <2>1, <2>7 DEF a1, b1
<1> QED
  BY <1>3, <1>4, <1>5 DEF Vertical, Misread

LEMMA HorizontalOpens == kind \in Kinds /\ kind = "4in2" => Opens(HorizontalSetUp, "a", RowBytes - 1, Height - 1)
<1> SUFFICES ASSUME kind \in Kinds, kind = "4in2", NEW c, NEW m, NEW t, Leads(State(c, m), HorizontalSetUp, t)
             PROVE  \E d : t = State(d, m) /\ Fresh(d, "a", RowBytes - 1, Height - 1)
  BY DEF Opens
<1> DEFINE w == Window(0, RowBytes - 1, 0, Height - 1)
<1>1. PICK d : Fresh(d, "b", LastColumn, LastAddress) /\ \A x, n :
                 Effect(Effect(State(x, n), Op("reset")), Op("wait")) = State(d, n)
  BY OneReset
<1>2. t = Effect(Effect(Effect(Effect(Effect(State(c, m), Op("reset")), Op("wait")), Order("a")), w), At(0, 0))
  <2>1. Leads(State(c, m), <<Op("reset"), Op("wait"), Order("a"), w, At(0, 0)>>, t)
    BY DEF HorizontalSetUp
  <2> HIDE DEF w
  <2> QED
    BY <2>1, FiveLead
<1>3. PICK e : /\ Fresh(e, "a", RowBytes - 1, Height - 1)
               /\ Effect(Effect(State(d, m), Order("a")), w) = State(e, m)
  <2>1. RowBytes - 1 \in 0 .. LastAddress /\ Height - 1 \in 0 .. LastAddress
    BY Sizes
  <2> QED
    BY <1>1, <2>1, WindowOpens
<1>4. PICK g : Fresh(g, "a", RowBytes - 1, Height - 1) /\ Effect(State(e, m), At(0, 0)) = State(g, m)
  BY <1>3, PlaceOpens
<1> QED
  BY <1>1, <1>2, <1>3, <1>4

LEMMA TriColorOpens == kind \in Kinds => Opens(TriColorSetUp, "a", RowBytes - 1, Height - 1)
<1> SUFFICES ASSUME kind \in Kinds, NEW c, NEW m, NEW t, Leads(State(c, m), TriColorSetUp, t)
             PROVE  \E d : t = State(d, m) /\ Fresh(d, "a", RowBytes - 1, Height - 1)
  BY DEF Opens
<1> DEFINE w == Window(0, RowBytes - 1, 0, Height - 1)
<1>1. PICK d : Fresh(d, "b", LastColumn, LastAddress) /\ \A x, n :
                 Effect(Effect(State(x, n), Op("reset")), Op("wait")) = State(d, n)
  BY OneReset
<1>2. t = Effect(Effect(Effect(Effect(State(c, m), Op("reset")), Op("wait")), Order("a")), w)
  <2>1. Leads(State(c, m), <<Op("reset"), Op("wait"), Order("a"), w>>, t)
    BY DEF TriColorSetUp
  <2> HIDE DEF w
  <2> QED
    BY <2>1, FourLead
<1>3. PICK e : /\ Fresh(e, "a", RowBytes - 1, Height - 1)
               /\ Effect(Effect(State(d, m), Order("a")), w) = State(e, m)
  <2>1. RowBytes - 1 \in 0 .. LastAddress /\ Height - 1 \in 0 .. LastAddress
    BY Sizes
  <2> QED
    BY <1>1, <2>1, WindowOpens
<1> QED
  BY <1>1, <1>2, <1>3

-----------------------------------------------------------------------------
(* A pixel of an e-paper: where its memory has the byte of the surface.    *)

HoldsPlane(m, plane, buffer) ==
  \A p \in Pixels : (IF Tall(kind) THEN m[plane][<<(Bits * Pages - 1 - p[2]) \div Bits, p[1]>>]
                     ELSE m[plane][<<p[1] \div Bits, p[2]>>]) = buffer[IndexOf(p)]

LEMMA TallPlace ==
  ASSUME kind \in Kinds, NEW p \in Pixels
  PROVE  /\ p[2] \div Bits \in 0 .. Pages - 1 /\ p[1] \in 0 .. Width - 1
         /\ (Bits * Pages - 1 - p[2]) \div Bits = Pages - 1 - (p[2] \div Bits)
         /\ Bits - 1 - ((Bits * Pages - 1 - p[2]) % Bits) = p[2] % Bits
<1> DEFINE x == p[1]   y == p[2]   q == y \div Bits   r == y % Bits
<1>1. x \in 0 .. Width - 1 /\ y \in 0 .. Height - 1
  BY DEF Pixels
<1>2. Bits \in Nat \ {0} /\ Pages \in Nat \ {0} /\ Height \in Nat \ {0}
  BY Sizes
<1>3. q \in 0 .. Pages - 1
  BY <1>1, <1>2, Grouped DEF Pages
<1>4. r \in 0 .. Bits - 1 /\ y = Bits * q + r
  <2>1. y \in Nat
    <3> HIDE DEF Height
    <3> QED
      BY <1>1, <1>2
  <2> QED
    BY <1>2, <2>1, PartsOf
<1> HIDE DEF x, y, q, r
<1>5. Bits * Pages - 1 - y = (Pages - 1 - q) * Bits + (Bits - 1 - r) /\ Pages - 1 - q \in Nat /\ Bits - 1 - r \in 0 .. Bits - 1
  <2> HIDE DEF Pages
  <2>1. (Pages - 1 - q) * Bits = Bits * Pages - Bits - Bits * q
    BY <1>2, <1>3
  <2>2. Bits * Pages \in Nat /\ Bits * q \in Nat
    BY <1>2, <1>3
  <2> QED
    BY <1>2, <1>3, <1>4, <2>1, <2>2
<1>6. (Bits * Pages - 1 - y) \div Bits = Pages - 1 - q /\ (Bits * Pages - 1 - y) % Bits = Bits - 1 - r
  <2> DEFINE u == Pages - 1 - q   v == Bits - 1 - r
  <2>1. u \in Nat /\ v \in 0 .. Bits - 1 /\ Bits * Pages - 1 - y = u * Bits + v
    BY <1>5
  <2> HIDE DEF u, v
  <2>2. (u * Bits + v) \div Bits = u /\ (u * Bits + v) % Bits = v
    BY <1>2, <2>1, OneWay
  <2> QED
    BY <2>1, <2>2 DEF u, v
<1>7. Bits - 1 - (Bits - 1 - r) = r
  BY <1>2, <1>4
<1> QED
  BY <1>1, <1>3, <1>6, <1>7 DEF x, y, q, r

-----------------------------------------------------------------------------
(* The planes of each driver: the memory holds what the surface holds, and *)
(* the glass makes the picture of it again.                                *)

Colors(canvas) == \A p \in Pixels : canvas[p] \in {"bg", "fg"} \cup (IF HasAccent(kind) THEN {"accent"} ELSE {})
IsPicture(m, canvas) == \A p \in Pixels : SeenAt(m, p) = canvas[p]

Negative(buffer) == [i \in DOMAIN buffer |-> Inverted(buffer[i])]

(* The byte of a pixel in a surface and in its negative.                   *)
LEMMA ByteOfPixel ==
  ASSUME kind \in Kinds, HeightFits, NEW canvas, NEW plane, NEW p \in Pixels
  PROVE  /\ Bits \notin Buffer(canvas, plane)[IndexOf(p)] /\ Bits \notin Negative(Buffer(canvas, plane))[IndexOf(p)]
         /\ BitOf(p) \in Buffer(canvas, plane)[IndexOf(p)] <=> PlaneBit(plane, canvas[p])
         /\ BitOf(p) \in Negative(Buffer(canvas, plane))[IndexOf(p)] <=> ~ PlaneBit(plane, canvas[p])
<1> DEFINE i == IndexOf(p)   byte == Buffer(canvas, plane)[i]
<1>1. i \in DOMAIN Buffer(canvas, plane) /\ (BitOf(p) \in byte <=> PlaneBit(plane, canvas[p]))
  BY SurfacesKeepPictures
<1>2. BitOf(p) \in 0 .. Bits - 1
  BY PixelKept
<1>3. byte \subseteq 0 .. Bits - 1
  <2>1. i \in 0 .. BufferLength - 1
    BY PixelKept
  <2>2. byte = ByteAt(canvas, plane, i)
    BY <2>1 DEF Buffer
  <2> QED
    BY <2>2 DEF ByteAt
<1>4. Negative(Buffer(canvas, plane))[i] = Inverted(byte)
  BY <1>1 DEF Negative
<1>5. Bits \notin 0 .. Bits - 1
  BY SettingsOfPanels
<1> HIDE DEF i, byte
<1>6. Bits \notin Inverted(byte) /\ (BitOf(p) \in Inverted(byte) <=> BitOf(p) \notin byte)
  BY <1>2, <1>5 DEF Inverted
<1> QED
  BY <1>1, <1>3, <1>4, <1>5, <1>6 DEF i, byte

LEMMA FlatBit ==
  ASSUME kind \in Kinds, NEW p \in Pixels
  PROVE  /\ p[1] \div Bits \in 0 .. RowBytes - 1 /\ p[2] \in 0 .. Height - 1
         /\ IndexOf(p) = IF Tall(kind) THEN p[1] + (p[2] \div Bits) * Width ELSE p[2] * RowBytes + (p[1] \div Bits)
<1>1. p[1] \in 0 .. Width - 1 /\ p[2] \in 0 .. Height - 1
  BY DEF Pixels
<1>2. p[1] \div Bits \in 0 .. RowBytes - 1
  BY <1>1, Sizes, Grouped DEF RowBytes
<1> QED
  BY <1>1, <1>2 DEF IndexOf

LEMMA LandscapePicture ==
  ASSUME kind \in Kinds, kind = "213b", NEW canvas, Colors(canvas), NEW m,
         HoldsPlane(m, "black", Buffer(canvas, "black")), HoldsPlane(m, "accent", Buffer(canvas, "accent"))
  PROVE  IsPicture(m, canvas)
<1> SUFFICES ASSUME NEW p \in Pixels PROVE SeenAt(m, p) = canvas[p]
  BY DEF IsPicture
<1> DEFINE black == Buffer(canvas, "black")[IndexOf(p)]   red == Buffer(canvas, "accent")[IndexOf(p)]
<1>1. Tall(kind) /\ HeightFits /\ BitOf(p) = p[2] % Bits
  BY DEF Tall, HeightFits, Oled, BitOf, Vertical
<1>2. /\ Bits \notin black /\ (BitOf(p) \in black <=> canvas[p] # "fg")
      /\ Bits \notin red /\ (BitOf(p) \in red <=> canvas[p] # "accent")
  <2>1. /\ Bits \notin black /\ (BitOf(p) \in black <=> PlaneBit("black", canvas[p]))
        /\ Bits \notin red /\ (BitOf(p) \in red <=> PlaneBit("accent", canvas[p]))
    BY <1>1, ByteOfPixel
  <2> HIDE DEF black, red
  <2> QED
    BY <2>1 DEF PlaneBit, Oled, Vertical
<1>3. /\ m["black"][<<(Bits * Pages - 1 - p[2]) \div Bits, p[1]>>] = black
      /\ m["accent"][<<(Bits * Pages - 1 - p[2]) \div Bits, p[1]>>] = red
  BY <1>1 DEF HoldsPlane
<1>4. Bits - 1 - ((Bits * Pages - 1 - p[2]) % Bits) = BitOf(p)
  BY <1>1, TallPlace
<1> HIDE DEF black, red
<1>5. SeenAt(m, p) = IF Dark(red, BitOf(p), "accent") # "bg" THEN Dark(red, BitOf(p), "accent") ELSE Dark(black, BitOf(p), "fg")
  BY <1>3, <1>4 DEF SeenAt, Vertical, Horizontal
<1>6. canvas[p] \in {"bg", "fg", "accent"}
  BY DEF Colors
<1> QED
  BY <1>2, <1>5, <1>6 DEF Dark

LEMMA VerticalPicture ==
  ASSUME kind \in Kinds, kind \in Vertical, HeightFits, NEW canvas, Colors(canvas), NEW m,
         HoldsPlane(m, "black", Negative(Buffer(canvas, "black")))
  PROVE  IsPicture(m, canvas)
<1> SUFFICES ASSUME NEW p \in Pixels PROVE SeenAt(m, p) = canvas[p]
  BY DEF IsPicture
<1> DEFINE byte == Negative(Buffer(canvas, "black"))[IndexOf(p)]
<1>1. Tall(kind) /\ BitOf(p) = p[2] % Bits
  BY DEF Tall, BitOf, Vertical
<1>2. Bits \notin byte /\ (BitOf(p) \in byte <=> canvas[p] # "fg")
  <2>1. Bits \notin byte /\ (BitOf(p) \in byte <=> ~ PlaneBit("black", canvas[p]))
    BY ByteOfPixel
  <2> HIDE DEF byte
  <2> QED
    BY <2>1 DEF PlaneBit, Vertical
<1>3. m["black"][<<(Bits * Pages - 1 - p[2]) \div Bits, p[1]>>] = byte
  BY <1>1 DEF HoldsPlane
<1>4. Bits - 1 - ((Bits * Pages - 1 - p[2]) % Bits) = BitOf(p)
  BY <1>1, TallPlace
<1> HIDE DEF byte
<1>5. SeenAt(m, p) = Dark(byte, BitOf(p), "fg")
  BY <1>3, <1>4 DEF SeenAt, Vertical, Horizontal
<1>6. canvas[p] \in {"bg", "fg"}
  BY DEF Colors, HasAccent, Vertical, Horizontal
<1> QED
  BY <1>2, <1>5, <1>6 DEF Dark

LEMMA HorizontalPicture ==
  ASSUME kind \in Kinds, kind \in Horizontal, NEW canvas, Colors(canvas), NEW m,
         HoldsPlane(m, "black", Negative(Buffer(canvas, "black")))
  PROVE  IsPicture(m, canvas)
<1> SUFFICES ASSUME NEW p \in Pixels PROVE SeenAt(m, p) = canvas[p]
  BY DEF IsPicture
<1> DEFINE byte == Negative(Buffer(canvas, "black"))[IndexOf(p)]
<1>1. ~ Tall(kind) /\ HeightFits /\ BitOf(p) = Bits - 1 - (p[1] % Bits)
  BY DEF Tall, HeightFits, Oled, BitOf, Vertical, Horizontal
<1>2. Bits \notin byte /\ (BitOf(p) \in byte <=> canvas[p] = "fg")
  <2>1. Bits \notin byte /\ (BitOf(p) \in byte <=> ~ PlaneBit("black", canvas[p]))
    BY <1>1, ByteOfPixel
  <2> HIDE DEF byte
  <2> QED
    BY <2>1 DEF PlaneBit, Oled, Vertical, Horizontal
<1>3. m["black"][<<p[1] \div Bits, p[2]>>] = byte
  BY <1>1 DEF HoldsPlane
<1> HIDE DEF byte
<1>4. SeenAt(m, p) = Lit(byte, BitOf(p), "fg")
  BY <1>1, <1>3 DEF SeenAt, Vertical, Horizontal
<1>5. canvas[p] \in {"bg", "fg"}
  BY DEF Colors, HasAccent, Vertical, Horizontal
<1> QED
  BY <1>2, <1>4, <1>5 DEF Lit

LEMMA TriColorPicture ==
  ASSUME kind \in Kinds, kind = "tricolor", NEW canvas, Colors(canvas), NEW m,
         HoldsPlane(m, "black", Negative(Buffer(canvas, "black"))), HoldsPlane(m, "accent", Buffer(canvas, "accent"))
  PROVE  IsPicture(m, canvas)
<1> SUFFICES ASSUME NEW p \in Pixels PROVE SeenAt(m, p) = canvas[p]
  BY DEF IsPicture
<1> DEFINE black == Negative(Buffer(canvas, "black"))[IndexOf(p)]   red == Buffer(canvas, "accent")[IndexOf(p)]
<1>1. ~ Tall(kind) /\ HeightFits /\ BitOf(p) = Bits - 1 - (p[1] % Bits)
  BY DEF Tall, HeightFits, Oled, BitOf, Vertical
<1>2. /\ Bits \notin black /\ (BitOf(p) \in black <=> canvas[p] = "fg")
      /\ Bits \notin red /\ (BitOf(p) \in red <=> canvas[p] # "accent")
  <2>1. /\ Bits \notin black /\ (BitOf(p) \in black <=> ~ PlaneBit("black", canvas[p]))
        /\ Bits \notin red /\ (BitOf(p) \in red <=> PlaneBit("accent", canvas[p]))
    BY <1>1, ByteOfPixel
  <2> HIDE DEF black, red
  <2> QED
    BY <2>1 DEF PlaneBit, Oled, Vertical
<1>3. m["black"][<<p[1] \div Bits, p[2]>>] = black /\ m["accent"][<<p[1] \div Bits, p[2]>>] = red
  BY <1>1 DEF HoldsPlane
<1> HIDE DEF black, red
<1>4. SeenAt(m, p) = IF Dark(red, BitOf(p), "accent") # "bg" THEN Dark(red, BitOf(p), "accent") ELSE Lit(black, BitOf(p), "fg")
  BY <1>1, <1>3 DEF SeenAt
<1>5. canvas[p] \in {"bg", "fg", "accent"}
  BY DEF Colors
<1> QED
  BY <1>2, <1>4, <1>5 DEF Lit, Dark

(* The panels that show their memory: a page after the other, and the LCD. *)
LEMMA SidewaysPicture ==
  ASSUME kind \in Kinds, kind = "sh1107", HeightFits, NEW canvas, Colors(canvas), NEW m,
         \A i \in 0 .. RowBytes - 1, j \in 0 .. Height - 1 :
           m["black"][<<i, Offset + j>>] = Rotated(Buffer(canvas, "black"))[i * Height + j]
  PROVE  IsPicture(m, canvas)
<1> SUFFICES ASSUME NEW p \in Pixels PROVE SeenAt(m, p) = canvas[p]
  BY DEF IsPicture
<1> DEFINE x == p[1]   y == p[2]   i == x \div Bits   b == x % Bits   j == Height - 1 - y   n == i * Height + j
           buffer == Buffer(canvas, "black")
<1>1. x \in 0 .. Width - 1 /\ y \in 0 .. Height - 1
  BY DEF Pixels
<1>2. Height \in Nat \ {0} /\ Bits \in Nat \ {0} /\ RowBytes \in Nat \ {0} /\ Width \div Bits = RowBytes /\ Offset \in Nat
  BY Sizes, AddressFits
<1>3. i \in 0 .. RowBytes - 1 /\ i \in Nat /\ b \in 0 .. Bits - 1 /\ x = Bits * i + b
  <2>1. i \in 0 .. RowBytes - 1
    BY FlatBit
  <2>2. x \in Nat
    BY <1>1, SettingsOfPanels
  <2> HIDE DEF x, RowBytes
  <2> QED
    BY <1>2, <2>1, <2>2, PartsOf DEF i, b
<1>4. j \in 0 .. Height - 1 /\ Height - 1 - j = y /\ Offset + Height - 1 - y = Offset + j
  <2> HIDE DEF y, Height
  <2> QED
    BY <1>1, <1>2
<1> HIDE DEF x, y, i, b, j
<1>5. n \in 0 .. Height * RowBytes - 1 /\ n % Height = j /\ n \div Height = i
  <2> HIDE DEF Height, RowBytes
  <2>1. i \in 0 .. RowBytes - 1 /\ j \in 0 .. Height - 1 /\ Height \in Nat \ {0} /\ RowBytes \in Nat
    BY <1>2, <1>3, <1>4
  <2> QED
    BY <2>1, Placed
<1>6. Rotated(buffer)[n] = {d \in 0 .. Bits - 1 : (y % Bits) \in buffer[(i * Bits + d) + (y \div Bits) * Width]}
  <2>1. n \in 0 .. Height * (Width \div Bits) - 1
    BY <1>2, <1>5
  <2> HIDE DEF n, buffer, Height
  <2>2. Rotated(buffer)[n] = {d \in 0 .. Bits - 1 : (y % Bits) \in buffer[((n \div Height) * Bits + d) + (y \div Bits) * Width]}
    BY <1>4, <1>5, <2>1 DEF Rotated
  <2> QED
    BY <1>5, <2>2
<1>7. Bits \notin Rotated(buffer)[n] /\ (b \in Rotated(buffer)[n] <=> (y % Bits) \in buffer[x + (y \div Bits) * Width])
  <2>1. i * Bits + b = x
    BY <1>2, <1>3
  <2> HIDE DEF n, buffer
  <2> QED
    BY <1>2, <1>3, <1>6, <2>1
<1>8. (y % Bits) \in buffer[x + (y \div Bits) * Width] <=> canvas[p] = "fg"
  <2>1. BitOf(p) = y % Bits /\ IndexOf(p) = x + (y \div Bits) * Width
    BY DEF BitOf, IndexOf, Tall, Oled, x, y, Vertical
  <2> QED
    <3>1. BitOf(p) \in buffer[IndexOf(p)] <=> PlaneBit("black", canvas[p])
      BY ByteOfPixel
    <3> HIDE DEF buffer
    <3> QED
      BY <2>1, <3>1 DEF PlaneBit, Oled, Vertical
<1>9. SeenAt(m, p) = Lit(m["black"][<<i, Offset + Height - 1 - y>>], b, "fg")
  BY DEF SeenAt, i, b, x, y, Vertical, Horizontal
<1>10. m["black"][<<i, Offset + j>>] = Rotated(buffer)[n]
  BY <1>3, <1>4
<1>11. canvas[p] \in {"bg", "fg"}
  BY DEF Colors, HasAccent
<1> HIDE DEF n, buffer
<1> QED
  BY <1>4, <1>7, <1>8, <1>9, <1>10, <1>11 DEF Lit

LEMMA PagesPicture ==
  ASSUME kind \in Kinds, kind = "ssd1305", HeightFits, NEW canvas, Colors(canvas), NEW m,
         \A i \in 0 .. Pages - 1, j \in 0 .. Width - 1 :
           m["black"][<<i, Offset + j>>] = Buffer(canvas, "black")[i * Width + j]
  PROVE  IsPicture(m, canvas)
<1> SUFFICES ASSUME NEW p \in Pixels PROVE SeenAt(m, p) = canvas[p]
  BY DEF IsPicture
<1> DEFINE byte == Buffer(canvas, "black")[IndexOf(p)]
<1>1. Tall(kind) /\ BitOf(p) = p[2] % Bits
  BY DEF Tall, Oled, BitOf, Vertical
<1>2. Bits \notin byte /\ (BitOf(p) \in byte <=> canvas[p] = "fg")
  <2>1. Bits \notin byte /\ (BitOf(p) \in byte <=> PlaneBit("black", canvas[p]))
    BY ByteOfPixel
  <2> HIDE DEF byte
  <2> QED
    BY <2>1 DEF PlaneBit, Oled, Vertical
<1>3. p[2] \div Bits \in 0 .. Pages - 1 /\ p[1] \in 0 .. Width - 1
  BY TallPlace
<1>4. IndexOf(p) = (p[2] \div Bits) * Width + p[1]
  <2>1. IndexOf(p) = p[1] + (p[2] \div Bits) * Width
    BY <1>1, FlatBit
  <2> DEFINE q == p[2] \div Bits   x == p[1]
  <2>2. q \in Nat /\ x \in Nat /\ Width \in Nat
    BY <1>3, Sizes
  <2>3. x + q * Width = q * Width + x
    <3> HIDE DEF q, x
    <3> QED
      BY <2>2
  <2> QED
    BY <2>1, <2>3
<1>5. m["black"][<<p[2] \div Bits, Offset + p[1]>>] = byte
  BY <1>3, <1>4
<1> HIDE DEF byte
<1>6. SeenAt(m, p) = Lit(byte, BitOf(p), "fg")
  BY <1>1, <1>5 DEF SeenAt, Vertical, Horizontal
<1>7. canvas[p] \in {"bg", "fg"}
  BY DEF Colors, HasAccent
<1> QED
  BY <1>2, <1>6, <1>7 DEF Lit

LEMMA EndLeads ==
  ASSUME NEW c, NEW m, NEW t, Leads(State(c, m), End, t) PROVE t = State(c, m)
<1>1. t = Effect(Effect(Effect(State(c, m), Op("refresh")), Op("wait")), Op("sleep"))
  BY ThreeLead DEF End
<1> QED
  BY <1>1, NoEffect

LEMMA PlaneLeads ==
  ASSUME NEW c, NEW f, NEW a1, NEW b1, NEW q, NEW p \in Planes, Ready(c, f, a1, b1, q), NEW m, NEW t,
         Leads(State(c, m), <<Plane(p)>>, t)
  PROVE  \E d : t = State(d, m) /\ Ready(d, f, a1, b1, p)
<1>1. t = State(OnPlane(c, p), m)
  BY OneLeads, EffectOfPlane
<1>2. Ready(OnPlane(c, p), f, a1, b1, p)
  BY ReadyForPlane
<1> QED
  BY <1>1, <1>2

(* The mono e-papers: a set-up, the plane and its lines.                   *)
LEMMA LinesLead ==
  ASSUME kind \in Kinds, NEW f \in {"a", "b"}, NEW a1 \in 0 .. LastAddress, NEW b1 \in 0 .. LastAddress,
         NEW S, NEW setup \in Seq(S), Opens(setup, f, a1, b1), NEW n \in Nat, NEW size \in Nat,
         n = (IF f = "b" THEN a1 ELSE b1) + 1, size = (IF f = "b" THEN b1 ELSE a1) + 1,
         NEW line, \A k \in 1 .. n : DOMAIN line[k] = 1 .. size, NEW c, NEW m, IsMemory(m), NEW t,
         Leads(State(c, m), setup \o <<Plane("black")>> \o [k \in 1 .. n |-> Data(line[k])] \o End, t)
  PROVE  Held(m, t.ram, f, a1, b1, "black", line)
<1> DEFINE lines == [k \in 1 .. n |-> Data(line[k])]
           T == S \cup {Plane("black")} \cup {Data(line[k]) : k \in 1 .. n} \cup {Op("refresh"), Op("wait"), Op("sleep")}
<1>1. setup \in Seq(T)
  <2>1. \A i \in 1 .. Len(setup) : setup[i] \in T
    OBVIOUS
  <2>2. setup = [i \in 1 .. Len(setup) |-> setup[i]] /\ Len(setup) \in Nat
    OBVIOUS
  <2> HIDE DEF T
  <2> QED
    BY <2>1, <2>2
<1>2. <<Plane("black")>> \in Seq(T)
  <2>1. Plane("black") \in T
    OBVIOUS
  <2> HIDE DEF T
  <2> QED
    BY <2>1
<1>3. lines \in Seq(T) /\ Len(lines) = n /\ \A k \in 1 .. n : lines[k] = Data(line[k])
  <2>1. \A k \in 1 .. n : Data(line[k]) \in T
    OBVIOUS
  <2> HIDE DEF T
  <2> QED
    BY <2>1
<1>4. End \in Seq(T)
  <2>1. {Op("refresh"), Op("wait"), Op("sleep")} \subseteq T
    OBVIOUS
  <2> HIDE DEF T
  <2> QED
    BY <2>1 DEF End
<1> DEFINE head == setup \o <<Plane("black")>>   body == head \o lines
<1>5. head \in Seq(T)
  <2> HIDE DEF T
  <2> QED
    BY <1>1, <1>2
<1>6. body \in Seq(T)
  <2> HIDE DEF T, head, lines
  <2> QED
    BY <1>3, <1>5
<1>7. Leads(State(c, m), body \o End, t)
  OBVIOUS
<1>8. PICK w : Leads(State(c, m), body, w) /\ Leads(w, End, t)
  <2> HIDE DEF body, T
  <2> QED
    BY <1>4, <1>6, <1>7, LeadsInTwo
<1>9. PICK v : Leads(State(c, m), head, v) /\ Leads(v, lines, w)
  <2> HIDE DEF head, lines, T
  <2> QED
    BY <1>3, <1>5, <1>8, LeadsInTwo
<1>10. PICK s : Leads(State(c, m), setup, s) /\ Leads(s, <<Plane("black")>>, v)
  <2> HIDE DEF T
  <2> QED
    BY <1>1, <1>2, <1>9, LeadsInTwo
<1> HIDE DEF T, head, body, lines
<1>11. PICK d : s = State(d, m) /\ Fresh(d, f, a1, b1)
  BY <1>10 DEF Opens
<1>12. Ready(d, f, a1, b1, "black")
  BY <1>11, FreshIsReady
<1>13. PICK e : v = State(e, m) /\ Ready(e, f, a1, b1, "black")
  <2>1. "black" \in Planes
    BY DEF Planes
  <2> QED
    BY <1>10, <1>11, <1>12, <2>1, PlaneLeads
<1>14. PICK u : u[0] = v /\ u[n] = w /\ \A k \in 1 .. n : u[k] = Effect(u[k - 1], Data(line[k]))
  <2>1. PICK u : Between(v, lines, w, u)
    BY <1>9 DEF Leads
  <2> QED
    BY <1>3, <2>1 DEF Between
<1>15. PlaneSent(e, m, u[n], f, a1, b1, "black", line)
  <2>1. "black" \in Planes
    BY DEF Planes
  <2>2. u[0] = State(e, m) /\ \A k \in 1 .. n : u[k] = Effect(u[k - 1], Data(line[k])) /\ DOMAIN line[k] = 1 .. size
    BY <1>13, <1>14
  <2> QED
    BY <1>13, <2>1, <2>2, LinesSent
<1>16. w = State(w.c, w.ram) /\ Held(m, w.ram, f, a1, b1, "black", line)
  BY <1>14, <1>15 DEF PlaneSent
<1>17. t = State(w.c, w.ram)
  BY <1>8, <1>16, EndLeads
<1> QED
  BY <1>16, <1>17 DEF State

(* A plane of the 2.13-inch panel, each page after a feed.                 *)
LEMMA FedPlaneLeads ==
  ASSUME kind \in Kinds, NEW c, NEW q, NEW p \in Planes, Ready(c, "b", Pages - 1, Width - 1, q), NEW m, IsMemory(m),
         NEW buffer, NEW t, Leads(State(c, m), LandscapePlane(p, buffer), t)
  PROVE  \E d, after : /\ t = State(d, after) /\ Ready(d, "b", Pages - 1, Width - 1, p)
                      /\ Held(m, after, "b", Pages - 1, Width - 1, p, [k \in 1 .. Pages |-> Slice(buffer, (Pages - k) * Width, Width)])
<1> DEFINE line == [k \in 1 .. Pages |-> Slice(buffer, (Pages - k) * Width, Width)]
           parts == [k \in 1 .. Pages |-> <<Op("feed"), Data(Slice(buffer, (Pages - k) * Width, Width))>>]
           T == {Op("feed"), Plane(p)} \cup {Data(line[k]) : k \in 1 .. Pages}
<1>1. Pages \in Nat \ {0} /\ Width \in Nat \ {0} /\ Pages - 1 \in 0 .. LastAddress /\ Width - 1 \in 0 .. LastAddress
  BY Sizes
<1>2. /\ \A k \in 1 .. Pages : parts[k] = <<Op("feed"), Data(line[k])>> /\ line[k] = Slice(buffer, (Pages - k) * Width, Width)
      /\ parts = [k \in 1 .. Pages |-> parts[k]] /\ Plane(p) \in T /\ Op("feed") \in T
      /\ \A k \in 1 .. Pages : Data(line[k]) \in T
  OBVIOUS
<1>3. \A k \in 1 .. Pages : DOMAIN line[k] = 1 .. Width
  BY <1>2 DEF Slice
<1>4. LandscapePlane(p, buffer) = (<<Plane(p)>> \o FlattenSeq(parts)) \o <<Op("feed")>>
  BY DEF LandscapePlane
<1> HIDE DEF line, parts, T
<1>5. \A k \in 1 .. Pages : parts[k] \in Seq(T)
  <2> SUFFICES ASSUME NEW k \in 1 .. Pages PROVE parts[k] \in Seq(T)
    OBVIOUS
  <2>1. \A o, r \in T : <<o, r>> \in Seq(T)
    OBVIOUS
  <2>2. Op("feed") \in T /\ Data(line[k]) \in T /\ parts[k] = <<Op("feed"), Data(line[k])>>
    BY <1>2
  <2> QED
    BY <2>1, <2>2
<1>6. parts \in Seq(Seq(T)) /\ Len(parts) = Pages /\ parts # <<>>
  <2> HIDE DEF Pages
  <2>1. parts \in Seq(Seq(T)) /\ Len(parts) = Pages
    BY <1>1, <1>2, <1>5
  <2> QED
    BY <1>1, <2>1
<1> DEFINE flat == FlattenSeq(parts)   body == <<Plane(p)>> \o flat
<1>7. flat \in Seq(T)
  BY <1>6, Flat
<1> HIDE DEF flat
<1>8. body \in Seq(T) /\ <<Plane(p)>> \in Seq(T) /\ <<Op("feed")>> \in Seq(T)
  BY <1>2, <1>7
<1>9. PICK w : Leads(State(c, m), body, w) /\ Leads(w, <<Op("feed")>>, t)
  <2>1. Leads(State(c, m), body \o <<Op("feed")>>, t)
    BY <1>4 DEF flat
  <2> HIDE DEF body
  <2> QED
    BY <1>8, <2>1, LeadsInTwo
<1>10. PICK v : Leads(State(c, m), <<Plane(p)>>, v) /\ Leads(v, flat, w)
  BY <1>7, <1>8, <1>9, LeadsInTwo
<1>11. PICK e : v = State(e, m) /\ Ready(e, "b", Pages - 1, Width - 1, p)
  BY <1>10, PlaneLeads
<1>12. PICK u : ThroughParts(v, parts, Pages, w, u)
  BY <1>6, <1>10, LeadsInParts DEF flat
<1> DEFINE N == Pages
           IsAState(k) == u[k] = State(u[k].c, u[k].ram)
           Follows(k) == u[k] = Effect(u[k - 1], Data(line[k]))
<1>13. \A k \in 1 .. N : u[k] = Effect(Effect(u[k - 1], Op("feed")), Data(line[k]))
  <2> SUFFICES ASSUME NEW k \in 1 .. Pages PROVE u[k] = Effect(Effect(u[k - 1], Op("feed")), Data(line[k]))
    OBVIOUS
  <2>1. Leads(u[k - 1], parts[k], u[k]) /\ parts[k] = <<Op("feed"), Data(line[k])>>
    BY <1>2, <1>12 DEF ThroughParts
  <2>2. Leads(u[k - 1], <<Op("feed"), Data(line[k])>>, u[k])
    BY <2>1
  <2> QED
    BY <2>2, TwoLead
<1>14. IsAState(0)
  BY <1>11, <1>12 DEF ThroughParts, State
<1>15. ASSUME NEW k \in 1 .. N, IsAState(k - 1) PROVE IsAState(k) /\ Follows(k)
  <2>1. Effect(u[k - 1], Op("feed")) = u[k - 1]
    BY <1>15, NoEffect
  <2>2. u[k] = Effect(u[k - 1], Data(line[k]))
    BY <1>13, <2>1
  <2>3. u[k] = Written(u[k - 1].c, u[k - 1].ram, line[k])
    BY <2>2, EffectIs DEF Data
  <2> QED
    BY <1>1, <1>3, <2>2, <2>3, WrittenIsState
<1> DEFINE B == {k \in 0 .. N : ~ IsAState(k)}
<1>16. ASSUME NEW k \in B, \A j \in B : k <= j PROVE FALSE
  <2> HIDE DEF Pages, IsAState
  <2>1. k # 0
    BY <1>14
  <2>2. k \in 1 .. N /\ k - 1 \in 0 .. N /\ ~ (k <= k - 1)
    BY <1>1, <2>1
  <2> QED
    BY <1>15, <1>16, <2>2
<1>17. B = {}
  <2>1. B \in SUBSET Nat
    BY <1>1
  <2> HIDE DEF B
  <2> QED
    BY <1>16, <2>1, FirstOf
<1>18. \A k \in 1 .. N : Follows(k)
  <2> HIDE DEF Pages, IsAState, Follows
  <2> SUFFICES ASSUME NEW k \in 1 .. N PROVE Follows(k)
    OBVIOUS
  <2>1. k - 1 \in 0 .. N
    BY <1>1
  <2> QED
    BY <1>15, <1>17, <2>1
<1>19. PlaneSent(e, m, u[N], "b", Pages - 1, Width - 1, p, line)
  <2>1. u[0] = State(e, m) /\ \A k \in 1 .. N : u[k] = Effect(u[k - 1], Data(line[k])) /\ DOMAIN line[k] = 1 .. Width
    BY <1>3, <1>11, <1>12, <1>18 DEF ThroughParts
  <2>2. N \in Nat /\ Width \in Nat /\ N = (Pages - 1) + 1 /\ Width = (Width - 1) + 1
    <3> HIDE DEF Pages
    <3> QED
      BY <1>1
  <2> HIDE DEF Pages, N
  <2> QED
    BY <1>1, <1>11, <2>1, <2>2, LinesSent
<1>20. w = State(w.c, w.ram) /\ Ready(w.c, "b", Pages - 1, Width - 1, p) /\ Held(m, w.ram, "b", Pages - 1, Width - 1, p, line)
  BY <1>12, <1>19 DEF PlaneSent, ThroughParts
<1>21. t = State(w.c, w.ram)
  BY <1>9, <1>20, OneLeads, NoEffect
<1> QED
  BY <1>20, <1>21 DEF line

LEMMA HeldTall ==
  ASSUME kind \in Kinds, Tall(kind), NEW f \in {"a", "b"}, NEW p \in Planes, NEW m, NEW after, NEW line, NEW buffer,
         Held(m, after, f, Pages - 1, Width - 1, p, line),
         \A z \in Pixels : (IF f = "b" THEN line[Pages - (z[2] \div Bits)][z[1] + 1]
                            ELSE line[z[1] + 1][Pages - (z[2] \div Bits)]) = buffer[IndexOf(z)]
  PROVE  HoldsPlane(after, p, buffer)
<1> SUFFICES ASSUME NEW z \in Pixels
             PROVE  after[p][<<(Bits * Pages - 1 - z[2]) \div Bits, z[1]>>] = buffer[IndexOf(z)]
  BY DEF HoldsPlane
<1> DEFINE q == z[2] \div Bits   x == z[1]   k == Pages - 1 - q
<1>1. /\ q \in 0 .. Pages - 1 /\ x \in 0 .. Width - 1 /\ (Bits * Pages - 1 - z[2]) \div Bits = k
  BY TallPlace
<1>2. /\ Pages \in Nat \ {0} /\ Width \in Nat \ {0} /\ LastAddress \in Nat
      /\ Pages - 1 \in 0 .. LastAddress /\ Width - 1 \in 0 .. LastAddress
  BY Sizes
<1>3. k \in 0 .. LastAddress /\ k <= Pages - 1 /\ x \in 0 .. LastAddress /\ x <= Width - 1 /\ k + 1 = Pages - q
  <2> HIDE DEF q, x, Pages, LastAddress
  <2> QED
    BY <1>1, <1>2
<1>4. after[p][<<k, x>>] = IF f = "b" THEN line[k + 1][x + 1] ELSE line[x + 1][k + 1]
  <2>1. <<k, x>> \in Addresses /\ <<k, x>>[1] = k /\ <<k, x>>[2] = x
    BY <1>3 DEF Addresses
  <2> HIDE DEF k, x
  <2> QED
    BY <1>3, <2>1 DEF Held
<1> HIDE DEF k, q
<1> QED
  BY <1>1, <1>3, <1>4 DEF q

LEMMA HeldFlat ==
  ASSUME kind \in Kinds, ~ Tall(kind), NEW p \in Planes, NEW m, NEW after, NEW line, NEW buffer,
         Held(m, after, "a", RowBytes - 1, Height - 1, p, line),
         \A z \in Pixels : line[z[2] + 1][(z[1] \div Bits) + 1] = buffer[IndexOf(z)]
  PROVE  HoldsPlane(after, p, buffer)
<1> SUFFICES ASSUME NEW z \in Pixels
             PROVE  after[p][<<z[1] \div Bits, z[2]>>] = buffer[IndexOf(z)]
  BY DEF HoldsPlane
<1> DEFINE k == z[1] \div Bits   y == z[2]
<1>1. k \in 0 .. RowBytes - 1 /\ y \in 0 .. Height - 1
  BY FlatBit
<1>2. /\ RowBytes \in Nat \ {0} /\ Height \in Nat \ {0} /\ LastAddress \in Nat
      /\ RowBytes - 1 \in 0 .. LastAddress /\ Height - 1 \in 0 .. LastAddress
  BY Sizes
<1>3. k \in 0 .. LastAddress /\ k <= RowBytes - 1 /\ y \in 0 .. LastAddress /\ y <= Height - 1
  <2> HIDE DEF k, y, RowBytes, Height, LastAddress
  <2> QED
    BY <1>1, <1>2
<1>4. after[p][<<k, y>>] = line[y + 1][k + 1]
  <2>1. <<k, y>> \in Addresses /\ <<k, y>>[1] = k /\ <<k, y>>[2] = y
    BY <1>3 DEF Addresses
  <2> HIDE DEF k, y
  <2> QED
    BY <1>3, <2>1 DEF Held
<1> QED
  BY <1>4

(* Another plane is left alone.                                            *)
LEMMA OtherPlaneKept ==
  ASSUME kind \in Kinds, Tall(kind), NEW f, NEW a1, NEW b1, NEW p \in Planes, NEW q \in Planes, p # q, NEW m, NEW after, NEW line,
         NEW buffer, HoldsPlane(m, q, buffer), Held(m, after, f, a1, b1, p, line)
  PROVE  HoldsPlane(after, q, buffer)
<1> SUFFICES ASSUME NEW z \in Pixels
             PROVE  after[q][<<(Bits * Pages - 1 - z[2]) \div Bits, z[1]>>] = buffer[IndexOf(z)]
  BY DEF HoldsPlane
<1> DEFINE x == <<(Bits * Pages - 1 - z[2]) \div Bits, z[1]>>
<1>1. x \in Addresses
  <2>1. /\ z[2] \div Bits \in 0 .. Pages - 1 /\ z[1] \in 0 .. Width - 1
        /\ (Bits * Pages - 1 - z[2]) \div Bits = Pages - 1 - (z[2] \div Bits)
    BY TallPlace
  <2>2. /\ Pages \in Nat \ {0} /\ Width \in Nat \ {0} /\ LastAddress \in Nat
        /\ Pages - 1 \in 0 .. LastAddress /\ Width - 1 \in 0 .. LastAddress
    BY Sizes
  <2>3. \A i \in 0 .. Pages - 1 : Pages - 1 - i \in 0 .. LastAddress
    <3> HIDE DEF Pages, LastAddress
    <3> QED
      BY <2>2
  <2>4. \A i \in 0 .. Width - 1 : i \in 0 .. LastAddress
    <3> HIDE DEF LastAddress
    <3> QED
      BY <2>2
  <2>5. (Bits * Pages - 1 - z[2]) \div Bits \in 0 .. LastAddress /\ z[1] \in 0 .. LastAddress
    <3> HIDE DEF LastAddress, Pages
    <3> QED
      BY <2>1, <2>3, <2>4
  <2> QED
    BY <2>5 DEF Addresses
<1>2. m[q][x] = buffer[IndexOf(z)]
  BY DEF HoldsPlane
<1> HIDE DEF x
<1>3. after[q][x] = m[q][x]
  BY <1>1 DEF Held
<1> QED
  BY <1>2, <1>3 DEF x

LEMMA LandscapeLines ==
  ASSUME kind \in Kinds, Tall(kind), NEW p \in Planes, NEW m, NEW after, NEW buffer,
         Held(m, after, "b", Pages - 1, Width - 1, p, [k \in 1 .. Pages |-> Slice(buffer, (Pages - k) * Width, Width)])
  PROVE  HoldsPlane(after, p, buffer)
<1> DEFINE line == [k \in 1 .. Pages |-> Slice(buffer, (Pages - k) * Width, Width)]
<1>1. ASSUME NEW z \in Pixels PROVE line[Pages - (z[2] \div Bits)][z[1] + 1] = buffer[IndexOf(z)]
  <2> DEFINE q == z[2] \div Bits   x == z[1]   k == Pages - q
  <2>1. q \in 0 .. Pages - 1 /\ x \in 0 .. Width - 1
    BY TallPlace
  <2>2. Pages \in Nat \ {0} /\ Width \in Nat \ {0}
    BY Sizes
  <2>3. IndexOf(z) = x + q * Width
    BY FlatBit
  <2> HIDE DEF q, x
  <2>4. k \in 1 .. Pages /\ x + 1 \in 1 .. Width /\ Pages - k = q /\ q * Width + (x + 1) - 1 = x + q * Width
    <3> HIDE DEF Pages
    <3> QED
      BY <2>1, <2>2
  <2>5. line[k] = Slice(buffer, q * Width, Width)
    <3> HIDE DEF k, Pages
    <3> QED
      BY <2>4
  <2>6. line[k][x + 1] = buffer[q * Width + (x + 1) - 1]
    BY <2>4, <2>5 DEF Slice
  <2> HIDE DEF line
  <2> QED
    BY <2>3, <2>4, <2>6 DEF q, x, k
<1>2. Held(m, after, "b", Pages - 1, Width - 1, p, line)
  OBVIOUS
<1> HIDE DEF line
<1> QED
  BY <1>1, <1>2, HeldTall

LEMMA LandscapeShown ==
  ASSUME kind \in Kinds, kind = "213b", NEW canvas, Colors(canvas), NEW c, NEW m, IsMemory(m), NEW t,
         Leads(State(c, m), LandscapeOps(canvas), t)
  PROVE  IsPicture(t.ram, canvas)
<1> DEFINE S == Steps(canvas) \cup {Pause(SleepT)}
           black == Buffer(canvas, "black")   red == Buffer(canvas, "accent")
           one == LandscapeSetUp   two == LandscapePlane("black", black)   three == LandscapePlane("accent", red)
           four == <<Op("feed")>>   five == End   six == <<Pause(SleepT)>>
<1>1. one \in Seq(S) /\ two \in Seq(S) /\ three \in Seq(S) /\ four \in Seq(S) /\ five \in Seq(S) /\ six \in Seq(S)
  <2>0. /\ \A name \in {"reset", "wait", "feed", "refresh", "sleep"} : Op(name) \in S
        /\ {Order("b"), Window(0, Pages - 1, 0, Width - 1), At(0, 0), Plane("black"), Plane("accent")} \subseteq S
        /\ \A plane \in {"black", "accent"}, k \in 1 .. Pages :
              Data(Slice(Buffer(canvas, plane), (Pages - k) * Width, Width)) \in S
        /\ Pause(SleepT) \in S
    BY DEF Steps
  <2>1. Pages \in Nat
    BY Sizes
  <2> HIDE DEF S
  <2>2. ASSUME NEW plane \in {"black", "accent"} PROVE LandscapePlane(plane, Buffer(canvas, plane)) \in Seq(S)
    <3> DEFINE parts == [k \in 1 .. Pages |->
                           <<Op("feed"), Data(Slice(Buffer(canvas, plane), (Pages - k) * Width, Width))>>]
    <3>1. parts \in Seq(Seq(S))
      BY <2>0, <2>1
    <3>2. FlattenSeq(parts) \in Seq(S)
      BY <3>1, Flat
    <3>3. <<Plane(plane)>> \in Seq(S) /\ <<Op("feed")>> \in Seq(S)
      BY <2>0
    <3>4. LandscapePlane(plane, Buffer(canvas, plane)) = <<Plane(plane)>> \o FlattenSeq(parts) \o <<Op("feed")>>
      BY DEF LandscapePlane
    <3> HIDE DEF parts
    <3> QED
      BY <3>2, <3>3, <3>4
  <2>3. End \in Seq(S) /\ <<Op("feed")>> \in Seq(S) /\ six \in Seq(S)
    BY <2>0 DEF End
  <2>4. Reset \in Seq(S) /\ <<Order("b"), Window(0, Pages - 1, 0, Width - 1), At(0, 0), Op("wait")>> \in Seq(S)
    BY <2>0 DEF Reset
  <2> QED
    BY <2>2, <2>3, <2>4 DEF LandscapeSetUp
<1>2. LandscapeOps(canvas) = one \o two \o three \o four \o five \o six
  BY DEF LandscapeOps
<1> HIDE DEF S, black, red, one, two, three, four, five, six
<1> DEFINE s2 == one \o two   s3 == s2 \o three   s4 == s3 \o four   s5 == s4 \o five
<1>3. s2 \in Seq(S)
  BY <1>1
<1> HIDE DEF s2
<1>4. s3 \in Seq(S)
  BY <1>1, <1>3
<1> HIDE DEF s3
<1>5. s4 \in Seq(S)
  BY <1>1, <1>4
<1> HIDE DEF s4
<1>6. s5 \in Seq(S)
  BY <1>1, <1>5
<1>7. Leads(State(c, m), s5 \o six, t)
  BY <1>2 DEF s2, s3, s4
<1> HIDE DEF s5
<1>8. PICK t5 : Leads(State(c, m), s5, t5) /\ Leads(t5, six, t)
  BY <1>1, <1>6, <1>7, LeadsInTwo
<1>9. PICK t4 : Leads(State(c, m), s4, t4) /\ Leads(t4, five, t5)
  BY <1>1, <1>5, <1>8, LeadsInTwo DEF s5
<1>10. PICK t3 : Leads(State(c, m), s3, t3) /\ Leads(t3, four, t4)
  BY <1>1, <1>4, <1>9, LeadsInTwo DEF s4
<1>11. PICK t2 : Leads(State(c, m), s2, t2) /\ Leads(t2, three, t3)
  BY <1>1, <1>3, <1>10, LeadsInTwo DEF s3
<1>12. PICK t1 : Leads(State(c, m), one, t1) /\ Leads(t1, two, t2)
  BY <1>1, <1>11, LeadsInTwo DEF s2
<1>13. PICK d : t1 = State(d, m) /\ Fresh(d, "b", Pages - 1, Width - 1)
  BY <1>12, LandscapeOpens DEF Opens, one
<1>14. Ready(d, "b", Pages - 1, Width - 1, "black")
  BY <1>13, Sizes, FreshIsReady
<1>15. PICK e, m2 : /\ t2 = State(e, m2) /\ Ready(e, "b", Pages - 1, Width - 1, "black")
                    /\ Held(m, m2, "b", Pages - 1, Width - 1, "black", [k \in 1 .. Pages |-> Slice(black, (Pages - k) * Width, Width)])
  <2>1. "black" \in Planes
    BY DEF Planes
  <2> QED
    BY <1>12, <1>13, <1>14, <2>1, FedPlaneLeads DEF two
<1>16. PICK g, m3 : /\ t3 = State(g, m3)
                    /\ Held(m2, m3, "b", Pages - 1, Width - 1, "accent", [k \in 1 .. Pages |-> Slice(red, (Pages - k) * Width, Width)])
  <2>1. "accent" \in Planes /\ IsMemory(m2)
    BY <1>15 DEF Planes, Held
  <2> QED
    BY <1>11, <1>15, <2>1, FedPlaneLeads DEF three
<1>17. Tall(kind) /\ "black" \in Planes /\ "accent" \in Planes /\ "black" # "accent"
  BY DEF Tall, Planes, Vertical
<1>18. HoldsPlane(m2, "black", black)
  BY <1>15, <1>17, LandscapeLines
<1>19. HoldsPlane(m3, "black", black)
  BY <1>16, <1>17, <1>18, OtherPlaneKept
<1>20. HoldsPlane(m3, "accent", red)
  BY <1>16, <1>17, LandscapeLines
<1>21. t = State(g, m3)
  <2>1. t4 = State(g, m3)
    BY <1>10, <1>16, OneLeads, NoEffect DEF four
  <2>2. t5 = State(g, m3)
    BY <1>9, <2>1, EndLeads DEF five
  <2> QED
    BY <1>8, <2>2, OneLeads, NoEffect DEF six
<1>22. t.ram = m3
  BY <1>21 DEF State
<1> QED
  BY <1>19, <1>20, <1>22, LandscapePicture DEF black, red

LEMMA InBuffer ==
  ASSUME kind \in Kinds, HeightFits, NEW canvas, NEW plane, NEW z \in Pixels
  PROVE  Negative(Buffer(canvas, plane))[IndexOf(z)] = Inverted(Buffer(canvas, plane)[IndexOf(z)])
<1>1. IndexOf(z) \in DOMAIN Buffer(canvas, plane)
  BY SurfacesKeepPictures
<1> QED
  BY <1>1 DEF Negative

LEMMA WholePages ==
  ASSUME kind \in Kinds, Height % Bits = 0
  PROVE  Height = Pages * Bits /\ Height \div Bits = Pages /\ Max({1, Height \div Bits}) = Pages
<1>1. Height \in Nat \ {0} /\ Bits \in Nat \ {0} /\ Pages \in Nat \ {0}
  BY Sizes
<1>2. Height = Bits * Pages
  <2>1. 0 \in 0 .. Height - 1
    BY <1>1
  <2> QED
    BY <1>1, <2>1, Grouped DEF Pages
<1>3. Height = Pages * Bits /\ Height \div Bits = Pages
  <2> HIDE DEF Height, Pages
  <2>1. (Pages * Bits + 0) \div Bits = Pages /\ Pages * Bits + 0 = Height
    BY <1>1, <1>2, OneWay
  <2> QED
    BY <1>1, <2>1
<1>4. Max({1, Pages}) = Pages
  <2> HIDE DEF Pages
  <2>1. \E x \in {1, Pages} : \A y \in {1, Pages} : x >= y
    BY <1>1
  <2>2. PICK k : k = Max({1, Pages})
    OBVIOUS
  <2>3. k \in {1, Pages} /\ \A y \in {1, Pages} : k >= y
    BY <2>1, <2>2 DEF Max
  <2> QED
    BY <1>1, <2>2, <2>3
<1> QED
  BY <1>3, <1>4

(* What is sent when the surface has whole columns.                        *)
LEMMA WholeColumns ==
  ASSUME kind \in Kinds, kind \in Vertical, HeightFits
  PROVE  /\ Max({1, Height \div Bits}) = Pages /\ (BufferLength + Pages - 1) \div Pages = Width
         /\ \A i \in 1 .. Width : Min({Pages, BufferLength - (i - 1) * Pages}) = Pages
<1> DEFINE h == Height   n == Pages
<1>1. h \in Nat \ {0} /\ n \in Nat \ {0} /\ Width \in Nat \ {0} /\ Bits \in Nat \ {0}
  BY Sizes
<1>2. h = n * Bits /\ Max({1, Height \div Bits}) = Pages
  BY WholePages DEF HeightFits
<1>3. BufferLength = (Width * h) \div Bits
  BY DEF BufferLength, Vertical
<1> HIDE DEF h, n
<1>4. BufferLength = Width * n
  <2>1. PICK t \in Nat : t = Width * n
    BY <1>1
  <2>2. Width * h = t * Bits + 0 /\ (t * Bits + 0) \div Bits = t
    BY <1>1, <1>2, <2>1, OneWay
  <2> QED
    BY <1>3, <2>1, <2>2
<1>5. (BufferLength + n - 1) \div n = Width
  <2>1. (Width * n + (n - 1)) \div n = Width
    BY <1>1, OneWay
  <2>2. BufferLength + n - 1 = Width * n + (n - 1)
    BY <1>1, <1>4
  <2> QED
    BY <2>1, <2>2
<1>6. ASSUME NEW i \in 1 .. Width PROVE Min({n, BufferLength - (i - 1) * n}) = n
  <2>1. PICK k : k = BufferLength - (i - 1) * n
    OBVIOUS
  <2>2. k = n + (Width - i) * n /\ (Width - i) * n \in Nat
    BY <1>1, <1>4, <1>6, <2>1
  <2>3. k \in Nat /\ n <= k
    BY <1>1, <2>2
  <2> QED
    BY <1>1, <2>1, <2>3 DEF Min
<1> QED
  BY <1>2, <1>5, <1>6 DEF n, h

ColumnsOf(canvas) == [i \in 1 .. Width |-> [v \in 1 .. Pages |-> Inverted(Buffer(canvas, "black")[Width * (Pages - v) + i - 1])]]
LinesOf(canvas) ==
  [y \in 1 .. Height |-> [i \in 1 .. RowBytes |-> Inverted(Buffer(canvas, "black")[(y - 1) * RowBytes + i - 1])]]

LEMMA VerticalIs ==
  ASSUME kind \in Kinds, kind \in Vertical, kind \notin Misread, HeightFits, NEW canvas
  PROVE  VerticalOps(canvas) = VerticalSetUp \o <<Plane("black")>> \o [i \in 1 .. Width |-> Data(ColumnsOf(canvas)[i])] \o End
<1> DEFINE buffer == Buffer(canvas, "black")
           count == Max({1, Height \div Bits})
           columns == (BufferLength + count - 1) \div count
           size(c) == Min({count, BufferLength - (c - 1) * count})
           column(c) == [v \in 1 .. size(c) |-> Inverted(buffer[Width * (count - v) + c - 1])]
<1>1. VerticalOps(canvas) = VerticalSetUp \o <<Picture>> \o [i \in 1 .. columns |-> Data(column(i))] \o End
  BY DEF VerticalOps
<1>2. Picture = Plane("black")
  BY DEF Picture
<1>3. count = Pages /\ columns = Width /\ \A i \in 1 .. Width : size(i) = Pages
  BY WholeColumns
<1> HIDE DEF count, columns, size
<1>4. \A i \in 1 .. Width : column(i) = ColumnsOf(canvas)[i]
  <2> HIDE DEF buffer
  <2>1. \A i \in 1 .. Width : column(i) = [v \in 1 .. Pages |-> Inverted(buffer[Width * (Pages - v) + i - 1])]
    BY <1>3
  <2> QED
    BY <2>1 DEF ColumnsOf, buffer
<1> HIDE DEF column
<1>5. [i \in 1 .. columns |-> Data(column(i))] = [i \in 1 .. Width |-> Data(ColumnsOf(canvas)[i])]
  BY <1>3, <1>4
<1> QED
  BY <1>1, <1>2, <1>5

LEMMA HorizontalIs ==
  ASSUME kind \in Kinds, kind = "4in2", NEW canvas
  PROVE  HorizontalOps(canvas) = HorizontalSetUp \o <<Plane("black")>> \o [y \in 1 .. Height |-> Data(LinesOf(canvas)[y])] \o End
<1> DEFINE buffer == Buffer(canvas, "black")
           row(y) == [i \in 1 .. Width \div Bits |-> Inverted(buffer[y * (Width \div Bits) + i - 1])]
<1>1. HorizontalOps(canvas) = HorizontalSetUp \o <<Picture>> \o [y \in 1 .. Height |-> Data(row(y - 1))]
                              \o <<Refresh, Op("wait"), Op("sleep")>>
  BY DEF HorizontalOps
<1>2. Picture = Plane("black") /\ <<Refresh, Op("wait"), Op("sleep")>> = End
  BY DEF Picture, Refresh, Misread, End
<1>3. \A y \in 1 .. Height : row(y - 1) = LinesOf(canvas)[y]
  <2>1. Width \div Bits = RowBytes
    BY Sizes
  <2> HIDE DEF buffer, RowBytes
  <2>2. \A y \in 1 .. Height : row(y - 1) = [i \in 1 .. RowBytes |-> Inverted(buffer[(y - 1) * RowBytes + i - 1])]
    BY <2>1
  <2> QED
    BY <2>2 DEF LinesOf, buffer
<1> HIDE DEF row
<1>4. [y \in 1 .. Height |-> Data(row(y - 1))] = [y \in 1 .. Height |-> Data(LinesOf(canvas)[y])]
  BY <1>3
<1> QED
  BY <1>1, <1>2, <1>4

LEMMA SetUpsAreLists ==
  /\ kind \in Vertical \ Misread => \E S : VerticalSetUp \in Seq(S)
  /\ kind = "4in2" => \E S : HorizontalSetUp \in Seq(S)
<1> DEFINE w == Window(0, Pages - 1, 0, Width - 1)   v == Window(0, RowBytes - 1, 0, Height - 1)   r == RowWindow(0, Width - 1)
           S == {Op("reset"), Op("wait"), Order("a"), At(0, 0), w, v, r}
<1>1. {Op("reset"), Op("wait"), Order("a"), At(0, 0), w, v, r} \subseteq S
  OBVIOUS
<1>2. /\ VerticalSetUp = CASE kind = "2in13" -> Reset \o <<Order("a"), w, At(0, 0), Op("wait")>>
                           [] kind = "2in7v2" -> <<Op("reset"), Op("reset"), Op("wait"), r, Order("a"), Op("wait")>>
                           [] kind = "3in7" -> <<Op("reset"), Op("reset"), Op("wait"), Op("wait"), Order("a"), w>>
                           [] kind = "2in7" -> <<Op("reset"), Op("wait")>>
      /\ kind = "4in2" => HorizontalSetUp = <<Op("reset"), Op("wait"), Order("a"), v, At(0, 0)>>
  BY DEF VerticalSetUp, HorizontalSetUp
<1> HIDE DEF S, w, v, r
<1>3. /\ Reset \in Seq(S) /\ <<Order("a"), w, At(0, 0), Op("wait")>> \in Seq(S)
      /\ <<Op("reset"), Op("reset"), Op("wait"), r, Order("a"), Op("wait")>> \in Seq(S)
      /\ <<Op("reset"), Op("reset"), Op("wait"), Op("wait"), Order("a"), w>> \in Seq(S)
      /\ <<Op("reset"), Op("wait"), Order("a"), v, At(0, 0)>> \in Seq(S)
  BY <1>1 DEF Reset
<1>4. Reset \o <<Order("a"), w, At(0, 0), Op("wait")>> \in Seq(S)
  BY <1>3
<1> QED
  BY <1>2, <1>3, <1>4 DEF Vertical, Misread

LEMMA VerticalShown ==
  ASSUME kind \in Kinds, kind \in Vertical, kind \notin Misread, HeightFits, NEW canvas, Colors(canvas), NEW c, NEW m, IsMemory(m), NEW t,
         Leads(State(c, m), VerticalOps(canvas), t)
  PROVE  IsPicture(t.ram, canvas)
<1> DEFINE buffer == Buffer(canvas, "black")
           line == ColumnsOf(canvas)
<1>1. Pages \in Nat \ {0} /\ Width \in Nat \ {0} /\ Pages - 1 \in 0 .. LastAddress /\ Width - 1 \in 0 .. LastAddress
  BY Sizes
<1>2. VerticalOps(canvas) = VerticalSetUp \o <<Plane("black")>> \o [i \in 1 .. Width |-> Data(line[i])] \o End
  BY VerticalIs
<1>3. \A i \in 1 .. Width : line[i] = [v \in 1 .. Pages |-> Inverted(buffer[Width * (Pages - v) + i - 1])]
  BY DEF ColumnsOf
<1>4. \A i \in 1 .. Width : DOMAIN line[i] = 1 .. Pages
  BY <1>3
<1>5. PICK S : VerticalSetUp \in Seq(S)
  BY SetUpsAreLists
<1> HIDE DEF line
<1>6. Held(m, t.ram, "a", Pages - 1, Width - 1, "black", line)
  <2>1. Opens(VerticalSetUp, "a", Pages - 1, Width - 1)
    BY VerticalOpens
  <2>2. Width \in Nat /\ Pages \in Nat /\ Width = (Width - 1) + 1 /\ Pages = (Pages - 1) + 1
    <3> HIDE DEF Pages
    <3> QED
      BY <1>1
  <2>3. PICK a1, b1 : a1 = Pages - 1 /\ b1 = Width - 1
    OBVIOUS
  <2>4. PICK n, size : n = Width /\ size = Pages
    OBVIOUS
  <2>5. /\ a1 \in 0 .. LastAddress /\ b1 \in 0 .. LastAddress /\ n \in Nat /\ size \in Nat
        /\ n = (IF "a" = "b" THEN a1 ELSE b1) + 1 /\ size = (IF "a" = "b" THEN b1 ELSE a1) + 1
        /\ Opens(VerticalSetUp, "a", a1, b1) /\ \A k \in 1 .. n : DOMAIN line[k] = 1 .. size
        /\ Leads(State(c, m), VerticalSetUp \o <<Plane("black")>> \o [k \in 1 .. n |-> Data(line[k])] \o End, t)
    BY <1>1, <1>2, <1>4, <2>1, <2>2, <2>3, <2>4
  <2>6. Held(m, t.ram, "a", a1, b1, "black", line)
    BY <1>5, <2>5, LinesLead
  <2> QED
    BY <2>3, <2>6
<1>7. \A z \in Pixels : line[z[1] + 1][Pages - (z[2] \div Bits)] = Negative(buffer)[IndexOf(z)]
  <2> SUFFICES ASSUME NEW z \in Pixels PROVE line[z[1] + 1][Pages - (z[2] \div Bits)] = Negative(buffer)[IndexOf(z)]
    OBVIOUS
  <2> DEFINE q == z[2] \div Bits   x == z[1]
  <2>1. q \in 0 .. Pages - 1 /\ x \in 0 .. Width - 1
    BY TallPlace
  <2>2. IndexOf(z) = x + q * Width
    BY FlatBit DEF Tall
  <2> HIDE DEF q, x
  <2>3. Pages - q \in 1 .. Pages /\ x + 1 \in 1 .. Width /\ Width * (Pages - (Pages - q)) + (x + 1) - 1 = x + q * Width
    <3> HIDE DEF Pages
    <3>1. Pages - (Pages - q) = q /\ q \in Nat /\ x \in Nat
      BY <1>1, <2>1
    <3>2. Width * q = q * Width /\ Width * q \in Nat
      BY <1>1, <3>1
    <3> QED
      BY <1>1, <2>1, <3>1, <3>2
  <2>4. line[x + 1][Pages - q] = Inverted(buffer[x + q * Width])
    <3> HIDE DEF buffer, Pages
    <3>1. \A i \in 1 .. Width, v \in 1 .. Pages : line[i][v] = Inverted(buffer[Width * (Pages - v) + i - 1])
      BY <1>3
    <3>2. line[x + 1][Pages - q] = Inverted(buffer[Width * (Pages - (Pages - q)) + (x + 1) - 1])
      BY <2>3, <3>1
    <3> QED
      BY <2>3, <3>2
  <2>5. Negative(buffer)[IndexOf(z)] = Inverted(buffer[IndexOf(z)])
    BY InBuffer
  <2> HIDE DEF buffer
  <2> QED
    BY <2>2, <2>4, <2>5 DEF x, q
<1>8. HoldsPlane(t.ram, "black", Negative(buffer))
  <2>1. Tall(kind) /\ "black" \in Planes
    BY DEF Tall, Planes, Vertical
  <2> HIDE DEF buffer
  <2> QED
    BY <1>6, <1>7, <2>1, HeldTall
<1> QED
  BY <1>8, VerticalPicture

LEMMA HorizontalShown ==
  ASSUME kind \in Kinds, kind = "4in2", NEW canvas, Colors(canvas), NEW c, NEW m, IsMemory(m), NEW t,
         Leads(State(c, m), HorizontalOps(canvas), t)
  PROVE  IsPicture(t.ram, canvas)
<1> DEFINE buffer == Buffer(canvas, "black")
           line == LinesOf(canvas)
<1>1. RowBytes \in Nat \ {0} /\ Height \in Nat \ {0} /\ RowBytes - 1 \in 0 .. LastAddress /\ Height - 1 \in 0 .. LastAddress
  BY Sizes
<1>2. HorizontalOps(canvas) = HorizontalSetUp \o <<Plane("black")>> \o [y \in 1 .. Height |-> Data(line[y])] \o End
  BY HorizontalIs
<1>3. \A y \in 1 .. Height : line[y] = [i \in 1 .. RowBytes |-> Inverted(buffer[(y - 1) * RowBytes + i - 1])]
  BY DEF LinesOf
<1>4. \A y \in 1 .. Height : DOMAIN line[y] = 1 .. RowBytes
  BY <1>3
<1>5. PICK S : HorizontalSetUp \in Seq(S)
  BY SetUpsAreLists
<1> HIDE DEF line
<1>6. Held(m, t.ram, "a", RowBytes - 1, Height - 1, "black", line)
  <2>1. Opens(HorizontalSetUp, "a", RowBytes - 1, Height - 1)
    BY HorizontalOpens
  <2>2. Height \in Nat /\ RowBytes \in Nat /\ Height = (Height - 1) + 1 /\ RowBytes = (RowBytes - 1) + 1
    <3> HIDE DEF RowBytes, Height
    <3> QED
      BY <1>1
  <2>3. PICK a1, b1 : a1 = RowBytes - 1 /\ b1 = Height - 1
    OBVIOUS
  <2>4. PICK n, size : n = Height /\ size = RowBytes
    OBVIOUS
  <2>5. /\ a1 \in 0 .. LastAddress /\ b1 \in 0 .. LastAddress /\ n \in Nat /\ size \in Nat
        /\ n = (IF "a" = "b" THEN a1 ELSE b1) + 1 /\ size = (IF "a" = "b" THEN b1 ELSE a1) + 1
        /\ Opens(HorizontalSetUp, "a", a1, b1) /\ \A k \in 1 .. n : DOMAIN line[k] = 1 .. size
        /\ Leads(State(c, m), HorizontalSetUp \o <<Plane("black")>> \o [k \in 1 .. n |-> Data(line[k])] \o End, t)
    BY <1>1, <1>2, <1>4, <2>1, <2>2, <2>3, <2>4
  <2>6. Held(m, t.ram, "a", a1, b1, "black", line)
    BY <1>5, <2>5, LinesLead
  <2> QED
    BY <2>3, <2>6
<1>7. \A z \in Pixels : line[z[2] + 1][(z[1] \div Bits) + 1] = Negative(buffer)[IndexOf(z)]
  <2> SUFFICES ASSUME NEW z \in Pixels PROVE line[z[2] + 1][(z[1] \div Bits) + 1] = Negative(buffer)[IndexOf(z)]
    OBVIOUS
  <2> DEFINE k == z[1] \div Bits   y == z[2]
  <2>1. k \in 0 .. RowBytes - 1 /\ y \in 0 .. Height - 1 /\ IndexOf(z) = y * RowBytes + k
    BY FlatBit DEF Tall, Oled, Vertical
  <2> HIDE DEF k, y
  <2>2. k + 1 \in 1 .. RowBytes /\ y + 1 \in 1 .. Height /\ ((y + 1) - 1) * RowBytes + (k + 1) - 1 = y * RowBytes + k
    <3> HIDE DEF RowBytes, Height
    <3>1. (y + 1) - 1 = y /\ k \in Nat /\ y \in Nat
      BY <1>1, <2>1
    <3>2. y * RowBytes \in Nat
      BY <1>1, <3>1
    <3> QED
      BY <1>1, <2>1, <3>1, <3>2
  <2>3. line[y + 1][k + 1] = Inverted(buffer[y * RowBytes + k])
    <3> HIDE DEF buffer, RowBytes, Height
    <3>1. \A v \in 1 .. Height, i \in 1 .. RowBytes : line[v][i] = Inverted(buffer[(v - 1) * RowBytes + i - 1])
      BY <1>3
    <3>2. line[y + 1][k + 1] = Inverted(buffer[((y + 1) - 1) * RowBytes + (k + 1) - 1])
      BY <2>2, <3>1
    <3> QED
      BY <2>2, <3>2
  <2>4. Negative(buffer)[IndexOf(z)] = Inverted(buffer[IndexOf(z)])
    BY InBuffer DEF HeightFits, Oled, Vertical
  <2> HIDE DEF buffer
  <2> QED
    BY <2>1, <2>3, <2>4 DEF y, k
<1>8. HoldsPlane(t.ram, "black", Negative(buffer))
  <2>1. ~ Tall(kind) /\ "black" \in Planes
    BY DEF Tall, Planes, Oled, Vertical
  <2> HIDE DEF buffer
  <2> QED
    BY <1>6, <1>7, <2>1, HeldFlat
<1> QED
  BY <1>8, HorizontalPicture DEF Horizontal

-----------------------------------------------------------------------------
(* Transfers into a window that stands already, and page by page.          *)

(* A controller with a window at the origin, its pointer anywhere.         *)
Framed(c, f, a1, b1) ==
  c \in Controllers /\ c.first = f /\ c.a0 = 0 /\ c.a1 = a1 /\ c.b0 = 0 /\ c.b1 = b1

LEMMA PlacedBack ==
  ASSUME NEW c, NEW f, NEW a1, NEW b1, Framed(c, f, a1, b1), NEW p \in Planes
  PROVE  Framed(OnPlane(AtPlace(c, 0, 0), p), f, a1, b1) /\ OnPlane(AtPlace(c, 0, 0), p).plane = p
         /\ OnPlane(AtPlace(c, 0, 0), p).a = 0 /\ OnPlane(AtPlace(c, 0, 0), p).b = 0
<1> DEFINE d == AtPlace(c, 0, 0)   e == OnPlane(d, p)
<1>0. 0 \in Int /\ c \in Controllers
  BY DEF Framed
<1>1. d \in Controllers
  BY <1>0 DEF AtPlace, Controllers
<1>2. d.first = c.first /\ d.a0 = c.a0 /\ d.a1 = c.a1 /\ d.b0 = c.b0 /\ d.b1 = c.b1 /\ d.a = 0 /\ d.b = 0
  BY <1>0 DEF AtPlace, Controllers
<1> HIDE DEF d
<1>3. e \in Controllers
  BY <1>1 DEF OnPlane, Controllers
<1>4. e.first = d.first /\ e.a0 = d.a0 /\ e.a1 = d.a1 /\ e.b0 = d.b0 /\ e.b1 = d.b1 /\ e.a = d.a /\ e.b = d.b /\ e.plane = p
  BY <1>1 DEF OnPlane, Controllers
<1> HIDE DEF e
<1>5. Framed(e, f, a1, b1) /\ e.plane = p /\ e.a = 0 /\ e.b = 0
  BY <1>2, <1>3, <1>4 DEF Framed
<1> QED
  BY <1>5 DEF e, d

LEMMA FramedStays ==
  ASSUME NEW c, NEW f, NEW a1, NEW b1, Framed(c, f, a1, b1), NEW d \in Controllers, MovedTo(c, d)
  PROVE  Framed(d, f, a1, b1)
<1>1. d.first = c.first /\ d.a0 = c.a0 /\ d.a1 = c.a1 /\ d.b0 = c.b0 /\ d.b1 = c.b1
  BY DEF MovedTo, Framed, Controllers
<1> QED
  BY <1>1 DEF Framed

(* A plane of the three-colour panel, its pointer set back first.          *)
LEMMA WholePlaneLeads ==
  ASSUME kind \in Kinds, kind = "tricolor", NEW c, NEW p \in Planes, Framed(c, "a", RowBytes - 1, Height - 1),
         NEW m, IsMemory(m), NEW buffer, NEW t, Leads(State(c, m), TriColorPlane(p, buffer), t)
  PROVE  \E d, after : /\ t = State(d, after) /\ Framed(d, "a", RowBytes - 1, Height - 1) /\ IsMemory(after)
                       /\ HoldsPlane(after, p, buffer)
                       /\ \A r \in Planes \ {p}, x \in Addresses : after[r][x] = m[r][x]
<1> DEFINE a1 == RowBytes - 1   b1 == Height - 1   bytes == Slice(buffer, 0, BufferLength)
           e == OnPlane(AtPlace(c, 0, 0), p)   w == Written(e, m, bytes)
<1>1. /\ RowBytes \in Nat \ {0} /\ Height \in Nat \ {0} /\ a1 \in 0 .. LastAddress /\ b1 \in 0 .. LastAddress
      /\ LastAddress \in Nat /\ BufferLength = RowBytes * Height /\ ~ Tall(kind)
  BY Sizes DEF BufferLength, Tall, Oled, Vertical
<1>2. t = w
  <2>1. t = Effect(Effect(Effect(State(c, m), At(0, 0)), Plane(p)), Data(bytes))
    BY ThreeLead DEF TriColorPlane
  <2> HIDE DEF bytes
  <2>2. Effect(State(c, m), At(0, 0)) = State(AtPlace(c, 0, 0), m)
    BY EffectOfAt
  <2>3. Effect(State(AtPlace(c, 0, 0), m), Plane(p)) = State(e, m)
    BY EffectOfPlane
  <2> QED
    BY <2>1, <2>2, <2>3, EffectOfData
<1>3. Ready(e, "a", a1, b1, p)
  <2>1. Framed(e, "a", a1, b1) /\ e.plane = p /\ e.a = 0 /\ e.b = 0
    BY PlacedBack
  <2> HIDE DEF e
  <2>2. InWindow(e, Pointer(e))
    <3> HIDE DEF a1, b1
    <3> QED
      BY <1>1, <2>1 DEF InWindow, Pointer, Framed
  <2>3. PlaceIn(e, Pointer(e)) = 0
    <3> HIDE DEF a1, b1
    <3>1. (0 - 0) * (a1 - 0 + 1) + (0 - 0) = 0
      BY <1>1
    <3> QED
      BY <2>1, <3>1 DEF PlaceIn, Pointer, RowSize, Framed
  <2> QED
    BY <2>1, <2>2, <2>3 DEF Ready, Framed
<1> HIDE DEF e
<1>4. AsReady(e, "a", a1, b1, p)
  <2>1. "a" \in {"a", "b"}
    OBVIOUS
  <2> HIDE DEF a1, b1
  <2> QED
    BY <1>1, <1>3, <2>1, ReadyWindow
<1>5. Rows(e) = Height /\ RowSize(e) = RowBytes
  <2> HIDE DEF RowBytes, Height
  <2> QED
    BY <1>1, <1>4 DEF AsReady
<1>6. DOMAIN bytes = 1 .. Rows(e) * RowSize(e) /\ DOMAIN bytes = 1 .. BufferLength /\ BufferLength \in Nat
  <2>1. DOMAIN bytes = 1 .. BufferLength
    BY DEF Slice
  <2>2. RowBytes * Height = Height * RowBytes /\ RowBytes * Height \in Nat
    <3> HIDE DEF RowBytes, Height
    <3> QED
      BY <1>1
  <2> QED
    BY <1>1, <1>5, <2>1, <2>2
<1> HIDE DEF bytes
<1>7. WindowIsSent(e, m, w, bytes)
  <2>1. e \in Controllers /\ InWindow(e, Pointer(e)) /\ PlaceIn(e, Pointer(e)) = 0
    BY <1>3 DEF Ready
  <2> QED
    BY <1>6, <2>1, WindowSent
<1>8. w = State(w.c, w.ram)
  BY <1>6, WrittenIsState
<1> HIDE DEF w
<1>9. ASSUME NEW z \in Pixels PROVE w.ram[p][<<z[1] \div Bits, z[2]>>] = buffer[IndexOf(z)]
  <2> DEFINE k == z[1] \div Bits   y == z[2]   x == <<k, y>>
  <2>1. k \in 0 .. RowBytes - 1 /\ y \in 0 .. Height - 1 /\ IndexOf(z) = y * RowBytes + k
    BY <1>1, FlatBit
  <2> HIDE DEF k, y
  <2>2. k \in 0 .. LastAddress /\ y \in 0 .. LastAddress /\ k <= a1 /\ y <= b1
    <3> HIDE DEF RowBytes, Height, LastAddress
    <3> QED
      BY <1>1, <2>1
  <2>3. x \in Addresses /\ x[1] = k /\ x[2] = y
    BY <2>2 DEF Addresses
  <2> HIDE DEF x
  <2>4. InWindow(e, x) /\ SlowOf(e, x) = y /\ FastOf(e, x) = k
    <3> HIDE DEF a1, b1
    <3> QED
      BY <1>4, <2>2, <2>3 DEF AsReady
  <2>5. PlaceIn(e, x) = y * RowBytes + k
    <3>1. e \in Controllers
      BY <1>3 DEF Ready
    <3> QED
      BY <1>5, <2>4, <3>1, PlaceFits
  <2>6. y * RowBytes + k \in 0 .. BufferLength - 1
    <3>1. y * RowBytes + k \in 0 .. RowBytes * Height - 1
      <4> HIDE DEF RowBytes, Height
      <4> QED
        BY <1>1, <2>1, Placed
    <3> QED
      BY <1>1, <3>1
  <2>7. w.ram[p][x] = bytes[PlaceIn(e, x) + 1]
    <3>1. e.plane = p
      BY <1>3 DEF Ready
    <3> QED
      BY <1>7, <2>3, <2>4, <3>1 DEF WindowIsSent
  <2> DEFINE n == y * RowBytes + k
  <2>8. n + 1 \in 1 .. BufferLength /\ 0 + (n + 1) - 1 = n
    <3>1. n \in 0 .. BufferLength - 1
      BY <2>6
    <3> HIDE DEF n
    <3> QED
      BY <1>6, <3>1
  <2>9. bytes[n + 1] = buffer[n]
    <3> HIDE DEF n
    <3> QED
      BY <2>8 DEF bytes, Slice
  <2> QED
    BY <2>1, <2>5, <2>7, <2>9 DEF x, k, y
<1>10. HoldsPlane(w.ram, p, buffer)
  BY <1>1, <1>9 DEF HoldsPlane
<1>11. Framed(w.c, "a", RowBytes - 1, Height - 1) /\ IsMemory(w.ram)
  <2>1. Framed(e, "a", a1, b1)
    BY <1>3 DEF Ready, Framed
  <2>2. w.c \in Controllers /\ MovedTo(e, w.c) /\ IsMemory(w.ram)
    BY <1>7 DEF WindowIsSent
  <2> QED
    BY <2>1, <2>2, FramedStays
<1>12. \A r \in Planes \ {p}, x \in Addresses : w.ram[r][x] = m[r][x]
  <2>1. e.plane = p
    BY <1>3 DEF Ready
  <2> QED
    BY <1>7, <2>1 DEF WindowIsSent
<1> QED
  BY <1>2, <1>8, <1>10, <1>11, <1>12

(* Another plane is left alone, whatever the transfer.                     *)
LEMMA FlatPlaneKept ==
  ASSUME kind \in Kinds, ~ Tall(kind), NEW p \in Planes, NEW m, NEW after, NEW buffer, HoldsPlane(m, p, buffer),
         \A x \in Addresses : after[p][x] = m[p][x]
  PROVE  HoldsPlane(after, p, buffer)
<1> SUFFICES ASSUME NEW z \in Pixels
             PROVE  after[p][<<z[1] \div Bits, z[2]>>] = buffer[IndexOf(z)]
  BY DEF HoldsPlane
<1> DEFINE k == z[1] \div Bits   y == z[2]
<1>1. k \in 0 .. RowBytes - 1 /\ y \in 0 .. Height - 1
  BY FlatBit
<1>2. /\ RowBytes \in Nat \ {0} /\ Height \in Nat \ {0} /\ LastAddress \in Nat
      /\ RowBytes - 1 \in 0 .. LastAddress /\ Height - 1 \in 0 .. LastAddress
  BY Sizes
<1>3. k \in 0 .. LastAddress /\ y \in 0 .. LastAddress
  <2> HIDE DEF k, y, RowBytes, Height, LastAddress
  <2> QED
    BY <1>1, <1>2
<1>4. <<k, y>> \in Addresses
  BY <1>3 DEF Addresses
<1> QED
  BY <1>4 DEF HoldsPlane

LEMMA TriColorShown ==
  ASSUME kind \in Kinds, kind = "tricolor", NEW canvas, Colors(canvas), NEW c, NEW m, IsMemory(m), NEW t,
         Leads(State(c, m), TriColorOps(canvas), t)
  PROVE  IsPicture(t.ram, canvas)
<1> DEFINE black == Negative(Buffer(canvas, "black"))   red == Buffer(canvas, "accent")
           one == TriColorSetUp   two == TriColorPlane("black", black)   three == TriColorPlane("accent", red)
           S == {Op("reset"), Op("wait"), Order("a"), Window(0, RowBytes - 1, 0, Height - 1), At(0, 0), Plane("black"),
                 Plane("accent"), Data(Slice(black, 0, BufferLength)), Data(Slice(red, 0, BufferLength)),
                 Op("refresh"), Op("sleep")}
<1>1. one \in Seq(S) /\ two \in Seq(S) /\ three \in Seq(S) /\ End \in Seq(S)
  <2>1. /\ {Op("reset"), Op("wait"), Order("a"), Window(0, RowBytes - 1, 0, Height - 1), At(0, 0), Plane("black"),
           Plane("accent"), Data(Slice(black, 0, BufferLength)), Data(Slice(red, 0, BufferLength)),
           Op("refresh"), Op("sleep")} \subseteq S
    OBVIOUS
  <2> HIDE DEF S, black, red
  <2>2. one \in Seq(S)
    BY <2>1 DEF TriColorSetUp
  <2>3. End \in Seq(S)
    BY <2>1 DEF End
  <2>4. \A a, b, d \in S : <<a, b, d>> \in Seq(S)
    OBVIOUS
  <2>5. two \in Seq(S) /\ three \in Seq(S)
    BY <2>1, <2>4 DEF TriColorPlane
  <2> QED
    BY <2>2, <2>3, <2>5
<1>2. TriColorOps(canvas) = one \o two \o three \o End
  BY DEF TriColorOps, Negative
<1> HIDE DEF S, black, red, one, two, three
<1> DEFINE s2 == one \o two   s3 == s2 \o three
<1>3. s2 \in Seq(S)
  BY <1>1
<1> HIDE DEF s2
<1>4. s3 \in Seq(S)
  BY <1>1, <1>3
<1>5. Leads(State(c, m), s3 \o End, t)
  BY <1>2 DEF s2
<1> HIDE DEF s3
<1>6. PICK t3 : Leads(State(c, m), s3, t3) /\ Leads(t3, End, t)
  BY <1>1, <1>4, <1>5, LeadsInTwo
<1>7. PICK t2 : Leads(State(c, m), s2, t2) /\ Leads(t2, three, t3)
  BY <1>1, <1>3, <1>6, LeadsInTwo DEF s3
<1>8. PICK t1 : Leads(State(c, m), one, t1) /\ Leads(t1, two, t2)
  BY <1>1, <1>7, LeadsInTwo DEF s2
<1>9. PICK d : t1 = State(d, m) /\ Framed(d, "a", RowBytes - 1, Height - 1)
  BY <1>8, TriColorOpens DEF Opens, one, Fresh, Framed
<1>10. "black" \in Planes /\ "accent" \in Planes /\ "black" \in Planes \ {"accent"} /\ ~ Tall(kind)
  BY DEF Planes, Tall, Oled, Vertical
<1>11. PICK e, m2 : /\ t2 = State(e, m2) /\ Framed(e, "a", RowBytes - 1, Height - 1) /\ IsMemory(m2)
                    /\ HoldsPlane(m2, "black", black)
  BY <1>8, <1>9, <1>10, WholePlaneLeads DEF two
<1>12. PICK g, m3 : /\ t3 = State(g, m3) /\ HoldsPlane(m3, "accent", red)
                    /\ \A r \in Planes \ {"accent"}, x \in Addresses : m3[r][x] = m2[r][x]
  BY <1>7, <1>10, <1>11, WholePlaneLeads DEF three
<1>13. HoldsPlane(m3, "black", black)
  BY <1>10, <1>11, <1>12, FlatPlaneKept
<1>14. t.ram = m3
  <2>1. t = State(g, m3)
    BY <1>6, <1>12, EndLeads
  <2> QED
    BY <2>1 DEF State
<1> QED
  BY <1>12, <1>13, <1>14, TriColorPicture DEF black, red

-----------------------------------------------------------------------------
(* The panels that show their memory.                                      *)

(* The controller of a panel that shows its memory, between two draws.     *)
Steady(c) == c \in Controllers /\ c.plane = "black" /\ c.first = "b" /\ (kind \in Oled => IsWide(c))

(* Pages sent one after the other lead to a memory that has them.          *)
LEMMA PageOpsLead ==
  ASSUME kind \in Kinds, NEW c, c \in Controllers, IsWide(c), c.plane = "black", NEW m, IsMemory(m),
         NEW buffer, NEW n \in Nat \ {0}, n <= LastAddress + 1, NEW size \in Nat \ {0}, Offset + size <= LastAddress + 1,
         NEW t, Leads(State(c, m), PageOps(buffer, n, size), t)
  PROVE  \A i \in 0 .. n - 1, j \in 0 .. size - 1 : t.ram["black"][<<i, Offset + j>>] = buffer[i * size + j]
<1> DEFINE line == [k \in 1 .. n |-> Slice(buffer, (k - 1) * size, size)]
           parts == [k \in 1 .. n |-> <<At(k - 1, Offset), Data(Slice(buffer, (k - 1) * size, size))>>]
           S == {At(k - 1, Offset) : k \in 1 .. n} \cup {Data(line[k]) : k \in 1 .. n}
<1>1. LastAddress \in Nat /\ Offset \in Nat
  BY AddressFits
<1> HIDE DEF LastAddress
<1>2. /\ \A k \in 1 .. n : /\ parts[k] = <<At(k - 1, Offset), Data(line[k])>> /\ line[k] = Slice(buffer, (k - 1) * size, size)
                           /\ At(k - 1, Offset) \in S /\ Data(line[k]) \in S
      /\ parts = [k \in 1 .. n |-> parts[k]]
  OBVIOUS
<1>3. PageOps(buffer, n, size) = FlattenSeq(parts)
  BY DEF PageOps
<1> HIDE DEF line, parts, S
<1>4. \A k \in 1 .. n : parts[k] \in Seq(S)
  <2>1. \A o, r \in S : <<o, r>> \in Seq(S)
    OBVIOUS
  <2> QED
    BY <1>2, <2>1
<1>5. parts \in Seq(Seq(S)) /\ Len(parts) = n /\ parts # <<>>
  <2>1. parts \in Seq(Seq(S)) /\ Len(parts) = n
    BY <1>2, <1>4
  <2> QED
    BY <2>1
<1>6. PICK u : ThroughParts(State(c, m), parts, n, t, u)
  BY <1>3, <1>5, LeadsInParts
<1>7. ASSUME NEW k \in 1 .. n
      PROVE  u[k] = Effect(Effect(u[k - 1], At(k - 1, Offset)), Data(line[k])) /\ DOMAIN line[k] = 1 .. size
  <2>1. Leads(u[k - 1], <<At(k - 1, Offset), Data(line[k])>>, u[k])
    BY <1>2, <1>6 DEF ThroughParts
  <2>2. u[k] = Effect(Effect(u[k - 1], At(k - 1, Offset)), Data(line[k]))
    BY <2>1, TwoLead
  <2> QED
    BY <1>2, <2>2 DEF Slice
<1>8. u[0] = [c |-> c, ram |-> m] /\ u[n] = t
  BY <1>6 DEF ThroughParts, State
<1>9. \A x \in Addresses : x[1] < n /\ x[2] \in Offset .. Offset + size - 1 =>
             u[n].ram[c.plane][x] = line[x[1] + 1][x[2] - Offset + 1]
  <2>1. \A k \in 1 .. n : /\ u[k] = Effect(Effect(u[k - 1], At(k - 1, Offset)), Data(line[k]))
                         /\ DOMAIN line[k] = 1 .. size
    BY <1>7
  <2>2. n \in Nat /\ size \in Nat \ {0}
    OBVIOUS
  <2> QED
    BY <1>8, <2>1, <2>2, PagesSent, SMTT(60)
<1> SUFFICES ASSUME NEW i \in 0 .. n - 1, NEW j \in 0 .. size - 1
             PROVE  t.ram["black"][<<i, Offset + j>>] = buffer[i * size + j]
  OBVIOUS
<1> DEFINE x == <<i, Offset + j>>
<1>10. i \in 0 .. LastAddress /\ Offset + j \in 0 .. LastAddress
  BY <1>1
<1>11. x \in Addresses /\ x[1] = i /\ x[2] = Offset + j
  BY <1>10 DEF Addresses
<1>12. x[1] < n /\ x[2] \in Offset .. Offset + size - 1 /\ x[1] + 1 = i + 1 /\ x[2] - Offset + 1 = j + 1
       /\ i + 1 \in 1 .. n /\ j + 1 \in 1 .. size /\ (i + 1) - 1 = i
  BY <1>1, <1>11
<1> HIDE DEF x
<1>13. t.ram["black"][x] = line[i + 1][j + 1]
  BY <1>8, <1>9, <1>11, <1>12
<1>14. line[i + 1] = Slice(buffer, i * size, size)
  BY <1>2, <1>12
<1>15. line[i + 1][j + 1] = buffer[i * size + j]
  <2>1. i * size + (j + 1) - 1 = i * size + j
    <3>1. i * size \in Nat
      OBVIOUS
    <3> QED
      BY <3>1
  <2>2. line[i + 1][j + 1] = buffer[i * size + (j + 1) - 1]
    BY <1>12, <1>14 DEF Slice
  <2> QED
    BY <2>1, <2>2
<1> QED
  BY <1>13, <1>15 DEF x

LEMMA Sh1107Shown ==
  ASSUME kind \in Kinds, kind = "sh1107", HeightFits, NEW canvas, Colors(canvas), NEW c, Steady(c), NEW m, IsMemory(m), NEW t,
         Leads(State(c, m), Sh1107Ops(canvas), t)
  PROVE  IsPicture(t.ram, canvas)
<1> DEFINE buffer == Rotated(Buffer(canvas, "black"))
<1>1. RowBytes \in Nat \ {0} /\ Height \in Nat \ {0} /\ Width \div Bits = RowBytes /\ RowBytes <= LastAddress + 1 /\ Offset + Height <= LastAddress + 1
  <2>1. LastAddress \in Nat /\ Height \in Nat \ {0} /\ Offset \in Nat /\ Height - 1 + Offset <= LastAddress
    BY AddressFits, SettingsOfPanels
  <2>2. RowBytes \in Nat \ {0} /\ Width \div Bits = RowBytes /\ RowBytes - 1 \in 0 .. LastAddress
    BY Sizes
  <2> HIDE DEF LastAddress, Height, RowBytes
  <2> QED
    BY <2>1, <2>2
<1>2. c \in Controllers /\ IsWide(c) /\ c.plane = "black"
  BY DEF Steady, Oled, Vertical
<1>3. Leads(State(c, m), PageOps(buffer, RowBytes, Height), t)
  BY <1>1 DEF Sh1107Ops
<1> HIDE DEF buffer, RowBytes, Height
<1>4. \A i \in 0 .. RowBytes - 1, j \in 0 .. Height - 1 : t.ram["black"][<<i, Offset + j>>] = buffer[i * Height + j]
  BY <1>1, <1>2, <1>3, PageOpsLead
<1> QED
  BY <1>4, SidewaysPicture DEF buffer

LEMMA Ssd1305Shown ==
  ASSUME kind \in Kinds, kind = "ssd1305", HeightFits, NEW canvas, Colors(canvas), NEW c, Steady(c), NEW m, IsMemory(m), NEW t,
         Leads(State(c, m), Ssd1305Ops(canvas), t)
  PROVE  IsPicture(t.ram, canvas)
<1> DEFINE buffer == Buffer(canvas, "black")
<1>1. Pages \in Nat \ {0} /\ Width \in Nat \ {0} /\ Height \div Bits = Pages /\ Pages <= LastAddress + 1 /\ Offset + Width <= LastAddress + 1
  <2>1. LastAddress \in Nat /\ Width \in Nat \ {0} /\ Offset \in Nat /\ Width - 1 + Offset <= LastAddress
    BY AddressFits, SettingsOfPanels
  <2>2. Pages \in Nat \ {0} /\ Pages - 1 \in 0 .. LastAddress /\ Height \div Bits = Pages
    BY Sizes, WholePages DEF HeightFits, Oled, Vertical
  <2> HIDE DEF LastAddress, Pages, Height
  <2> QED
    BY <2>1, <2>2
<1>2. c \in Controllers /\ IsWide(c) /\ c.plane = "black"
  BY DEF Steady, Oled, Vertical
<1>3. Leads(State(c, m), PageOps(buffer, Pages, Width), t)
  BY <1>1 DEF Ssd1305Ops
<1> HIDE DEF buffer, Pages, Height
<1>4. \A i \in 0 .. Pages - 1, j \in 0 .. Width - 1 : t.ram["black"][<<i, Offset + j>>] = buffer[i * Width + j]
  BY <1>1, <1>2, <1>3, PageOpsLead
<1> QED
  BY <1>4, PagesPicture DEF buffer

(* The controller of an LCD between its set-up and its data.               *)
LEMMA LcdSetUp ==
  ASSUME kind \in Kinds, NEW c, Steady(c)
  PROVE  LET d == AtPlace(WithWindow(c, Offset, Offset + Height - 1, Offset, Offset + Width - 1), Offset, Offset)
         IN  /\ d \in Controllers /\ d.first = "b" /\ d.plane = "black" /\ d.a = Offset /\ d.b = Offset
             /\ d.a0 = Offset /\ d.a1 = Offset + Height - 1 /\ d.b0 = Offset /\ d.b1 = Offset + Width - 1
<1> DEFINE a1 == Offset + Height - 1   b1 == Offset + Width - 1   w == WithWindow(c, Offset, a1, Offset, b1)
           d == AtPlace(w, Offset, Offset)
<1>1. LastAddress \in Nat /\ Offset \in Int /\ Offset \in 0 .. LastAddress /\ a1 \in 0 .. LastAddress /\ b1 \in 0 .. LastAddress
  <2>1. /\ LastAddress \in Nat /\ Height \in Nat \ {0} /\ Width \in Nat \ {0} /\ Offset \in Nat
        /\ Width - 1 + Offset <= LastAddress /\ Height - 1 + Offset <= LastAddress
    BY AddressFits, SettingsOfPanels
  <2> HIDE DEF LastAddress, Height
  <2> QED
    BY <2>1
<1>2. c \in Controllers /\ c.first = "b" /\ c.plane = "black"
  BY DEF Steady
<1> HIDE DEF LastAddress, a1, b1
<1>3. w \in Controllers
  BY <1>1, <1>2 DEF WithWindow, Controllers
<1>4. w.first = "b" /\ w.plane = "black" /\ w.a0 = Offset /\ w.a1 = a1 /\ w.b0 = Offset /\ w.b1 = b1
  BY <1>2 DEF WithWindow, Controllers
<1> HIDE DEF w
<1>5. d \in Controllers
  BY <1>1, <1>3 DEF AtPlace, Controllers
<1>6. d.first = w.first /\ d.plane = w.plane /\ d.a0 = w.a0 /\ d.a1 = w.a1 /\ d.b0 = w.b0 /\ d.b1 = w.b1
      /\ d.a = Offset /\ d.b = Offset
  BY <1>3 DEF AtPlace, Controllers
<1> HIDE DEF d
<1>7. /\ d \in Controllers /\ d.first = "b" /\ d.plane = "black" /\ d.a = Offset /\ d.b = Offset
      /\ d.a0 = Offset /\ d.a1 = a1 /\ d.b0 = Offset /\ d.b1 = b1
  BY <1>4, <1>5, <1>6
<1> QED
  BY <1>7 DEF d, w, a1, b1

LEMMA LcdShown ==
  ASSUME kind \in Kinds, kind = "st77xx", NEW canvas, NEW c, Steady(c), NEW m, IsMemory(m), NEW t,
         Leads(State(c, m), LcdOps(canvas), t)
  PROVE  IsPicture(t.ram, canvas)
<1> DEFINE bytes == [i \in 1 .. Width * Height |-> canvas[<<(i - 1) % Width, (i - 1) \div Width>>]]
           w == WithWindow(c, Offset, Offset + Height - 1, Offset, Offset + Width - 1)
           d == AtPlace(w, Offset, Offset)
<1>1. /\ LastAddress \in Nat /\ Height \in Nat \ {0} /\ Width \in Nat \ {0} /\ Offset \in Nat
      /\ Width - 1 + Offset <= LastAddress /\ Height - 1 + Offset <= LastAddress
  BY AddressFits, SettingsOfPanels
<1>2. t = Written(d, m, bytes)
  <2>1. Leads(State(c, m), <<Window(Offset, Offset + Height - 1, Offset, Offset + Width - 1), At(Offset, Offset), Data(bytes)>>, t)
    BY DEF LcdOps
  <2> HIDE DEF bytes
  <2>2. t = Effect(Effect(Effect(State(c, m), Window(Offset, Offset + Height - 1, Offset, Offset + Width - 1)), At(Offset, Offset)), Data(bytes))
    BY <2>1, ThreeLead
  <2>3. Effect(State(c, m), Window(Offset, Offset + Height - 1, Offset, Offset + Width - 1)) = State(w, m)
    BY EffectOfWindow
  <2>4. Effect(State(w, m), At(Offset, Offset)) = State(d, m)
    BY EffectOfAt
  <2> QED
    BY <2>2, <2>3, <2>4, EffectOfData
<1>3. /\ d \in Controllers /\ d.first = "b" /\ d.plane = "black" /\ d.a = Offset /\ d.b = Offset
      /\ d.a0 = Offset /\ d.a1 = Offset + Height - 1 /\ d.b0 = Offset /\ d.b1 = Offset + Width - 1
  BY LcdSetUp
<1> HIDE DEF d, w
<1> DEFINE H == Height
<1>4. Rows(d) = H /\ RowSize(d) = Width
  <2> HIDE DEF Height
  <2> QED
    BY <1>1, <1>3 DEF Rows, RowSize
<1>5. InWindow(d, Pointer(d)) /\ PlaceIn(d, Pointer(d)) = 0
  <2>1. InWindow(d, Pointer(d))
    <3> HIDE DEF Height
    <3> QED
      BY <1>1, <1>3 DEF InWindow, Pointer
  <2>2. (Offset - Offset) * Width + (Offset - Offset) = 0
    BY <1>1
  <2>3. PlaceIn(d, Pointer(d)) = 0
    BY <1>3, <1>4, <2>2 DEF PlaceIn, Pointer
  <2> QED
    BY <2>1, <2>3
<1>6. DOMAIN bytes = 1 .. Rows(d) * RowSize(d)
  <2>1. Width * H = H * Width
    <3> HIDE DEF H
    <3>1. H \in Nat
      BY <1>1 DEF H
    <3> QED
      BY <1>1, <3>1
  <2> QED
    BY <1>4, <2>1
<1>7. WindowIsSent(d, m, Written(d, m, bytes), bytes)
  <2> HIDE DEF bytes
  <2> QED
    BY <1>3, <1>5, <1>6, WindowSent
<1> SUFFICES ASSUME NEW p \in Pixels PROVE SeenAt(t.ram, p) = canvas[p]
  BY DEF IsPicture
<1> DEFINE x == p[1]   y == p[2]   n == y * Width + x
<1>8. x \in 0 .. Width - 1 /\ y \in 0 .. H - 1 /\ p = <<x, y>>
  BY DEF Pixels
<1> HIDE DEF x, y
<1>9. n \in 0 .. Width * H - 1 /\ n % Width = x /\ n \div Width = y
  <2> HIDE DEF H, n
  <2>1. H \in Nat
    BY <1>1 DEF H
  <2> QED
    BY <1>1, <1>8, <2>1, Placed DEF n
<1>10. bytes[n + 1] = canvas[p]
  <2>1. n + 1 \in 1 .. Width * Height /\ (n + 1) - 1 = n
    <3>1. Width * H \in Nat
      <4> HIDE DEF H
      <4>1. H \in Nat
        BY <1>1 DEF H
      <4> QED
        BY <1>1, <4>1
    <3> DEFINE area == Width * H
    <3>2. area \in Nat /\ n \in 0 .. area - 1
      BY <1>9, <3>1
    <3> HIDE DEF area, n
    <3>3. n + 1 \in 1 .. area /\ (n + 1) - 1 = n
      BY <3>2
    <3> QED
      BY <3>3 DEF area
  <2> HIDE DEF n, Height
  <2>2. bytes[n + 1] = canvas[<<((n + 1) - 1) % Width, ((n + 1) - 1) \div Width>>]
    BY <2>1
  <2> QED
    BY <1>8, <1>9, <2>1, <2>2
<1> DEFINE z == <<Offset + y, Offset + x>>
<1>11. z \in Addresses /\ z[1] = Offset + y /\ z[2] = Offset + x
  <2>1. Offset + y \in 0 .. LastAddress /\ Offset + x \in 0 .. LastAddress
    <3> HIDE DEF LastAddress, Height
    <3> QED
      BY <1>1, <1>8
  <2> QED
    BY <2>1 DEF Addresses
<1>12. InWindow(d, z) /\ PlaceIn(d, z) = n
  <2>1. InWindow(d, z)
    <3> HIDE DEF Height, z
    <3> QED
      BY <1>1, <1>3, <1>8, <1>11 DEF InWindow
  <2>2. PlaceIn(d, z) = (z[1] - Offset) * Width + (z[2] - Offset)
    BY <1>3, <1>4 DEF PlaceIn
  <2>3. z[1] - Offset = y /\ z[2] - Offset = x
    <3> HIDE DEF z, Height
    <3> QED
      BY <1>1, <1>8, <1>11
  <2> QED
    BY <2>1, <2>2, <2>3
<1>13. t.ram["black"][z] = bytes[n + 1]
  <2>1. "black" \in Planes
    BY DEF Planes
  <2> HIDE DEF z, bytes, n
  <2> QED
    BY <1>2, <1>3, <1>7, <1>11, <1>12, <2>1 DEF WindowIsSent
<1>14. SeenAt(t.ram, p) = t.ram["black"][<<Offset + p[2], Offset + p[1]>>]
  <2> HIDE DEF z
  <2> QED
    BY DEF SeenAt, Vertical, Horizontal
<1> QED
  BY <1>10, <1>13, <1>14 DEF x, y

-----------------------------------------------------------------------------
(* Of every kind: the whole of a draw leaves the picture in the memory.    *)
LEMMA EveryDrawLeads ==
  ASSUME kind \in Kinds, Suits, NEW a, Colors(Canvas(a)), NEW c, kind \in SelfLit => Steady(c), NEW m, IsMemory(m), NEW t,
         Leads(State(c, m), OpsOf(a), t)
  PROVE  IsPicture(t.ram, Canvas(a))
<1> DEFINE canvas == Canvas(a)
<1>1. /\ kind \in {"sh1107", "ssd1305", "st77xx", "213b", "tricolor", "4in2"} \cup Vertical
      /\ HeightFits /\ kind \notin Misread
  BY PanelsAssumption DEF Suits, SelfLit, Oled, EPaper, Horizontal, Misread
<1> HIDE DEF canvas
<1>2. Colors(canvas)
  BY DEF canvas
<1>3. CASE kind = "sh1107"
  <2>1. OpsOf(a) = Sh1107Ops(canvas) /\ Steady(c)
    BY <1>3 DEF OpsOf, OpsFor, canvas, SelfLit, Oled, Vertical, Horizontal
  <2> QED
    BY <1>1, <1>2, <1>3, <2>1, Sh1107Shown DEF canvas
<1>4. CASE kind = "ssd1305"
  <2>1. OpsOf(a) = Ssd1305Ops(canvas) /\ Steady(c)
    BY <1>4 DEF OpsOf, OpsFor, canvas, SelfLit, Oled, Vertical, Horizontal
  <2> QED
    BY <1>1, <1>2, <1>4, <2>1, Ssd1305Shown DEF canvas
<1>5. CASE kind = "st77xx"
  <2>1. OpsOf(a) = LcdOps(canvas) /\ Steady(c)
    BY <1>5 DEF OpsOf, OpsFor, canvas, SelfLit, Oled, Vertical, Horizontal
  <2> QED
    BY <1>2, <1>5, <2>1, LcdShown DEF canvas
<1>6. CASE kind = "213b"
  <2>1. OpsOf(a) = LandscapeOps(canvas)
    BY <1>6 DEF OpsOf, OpsFor, canvas, Vertical, Horizontal
  <2> QED
    BY <1>2, <1>6, <2>1, LandscapeShown DEF canvas
<1>7. CASE kind \in Vertical
  <2>1. OpsOf(a) = VerticalOps(canvas)
    BY <1>7 DEF OpsOf, OpsFor, canvas, Vertical, Horizontal
  <2> QED
    BY <1>1, <1>2, <1>7, <2>1, VerticalShown DEF canvas
<1>8. CASE kind = "4in2"
  <2>1. OpsOf(a) = HorizontalOps(canvas)
    BY <1>8 DEF OpsOf, OpsFor, canvas, Vertical, Horizontal
  <2> QED
    BY <1>2, <1>8, <2>1, HorizontalShown DEF canvas
<1>9. CASE kind = "tricolor"
  <2>1. OpsOf(a) = TriColorOps(canvas)
    BY <1>9 DEF OpsOf, OpsFor, canvas, Vertical, Horizontal
  <2> QED
    BY <1>2, <1>9, <2>1, TriColorShown DEF canvas
<1> QED
  BY <1>1, <1>3, <1>4, <1>5, <1>6, <1>7, <1>8, <1>9

-----------------------------------------------------------------------------
(* Operations that a controller can take.                                  *)

TypedOp(o) ==
  /\ o.op = "at" => o.a \in Int /\ o.b \in Int
  /\ o.op = "window" => /\ o.a0 \in 0 .. LastAddress /\ o.a1 \in 0 .. LastAddress
                        /\ o.b0 \in 0 .. LastAddress /\ o.b1 \in 0 .. LastAddress
  /\ o.op = "rows" => o.b0 \in 0 .. LastAddress /\ o.b1 \in 0 .. LastAddress
  /\ o.op = "order" => o.first \in {"a", "b"}
  /\ o.op = "plane" => o.plane \in Planes
  /\ o.op = "data" => \E n \in Nat : DOMAIN o.bytes = 1 .. n

(* What an e-paper is told before its refresh, and a panel that shows its  *)
(* memory at any time.                                                     *)
Prepares(o) == o.op \in {"reset", "wait", "feed", "at", "window", "rows", "order", "plane", "data"} /\ TypedOp(o)
Streams(o) == (o.op \in {"at", "data"} \/ (kind = "st77xx" /\ o.op = "window")) /\ TypedOp(o)

Prepared(p) == \E S : p \in Seq(S) /\ \A o \in S : Prepares(o)
Streaming(p) == \E S : p \in Seq(S) /\ \A o \in S : Streams(o)

LEMMA PreparedJoins == ASSUME NEW p, NEW q, Prepared(p), Prepared(q) PROVE Prepared(p \o q)
<1>1. PICK S : p \in Seq(S) /\ \A o \in S : Prepares(o)
  BY DEF Prepared
<1>2. PICK T : q \in Seq(T) /\ \A o \in T : Prepares(o)
  BY DEF Prepared
<1> DEFINE U == S \cup T
<1>3. p \in Seq(U) /\ q \in Seq(U)
  <2>1. \A i \in 1 .. Len(p) : p[i] \in U
    BY <1>1
  <2>2. \A i \in 1 .. Len(q) : q[i] \in U
    BY <1>2
  <2>3. p = [i \in 1 .. Len(p) |-> p[i]] /\ Len(p) \in Nat /\ q = [i \in 1 .. Len(q) |-> q[i]] /\ Len(q) \in Nat
    BY <1>1, <1>2
  <2> HIDE DEF U
  <2> QED
    BY <2>1, <2>2, <2>3
<1>4. \A o \in U : Prepares(o)
  BY <1>1, <1>2
<1> HIDE DEF U
<1>5. p \o q \in Seq(U)
  BY <1>3
<1> QED
  BY <1>4, <1>5 DEF Prepared

LEMMA OpsPrepare ==
  /\ \A name \in {"reset", "wait", "feed"} : Prepares(Op(name))
  /\ \A x, y \in Int : Prepares(At(x, y)) /\ Streams(At(x, y))
  /\ \A a0, a1, b0, b1 \in 0 .. LastAddress : /\ Prepares(Window(a0, a1, b0, b1))
                                              /\ kind = "st77xx" => Streams(Window(a0, a1, b0, b1))
  /\ \A b0, b1 \in 0 .. LastAddress : Prepares(RowWindow(b0, b1))
  /\ \A f \in {"a", "b"} : Prepares(Order(f))
  /\ \A p \in Planes : Prepares(Plane(p))
  /\ \A bytes : (\E n \in Nat : DOMAIN bytes = 1 .. n) => Prepares(Data(bytes)) /\ Streams(Data(bytes))
<1>1. \A name \in {"reset", "wait", "feed"} : Prepares(Op(name))
  BY DEF Prepares, TypedOp, Op
<1>2. \A x, y \in Int : Prepares(At(x, y)) /\ Streams(At(x, y))
  BY DEF Prepares, Streams, TypedOp, At
<1>3. \A a0, a1, b0, b1 \in 0 .. LastAddress : /\ Prepares(Window(a0, a1, b0, b1))
                                               /\ kind = "st77xx" => Streams(Window(a0, a1, b0, b1))
  <2> HIDE DEF LastAddress
  <2> QED
    BY DEF Prepares, Streams, TypedOp, Window
<1>4. \A f \in {"a", "b"} : Prepares(Order(f))
  BY DEF Prepares, TypedOp, Order
<1>5. \A p \in Planes : Prepares(Plane(p))
  BY DEF Prepares, TypedOp, Plane
<1>6. \A bytes : (\E n \in Nat : DOMAIN bytes = 1 .. n) => Prepares(Data(bytes)) /\ Streams(Data(bytes))
  BY DEF Prepares, Streams, TypedOp, Data
<1>7. \A b0, b1 \in 0 .. LastAddress : Prepares(RowWindow(b0, b1))
  <2> HIDE DEF LastAddress
  <2> QED
    BY DEF Prepares, TypedOp, RowWindow
<1> QED
  BY <1>1, <1>2, <1>3, <1>4, <1>5, <1>6, <1>7

(* What an operation leaves: a controller and a memory.                    *)
LEMMA TypedKeeps ==
  ASSUME kind \in Kinds, NEW c \in Controllers, NEW m, IsMemory(m), NEW o, TypedOp(o)
  PROVE  LET s == Effect(State(c, m), o)
         IN  s = State(s.c, s.ram) /\ s.c \in Controllers /\ IsMemory(s.ram)
<1> DEFINE s == Effect(State(c, m), o)
<1>1. State(c, m).c = c /\ State(c, m).ram = m /\ \A d : [State(c, m) EXCEPT !.c = d] = State(d, m)
  BY DEF State
<1>2. \A d, n : State(d, n).c = d /\ State(d, n).ram = n
  BY DEF State
<1> DEFINE Fine(t) == t = State(t.c, t.ram) /\ t.c \in Controllers /\ IsMemory(t.ram)
<1> SUFFICES Fine(s)
  OBVIOUS
<1>3. \A d \in Controllers : Fine(State(d, m))
  BY <1>2
<1>4. CASE o.op = "reset"
  <2>1. s = State(WideOpen, m)
    <3> HIDE DEF WideOpen
    <3> QED
      BY <1>1, <1>4, EffectIs
  <2>2. WideOpen \in Controllers
    BY WideIsFresh DEF Fresh
  <2> HIDE DEF WideOpen
  <2> QED
    BY <1>3, <2>1, <2>2
<1>5. CASE o.op = "at"
  <2>1. s = State(AtPlace(c, o.a, o.b), m)
    BY <1>1, <1>5, EffectIs
  <2>2. AtPlace(c, o.a, o.b) \in Controllers
    BY <1>5 DEF TypedOp, AtPlace, Controllers
  <2> QED
    BY <1>3, <2>1, <2>2
<1>6. CASE o.op = "window"
  <2>1. s = State(WithWindow(c, o.a0, o.a1, o.b0, o.b1), m)
    BY <1>1, <1>6, EffectIs
  <2>2. WithWindow(c, o.a0, o.a1, o.b0, o.b1) \in Controllers
    <3> HIDE DEF LastAddress
    <3> QED
      BY <1>6 DEF TypedOp, WithWindow, Controllers
  <2> QED
    BY <1>3, <2>1, <2>2
<1>7. CASE o.op = "order"
  <2>1. s = State(InOrder(c, o.first), m)
    BY <1>1, <1>7, EffectIs
  <2>2. InOrder(c, o.first) \in Controllers
    BY <1>7 DEF TypedOp, InOrder, Controllers
  <2> QED
    BY <1>3, <2>1, <2>2
<1>8. CASE o.op = "plane"
  <2>1. s = State(OnPlane(c, o.plane), m)
    BY <1>1, <1>8, EffectIs
  <2>2. OnPlane(c, o.plane) \in Controllers
    BY <1>8 DEF TypedOp, OnPlane, Controllers
  <2> QED
    BY <1>3, <2>1, <2>2
<1>9. CASE o.op = "data"
  <2>1. PICK n \in Nat : DOMAIN o.bytes = 1 .. n
    BY <1>9 DEF TypedOp
  <2>2. s = Written(c, m, o.bytes)
    BY <1>1, <1>9, EffectIs
  <2>3. Written(c, m, o.bytes) = State(Written(c, m, o.bytes).c, Written(c, m, o.bytes).ram)
    BY <2>1, WrittenIsState
  <2>4. Written(c, m, o.bytes).c \in Controllers /\ IsMemory(Written(c, m, o.bytes).ram)
    BY <2>1, TransferMoves
  <2> HIDE DEF s
  <2> QED
    BY <2>2, <2>3, <2>4
<1>10. CASE o.op \notin {"reset", "at", "window", "rows", "order", "plane", "data"}
  <2>1. s = State(c, m)
    BY <1>10, EffectIs
  <2> QED
    BY <1>3, <2>1
<1>11. CASE o.op = "rows"
  <2>1. s = State(WithRows(c, o.b0, o.b1), m)
    BY <1>1, <1>11, EffectIs
  <2>2. WithRows(c, o.b0, o.b1) \in Controllers
    <3>1. o.b0 \in 0 .. LastAddress /\ o.b1 \in 0 .. LastAddress /\ o.b0 \in Int
      BY <1>11, Sizes DEF TypedOp, LastAddress
    <3> HIDE DEF LastAddress
    <3> QED
      BY <3>1 DEF WithRows, Controllers
  <2> QED
    BY <1>3, <2>1, <2>2
<1> HIDE DEF s, Fine
<1> QED
  BY <1>4, <1>5, <1>6, <1>7, <1>8, <1>9, <1>10, <1>11

(* A panel that shows its memory stays ready for its next draw.            *)
LEMMA StreamsKeepSteady ==
  ASSUME kind \in Kinds, NEW c, Steady(c), NEW m, IsMemory(m), NEW o, Streams(o)
  PROVE  LET s == Effect(State(c, m), o) IN Steady(s.c) /\ s.c.awake = c.awake
<1> DEFINE s == Effect(State(c, m), o)
<1> SUFFICES Steady(s.c) /\ s.c.awake = c.awake
  OBVIOUS
<1>1. State(c, m).c = c /\ State(c, m).ram = m /\ \A d : [State(c, m) EXCEPT !.c = d] = State(d, m)
  BY DEF State
<1>2. \A d, n : State(d, n).c = d
  BY DEF State
<1>3. c \in Controllers
  BY DEF Steady
<1>4. s.c \in Controllers
  BY <1>3, TypedKeeps DEF Streams
<1>5. CASE o.op = "at"
  <2>1. s = State(AtPlace(c, o.a, o.b), m)
    BY <1>1, <1>5, EffectIs
  <2> DEFINE d == AtPlace(c, o.a, o.b)
  <2>2. d.first = c.first /\ d.plane = c.plane /\ d.awake = c.awake /\ d.a0 = c.a0 /\ d.a1 = c.a1 /\ d.b0 = c.b0 /\ d.b1 = c.b1
    BY <1>3 DEF AtPlace, Controllers
  <2>3. s.c = d
    BY <1>2, <2>1
  <2> HIDE DEF d, s
  <2> QED
    BY <1>4, <2>2, <2>3 DEF Steady, IsWide
<1>6. CASE o.op = "window"
  <2>1. s = State(WithWindow(c, o.a0, o.a1, o.b0, o.b1), m)
    BY <1>1, <1>6, EffectIs
  <2> DEFINE d == WithWindow(c, o.a0, o.a1, o.b0, o.b1)
  <2>2. d.first = c.first /\ d.plane = c.plane /\ d.awake = c.awake
    BY <1>3 DEF WithWindow, Controllers
  <2>3. s.c = d
    BY <1>2, <2>1
  <2>4. kind \notin Oled
    BY <1>6 DEF Streams, Oled, Vertical
  <2> HIDE DEF d, s
  <2> QED
    BY <1>4, <2>2, <2>3, <2>4 DEF Steady
<1>7. CASE o.op = "data"
  <2>1. PICK n \in Nat : DOMAIN o.bytes = 1 .. n
    BY <1>7 DEF Streams, TypedOp
  <2>2. s = Written(c, m, o.bytes)
    BY <1>1, <1>7, EffectIs
  <2>3. MovedTo(c, s.c)
    BY <1>3, <2>1, <2>2, TransferMoves
  <2> DEFINE d == s.c
  <2>4. d.first = c.first /\ d.plane = c.plane /\ d.awake = c.awake /\ d.a0 = c.a0 /\ d.a1 = c.a1 /\ d.b0 = c.b0 /\ d.b1 = c.b1
    <3> HIDE DEF s
    <3> QED
      BY <1>3, <2>3 DEF MovedTo, Controllers
  <2> HIDE DEF s
  <2> QED
    BY <1>4, <2>4 DEF Steady, IsWide
<1> HIDE DEF s
<1> QED
  BY <1>5, <1>6, <1>7 DEF Streams

-----------------------------------------------------------------------------
(* A step that keeps the kind and the rotation keeps all that is made of   *)
(* them.                                                                   *)

LEMMA SameShape ==
  ASSUME kind' = kind, rotation' = rotation
  PROVE /\ Height' = Height /\ Pixels' = Pixels /\ Reserved' = Reserved /\ PageSize' = PageSize
        /\ Pages' = Pages /\ RowBytes' = RowBytes /\ LastAddress' = LastAddress /\ Addresses' = Addresses
<1>1. Height' = Height
  BY DEF Height
<1> QED
  BY <1>1 DEF Pixels, Reserved, PageSize, Pages, RowBytes, LastAddress, Addresses

LEMMA SameLeads ==
  ASSUME kind' = kind, NEW s, NEW p, NEW t
  PROVE  Leads(s, p, t)' <=> Leads(s, p, t)
  BY SameEffect DEF Leads, Between

LEMMA SameFrame ==
  ASSUME kind' = kind, rotation' = rotation, NEW a
  PROVE FrameOf(a)' = FrameOf(a)
BY SameShape DEF FrameOf

LEMMA SameRows ==
  ASSUME kind' = kind, rotation' = rotation, NEW frame, NEW r, NEW shift
  PROVE RowStrokes(frame, r, shift)' = RowStrokes(frame, r, shift)
BY SameShape DEF RowStrokes, Rect, Turned, Emphasised, TextColor, RowPlace, Glyph, Height

LEMMA SameCanvas ==
  ASSUME kind' = kind, rotation' = rotation, NEW a
  PROVE  Canvas(a)' = Canvas(a)
<1>1. Height' = Height
  BY DEF Height
<1>2. Strokes(a)' = Strokes(a)
 <2>1. LogoStrokes' = LogoStrokes
   BY <1>1 DEF LogoStrokes, LogoLetters, LogoFont, Turned, InkOf
 <2>2. MarkStrokes(a)' = MarkStrokes(a)
   BY <1>1 DEF MarkStrokes, Rect, MarkY, Marks
 <2>3. FrameStrokes(a)' = FrameStrokes(a)
   <3>1. PICK f : f = FrameOf(a)
     OBVIOUS
   <3>2. FrameOf(a)' = f
     BY <3>1, SameFrame
   <3> DEFINE rows == [r \in 1 .. Cardinality(DOMAIN f.rows) |-> RowStrokes(f, r - 1, ShiftOffset(a.tick))]
   <3>3. rows' = rows
     BY SameRows
   <3>4. FrameStrokes(a) = FlattenSeq(rows) \o MarkStrokes(a)
     BY <3>1 DEF FrameStrokes
   <3>5. FrameStrokes(a)' = FlattenSeq(rows') \o MarkStrokes(a)'
     BY <3>2 DEF FrameStrokes
   <3> HIDE DEF rows
   <3> QED
     BY <2>2, <3>3, <3>4, <3>5
 <2> QED
   BY <1>1, <2>1, <2>2, <2>3 DEF Strokes
<1> QED
  BY <1>1, <1>2 DEF Canvas, Apply, Pixels, FoldLeft, MapThenFoldSet

-----------------------------------------------------------------------------
(* What a driver has still to do: an e-paper first prepares its controller *)
(* and sends, then refreshes, waits and sleeps; a panel that lights itself *)
(* only sends.                                                             *)

EndOf == IF kind = "213b" THEN End \o <<Pause(SleepT)>> ELSE End

LEMMA PreparedBy == ASSUME NEW S, NEW p \in Seq(S), \A o \in S : Prepares(o) PROVE Prepared(p)
BY DEF Prepared

LEMMA PreparedPart ==
  ASSUME NEW n \in Nat, NEW line, \A k \in 1 .. n : Prepares(line[k])
  PROVE  Prepared([k \in 1 .. n |-> line[k]])
<1> DEFINE S == {line[k] : k \in 1 .. n}
<1>1. [k \in 1 .. n |-> line[k]] \in Seq(S)
  <2>1. \A k \in 1 .. n : line[k] \in S
    OBVIOUS
  <2> HIDE DEF S
  <2> QED
    BY <2>1
<1>2. \A o \in S : Prepares(o)
  OBVIOUS
<1> HIDE DEF S
<1> QED
  BY <1>1, <1>2 DEF Prepared

LEMMA PreparedFew ==
  /\ \A o : Prepares(o) => Prepared(<<o>>)
  /\ \A o, p : Prepares(o) /\ Prepares(p) => Prepared(<<o, p>>)
  /\ \A o, p, q : Prepares(o) /\ Prepares(p) /\ Prepares(q) => Prepared(<<o, p, q>>)
  /\ \A o, p, q, r : Prepares(o) /\ Prepares(p) /\ Prepares(q) /\ Prepares(r) => Prepared(<<o, p, q, r>>)
<1>1. \A o : <<o>> \in Seq({o})
  OBVIOUS
<1>2. \A o, p : <<o, p>> \in Seq({o, p})
  OBVIOUS
<1>3. \A o, p, q : <<o, p, q>> \in Seq({o, p, q})
  OBVIOUS
<1>4. \A o, p, q, r : <<o, p, q, r>> \in Seq({o, p, q, r})
  OBVIOUS
<1>5. ASSUME NEW o, Prepares(o) PROVE Prepared(<<o>>)
  <2> DEFINE S == {o}   l == <<o>>
  <2>1. \A x \in S : Prepares(x)
    BY <1>5
  <2>2. l \in Seq(S)
    BY <1>1
  <2>3. Prepared(l)
    <3> HIDE DEF S, l
    <3> QED
      BY <2>1, <2>2, PreparedBy
  <2> QED
    BY <2>3
<1>6. ASSUME NEW o, NEW p, Prepares(o), Prepares(p) PROVE Prepared(<<o, p>>)
  <2> DEFINE S == {o, p}   l == <<o, p>>
  <2>1. \A x \in S : Prepares(x)
    BY <1>6
  <2>2. l \in Seq(S)
    BY <1>2
  <2>3. Prepared(l)
    <3> HIDE DEF S, l
    <3> QED
      BY <2>1, <2>2, PreparedBy
  <2> QED
    BY <2>3
<1>7. ASSUME NEW o, NEW p, NEW q, Prepares(o), Prepares(p), Prepares(q) PROVE Prepared(<<o, p, q>>)
  <2> DEFINE S == {o, p, q}   l == <<o, p, q>>
  <2>1. \A x \in S : Prepares(x)
    BY <1>7
  <2>2. l \in Seq(S)
    BY <1>3
  <2>3. Prepared(l)
    <3> HIDE DEF S, l
    <3> QED
      BY <2>1, <2>2, PreparedBy
  <2> QED
    BY <2>3
<1>8. ASSUME NEW o, NEW p, NEW q, NEW r, Prepares(o), Prepares(p), Prepares(q), Prepares(r) PROVE Prepared(<<o, p, q, r>>)
  <2> DEFINE S == {o, p, q, r}   l == <<o, p, q, r>>
  <2>1. \A x \in S : Prepares(x)
    BY <1>8
  <2>2. l \in Seq(S)
    BY <1>4
  <2>3. Prepared(l)
    <3> HIDE DEF S, l
    <3> QED
      BY <2>1, <2>2, PreparedBy
  <2> QED
    BY <2>3
<1> QED
  BY <1>5, <1>6, <1>7, <1>8

LEMMA PreparedFlat ==
  ASSUME NEW n \in Nat, NEW part,
         \A k \in 1 .. n : \E o, p : part[k] = <<o, p>> /\ Prepares(o) /\ Prepares(p)
  PROVE  Prepared(FlattenSeq([k \in 1 .. n |-> part[k]]))
<1> DEFINE S == {part[k][1] : k \in 1 .. n} \cup {part[k][2] : k \in 1 .. n}
           seqs == [k \in 1 .. n |-> part[k]]
<1>1. ASSUME NEW k \in 1 .. n PROVE part[k] \in Seq(S) /\ Prepares(part[k][1]) /\ Prepares(part[k][2])
  <2>1. PICK o, p : part[k] = <<o, p>> /\ Prepares(o) /\ Prepares(p)
    OBVIOUS
  <2>2. part[k][1] = o /\ part[k][2] = p
    BY <2>1
  <2>3. o \in S /\ p \in S
    BY <2>2
  <2> HIDE DEF S
  <2>4. <<o, p>> \in Seq(S)
    BY <2>3
  <2> QED
    BY <2>1, <2>2, <2>4
<1>2. \A o \in S : Prepares(o)
  BY <1>1
<1> HIDE DEF S
<1>3. seqs \in Seq(Seq(S))
  BY <1>1
<1>4. FlattenSeq(seqs) \in Seq(S)
  BY <1>3, Flat
<1> QED
  BY <1>2, <1>4 DEF Prepared

(* A draw of an e-paper begins with a reset.                               *)
Afresh(p) == Prepared(p) /\ p # <<>> /\ Head(p).op = "reset"

LEMMA AfreshJoins == ASSUME NEW p, NEW q, Afresh(p), Prepared(q) PROVE Afresh(p \o q)
<1>1. PICK S : p \in Seq(S) /\ \A o \in S : Prepares(o)
  BY DEF Afresh, Prepared
<1>2. PICK T : q \in Seq(T) /\ \A o \in T : Prepares(o)
  BY DEF Prepared
<1>3. Prepared(p \o q)
  BY PreparedJoins DEF Afresh
<1>4. p \o q # <<>> /\ Head(p \o q) = Head(p)
  BY <1>1, <1>2 DEF Afresh
<1> QED
  BY <1>3, <1>4 DEF Afresh

LEMMA AfreshReset == Afresh(<<Op("reset"), Op("wait")>>) /\ Afresh(Reset)
<1>1. Prepares(Op("reset")) /\ Prepares(Op("wait"))
  BY OpsPrepare
<1>2. Prepared(<<Op("reset"), Op("wait")>>) /\ Prepared(Reset)
  BY <1>1, PreparedFew DEF Reset
<1>3. /\ <<Op("reset"), Op("wait")>> # <<>> /\ Head(<<Op("reset"), Op("wait")>>) = Op("reset")
      /\ Reset # <<>> /\ Head(Reset) = Op("reset")
  BY DEF Reset
<1> QED
  BY <1>2, <1>3 DEF Afresh, Op

LEMMA WindowsPrepare ==
  ASSUME kind \in Kinds
  PROVE  Prepares(Window(0, Pages - 1, 0, Width - 1)) /\ Prepares(Window(0, RowBytes - 1, 0, Height - 1)) /\ Prepares(At(0, 0))
<1>1. /\ 0 \in 0 .. LastAddress /\ Pages - 1 \in 0 .. LastAddress /\ Width - 1 \in 0 .. LastAddress
      /\ RowBytes - 1 \in 0 .. LastAddress /\ Height - 1 \in 0 .. LastAddress /\ 0 \in Int
  <2>1. LastAddress \in Nat
    BY Sizes
  <2> HIDE DEF LastAddress, Pages, RowBytes, Height
  <2> QED
    BY <2>1, Sizes
<1> HIDE DEF LastAddress, Pages, RowBytes, Height
<1> QED
  BY <1>1, OpsPrepare

LEMMA DataPrepares == ASSUME NEW n \in Nat, NEW bytes, DOMAIN bytes = 1 .. n PROVE Prepares(Data(bytes)) /\ Streams(Data(bytes))
BY OpsPrepare

LEMMA SlicePrepares == ASSUME NEW n \in Nat, NEW buffer, NEW from PROVE Prepares(Data(Slice(buffer, from, n))) /\ Streams(Data(Slice(buffer, from, n)))
<1>1. DOMAIN Slice(buffer, from, n) = 1 .. n
  BY DEF Slice
<1> QED
  BY <1>1, DataPrepares

LEMMA LandscapePlanePrepared ==
  ASSUME kind \in Kinds, NEW p \in Planes, NEW buffer
  PROVE  Prepared(LandscapePlane(p, buffer))
<1> DEFINE part == [k \in 1 .. Pages |-> <<Op("feed"), Data(Slice(buffer, (Pages - k) * Width, Width))>>]
<1>1. Pages \in Nat /\ Width \in Nat
  <2> HIDE DEF Pages
  <2> QED
    BY Sizes
<1>2. Prepares(Op("feed")) /\ Prepares(Plane(p))
  BY OpsPrepare
<1>3. \A k \in 1 .. Pages : part[k] = <<Op("feed"), Data(Slice(buffer, (Pages - k) * Width, Width))>>
  OBVIOUS
<1>4. \A k \in 1 .. Pages : \E o, q : part[k] = <<o, q>> /\ Prepares(o) /\ Prepares(q)
  BY <1>1, <1>2, <1>3, SlicePrepares
<1>5. part = [k \in 1 .. Pages |-> part[k]]
  OBVIOUS
<1>6. Prepared(FlattenSeq(part))
  <2> HIDE DEF part, Pages
  <2> QED
    BY <1>1, <1>4, <1>5, PreparedFlat
<1>7. Prepared(<<Plane(p)>>) /\ Prepared(<<Op("feed")>>)
  BY <1>2, PreparedFew
<1>8. LandscapePlane(p, buffer) = <<Plane(p)>> \o FlattenSeq(part) \o <<Op("feed")>>
  BY DEF LandscapePlane
<1> HIDE DEF part
<1>9. Prepared(<<Plane(p)>> \o FlattenSeq(part))
  BY <1>6, <1>7, PreparedJoins
<1> QED
  BY <1>7, <1>8, <1>9, PreparedJoins

LEMMA JoinedEnd ==
  ASSUME NEW f, Prepared(f), NEW q
  PROVE  f \o End \o <<q>> = f \o (End \o <<q>>)
<1>1. PICK S : f \in Seq(S)
  BY DEF Prepared
<1> DEFINE T == S \cup {Op("refresh"), Op("wait"), Op("sleep"), q}
<1>2. f \in Seq(T)
  <2>1. \A i \in 1 .. Len(f) : f[i] \in T
    BY <1>1
  <2>2. f = [i \in 1 .. Len(f) |-> f[i]] /\ Len(f) \in Nat
    BY <1>1
  <2> HIDE DEF T
  <2> QED
    BY <2>1, <2>2
<1>3. End \in Seq(T) /\ <<q>> \in Seq(T)
  <2>1. {Op("refresh"), Op("wait"), Op("sleep"), q} \subseteq T
    OBVIOUS
  <2> HIDE DEF T
  <2> QED
    BY <2>1 DEF End
<1> HIDE DEF T
<1> QED
  BY <1>2, <1>3

LEMMA LandscapeDraw ==
  ASSUME kind \in Kinds, kind = "213b", NEW canvas
  PROVE  \E f : Afresh(f) /\ LandscapeOps(canvas) = f \o EndOf
<1> DEFINE black == LandscapePlane("black", Buffer(canvas, "black"))
           red == LandscapePlane("accent", Buffer(canvas, "accent"))
           rest == <<Order("b"), Window(0, Pages - 1, 0, Width - 1), At(0, 0), Op("wait")>>
           f == Reset \o rest \o black \o red \o <<Op("feed")>>
<1>1. Prepared(black) /\ Prepared(red)
  BY LandscapePlanePrepared DEF Planes
<1>2. Prepares(Order("b")) /\ Prepares(Op("wait")) /\ Prepares(Op("feed"))
  BY OpsPrepare
<1>3. Prepared(<<Op("feed")>>)
  BY <1>2, PreparedFew
<1>4. Prepared(rest)
  BY <1>2, WindowsPrepare, PreparedFew
<1>5. LandscapeOps(canvas) = f \o End \o <<Pause(SleepT)>>
  BY DEF LandscapeOps, LandscapeSetUp
<1> HIDE DEF black, red, rest
<1>6. Afresh(Reset \o rest)
  BY <1>4, AfreshReset, AfreshJoins
<1>7. Afresh(Reset \o rest \o black)
  BY <1>1, <1>6, AfreshJoins
<1>8. Afresh(Reset \o rest \o black \o red)
  BY <1>1, <1>7, AfreshJoins
<1>9. Afresh(f)
  BY <1>3, <1>8, AfreshJoins
<1> HIDE DEF f
<1>10. LandscapeOps(canvas) = f \o (End \o <<Pause(SleepT)>>)
  BY <1>5, <1>9, JoinedEnd DEF Afresh
<1> QED
  BY <1>9, <1>10 DEF EndOf

(* A set-up that begins with a reset, a plane and its parts.               *)
LEMMA AfreshLines ==
  ASSUME NEW setup, Afresh(setup), NEW n \in Nat, NEW size \in Nat, NEW line, \A k \in 1 .. n : DOMAIN line[k] = 1 .. size
  PROVE  Afresh(setup \o <<Plane("black")>> \o [k \in 1 .. n |-> Data(line[k])])
<1> DEFINE data == [k \in 1 .. n |-> Data(line[k])]
<1>1. Prepared(data)
  <2>1. \A k \in 1 .. n : Prepares(data[k])
    BY DataPrepares
  <2>2. data = [k \in 1 .. n |-> data[k]]
    OBVIOUS
  <2> HIDE DEF data
  <2> QED
    BY <2>1, <2>2, PreparedPart
<1>2. Prepared(<<Plane("black")>>)
  BY OpsPrepare, PreparedFew DEF Planes
<1> HIDE DEF data
<1>3. Afresh(setup \o <<Plane("black")>>)
  BY <1>2, AfreshJoins
<1>4. Afresh(setup \o <<Plane("black")>> \o data)
  BY <1>1, <1>3, AfreshJoins
<1> QED
  BY <1>4 DEF data

LEMMA VerticalDraw ==
  ASSUME kind \in Kinds, kind \in Vertical, Suits, NEW canvas
  PROVE  \E f : Afresh(f) /\ VerticalOps(canvas) = f \o EndOf
<1> DEFINE w == Window(0, Pages - 1, 0, Width - 1)   r == RowWindow(0, Width - 1)
           line == ColumnsOf(canvas)
           start == <<Op("reset"), Op("reset"), Op("wait")>>
<1>1. Width \in Nat /\ Pages \in Nat /\ Prepares(w) /\ Prepares(At(0, 0))
  <2> HIDE DEF Pages
  <2> QED
    BY Sizes, WindowsPrepare
<1>2. Prepares(r)
  <2>1. 0 \in 0 .. LastAddress /\ Width - 1 \in 0 .. LastAddress
    <3> HIDE DEF LastAddress
    <3> QED
      BY Sizes
  <2> QED
    BY <2>1, OpsPrepare
<1>3. Prepares(Order("a")) /\ Prepares(Op("wait")) /\ Prepares(Op("reset"))
  BY OpsPrepare
<1>4. Afresh(start)
  <2>1. start # <<>> /\ Head(start) = Op("reset")
    OBVIOUS
  <2> QED
    BY <1>3, <2>1, PreparedFew DEF Afresh, Op
<1>5. \A k \in 1 .. Width : DOMAIN line[k] = 1 .. Pages
  BY DEF ColumnsOf
<1>6. VerticalOps(canvas) = VerticalSetUp \o <<Plane("black")>> \o [i \in 1 .. Width |-> Data(line[i])] \o End
  BY VerticalIs DEF Suits
<1>7. /\ kind = "2in13" => VerticalSetUp = Reset \o <<Order("a"), w, At(0, 0), Op("wait")>>
      /\ kind = "2in7v2" => VerticalSetUp = <<Op("reset"), Op("reset"), Op("wait"), r, Order("a"), Op("wait")>>
      /\ kind = "3in7" => VerticalSetUp = <<Op("reset"), Op("reset"), Op("wait"), Op("wait"), Order("a"), w>>
  BY DEF VerticalSetUp
<1> HIDE DEF w, r, line
<1>8. /\ kind = "2in7v2" => VerticalSetUp = start \o <<r, Order("a"), Op("wait")>>
      /\ kind = "3in7" => VerticalSetUp = start \o <<Op("wait"), Order("a"), w>>
  BY <1>7
<1> HIDE DEF start
<1>9. Afresh(VerticalSetUp)
  <2>1. Afresh(Reset \o <<Order("a"), w, At(0, 0), Op("wait")>>)
    BY <1>1, <1>3, PreparedFew, AfreshReset, AfreshJoins
  <2>2. Afresh(start \o <<r, Order("a"), Op("wait")>>) /\ Afresh(start \o <<Op("wait"), Order("a"), w>>)
    BY <1>1, <1>2, <1>3, <1>4, PreparedFew, AfreshJoins
  <2> QED
    BY <1>7, <1>8, <2>1, <2>2 DEF Suits, Vertical, Misread
<1>10. Afresh(VerticalSetUp \o <<Plane("black")>> \o [i \in 1 .. Width |-> Data(line[i])])
  BY <1>1, <1>5, <1>9, AfreshLines
<1> QED
  BY <1>6, <1>10 DEF EndOf, Vertical

LEMMA HorizontalDraw ==
  ASSUME kind \in Kinds, kind = "4in2", NEW canvas
  PROVE  \E f : Afresh(f) /\ HorizontalOps(canvas) = f \o EndOf
<1> DEFINE start == <<Op("reset"), Op("wait")>>
           rest == <<Order("a"), Window(0, RowBytes - 1, 0, Height - 1), At(0, 0)>>
           line == LinesOf(canvas)
<1>1. RowBytes \in Nat /\ Height \in Nat
  BY Sizes
<1>2. \A k \in 1 .. Height : DOMAIN line[k] = 1 .. RowBytes
  BY DEF LinesOf
<1>3. HorizontalOps(canvas) = HorizontalSetUp \o <<Plane("black")>> \o [y \in 1 .. Height |-> Data(line[y])] \o End
  BY HorizontalIs
<1>4. Prepared(rest)
  BY OpsPrepare, WindowsPrepare, PreparedFew
<1>5. HorizontalSetUp = start \o rest
  BY DEF HorizontalSetUp
<1>6. Afresh(start)
  BY AfreshReset
<1> HIDE DEF rest, start, line
<1>7. Afresh(HorizontalSetUp)
  BY <1>4, <1>5, <1>6, AfreshJoins
<1>8. Afresh(HorizontalSetUp \o <<Plane("black")>> \o [y \in 1 .. Height |-> Data(line[y])])
  BY <1>1, <1>2, <1>7, AfreshLines
<1> QED
  BY <1>3, <1>8 DEF EndOf

LEMMA TriColorDraw ==
  ASSUME kind \in Kinds, kind = "tricolor", NEW canvas
  PROVE  \E f : Afresh(f) /\ TriColorOps(canvas) = f \o EndOf
<1> DEFINE black == Buffer(canvas, "black")
           one == TriColorPlane("black", [i \in DOMAIN black |-> Inverted(black[i])])
           two == TriColorPlane("accent", Buffer(canvas, "accent"))
           start == <<Op("reset"), Op("wait")>>
           rest == <<Order("a"), Window(0, RowBytes - 1, 0, Height - 1)>>
           f == start \o rest \o one \o two
<1>1. BufferLength \in Nat
  <2>1. BufferLength = RowBytes * Height
    BY DEF BufferLength, Oled, Vertical
  <2>2. RowBytes \in Nat /\ Height \in Nat
    <3> HIDE DEF RowBytes, Height
    <3> QED
      BY Sizes
  <2> HIDE DEF RowBytes, Height
  <2> QED
    BY <2>1, <2>2
<1>2. Prepares(Order("a")) /\ \A p \in Planes : Prepares(Plane(p))
  BY OpsPrepare
<1>3. ASSUME NEW p \in Planes, NEW buffer PROVE Prepared(TriColorPlane(p, buffer))
  <2>1. Prepares(Data(Slice(buffer, 0, BufferLength)))
    <3> HIDE DEF BufferLength
    <3> QED
      BY <1>1, SlicePrepares
  <2>2. Prepared(<<At(0, 0), Plane(p), Data(Slice(buffer, 0, BufferLength))>>)
    BY <1>2, <2>1, WindowsPrepare, PreparedFew
  <2> QED
    BY <2>2 DEF TriColorPlane
<1>4. Prepared(one) /\ Prepared(two)
  <2> HIDE DEF black
  <2> QED
    BY <1>3 DEF Planes
<1>5. Prepared(rest)
  BY <1>2, WindowsPrepare, PreparedFew
<1>6. TriColorSetUp = start \o rest
  BY DEF TriColorSetUp
<1>7. TriColorOps(canvas) = f \o End
  <2> HIDE DEF start, rest
  <2> QED
    BY <1>6 DEF TriColorOps
<1>8. Afresh(start)
  BY AfreshReset
<1> HIDE DEF one, two, rest, start
<1>9. Afresh(start \o rest)
  BY <1>5, <1>8, AfreshJoins
<1>10. Afresh(start \o rest \o one)
  BY <1>4, <1>9, AfreshJoins
<1>11. Afresh(f)
  BY <1>4, <1>10, AfreshJoins
<1> QED
  BY <1>7, <1>11 DEF EndOf

LEMMA EPaperDraws ==
  ASSUME kind \in Kinds, kind \in EPaper, Suits, NEW a
  PROVE  \E f : Afresh(f) /\ OpsOf(a) = f \o EndOf
<1> DEFINE canvas == Canvas(a)
<1>1. /\ kind = "213b" => OpsOf(a) = LandscapeOps(canvas)
      /\ kind \in Vertical => OpsOf(a) = VerticalOps(canvas)
      /\ kind = "4in2" => OpsOf(a) = HorizontalOps(canvas)
      /\ kind = "tricolor" => OpsOf(a) = TriColorOps(canvas)
  BY DEF OpsOf, OpsFor, Vertical, Horizontal
<1>2. kind \in {"213b", "tricolor", "4in2"} \cup Vertical
  BY DEF EPaper, Suits, Horizontal, Misread
<1> HIDE DEF canvas
<1> QED
  BY <1>1, <1>2, LandscapeDraw, VerticalDraw, HorizontalDraw, TriColorDraw

LEMMA StreamingFlat ==
  ASSUME NEW n \in Nat, NEW part,
         \A k \in 1 .. n : \E o, p : part[k] = <<o, p>> /\ Streams(o) /\ Streams(p)
  PROVE  Streaming(FlattenSeq([k \in 1 .. n |-> part[k]]))
<1> DEFINE S == {part[k][1] : k \in 1 .. n} \cup {part[k][2] : k \in 1 .. n}
           seqs == [k \in 1 .. n |-> part[k]]
<1>1. ASSUME NEW k \in 1 .. n PROVE part[k] \in Seq(S) /\ Streams(part[k][1]) /\ Streams(part[k][2])
  <2>1. PICK o, p : part[k] = <<o, p>> /\ Streams(o) /\ Streams(p)
    OBVIOUS
  <2>2. part[k][1] = o /\ part[k][2] = p
    BY <2>1
  <2>3. o \in S /\ p \in S
    BY <2>2
  <2> HIDE DEF S
  <2>4. <<o, p>> \in Seq(S)
    BY <2>3
  <2> QED
    BY <2>1, <2>2, <2>4
<1>2. \A o \in S : Streams(o)
  BY <1>1
<1> HIDE DEF S
<1>3. seqs \in Seq(Seq(S))
  BY <1>1
<1>4. FlattenSeq(seqs) \in Seq(S)
  BY <1>3, Flat
<1> QED
  BY <1>2, <1>4 DEF Streaming

LEMMA PagesStream ==
  ASSUME kind \in Kinds, NEW buffer, NEW n \in Nat, NEW size \in Nat
  PROVE  Streaming(PageOps(buffer, n, size))
<1> DEFINE part == [k \in 1 .. n |-> <<At(k - 1, Offset), Data(Slice(buffer, (k - 1) * size, size))>>]
<1>1. \A k \in 1 .. n : Streams(At(k - 1, Offset))
  <2>1. Offset \in Int /\ \A k \in 1 .. n : k - 1 \in Int
    BY PanelsAssumption
  <2> QED
    BY <2>1, OpsPrepare
<1>2. \A k \in 1 .. n : part[k] = <<At(k - 1, Offset), Data(Slice(buffer, (k - 1) * size, size))>>
  OBVIOUS
<1>3. \A k \in 1 .. n : \E o, q : part[k] = <<o, q>> /\ Streams(o) /\ Streams(q)
  BY <1>1, <1>2, SlicePrepares
<1>4. part = [k \in 1 .. n |-> part[k]] /\ PageOps(buffer, n, size) = FlattenSeq(part)
  BY DEF PageOps
<1> HIDE DEF part
<1> QED
  BY <1>3, <1>4, StreamingFlat

LEMMA SelfLitStreams ==
  ASSUME kind \in Kinds, kind \in SelfLit, NEW a
  PROVE  Streaming(OpsOf(a))
<1> DEFINE canvas == Canvas(a)
<1>1. /\ kind = "sh1107" => OpsOf(a) = Sh1107Ops(canvas)
      /\ kind = "ssd1305" => OpsOf(a) = Ssd1305Ops(canvas)
      /\ kind = "st77xx" => OpsOf(a) = LcdOps(canvas)
  BY DEF OpsOf, OpsFor, Vertical, Horizontal
<1> HIDE DEF canvas
<1>2. /\ Width \in Nat /\ Height \in Nat /\ Width \div Bits \in Nat /\ Offset \in Nat /\ LastAddress \in Nat
      /\ Width - 1 + Offset <= LastAddress /\ Height - 1 + Offset <= LastAddress /\ Width \in Nat \ {0} /\ Height \in Nat \ {0}
      /\ Bits \in Nat \ {0}
  BY Sizes, AddressFits
<1>3. Height \div Bits \in Nat
  <2> DEFINE h == Height
  <2>1. h \in Nat /\ Bits \in Nat \ {0}
    BY <1>2
  <2> HIDE DEF h
  <2>2. h \div Bits \in Nat
    BY <2>1
  <2> QED
    BY <2>2 DEF h
<1>4. CASE kind = "sh1107"
  BY <1>1, <1>2, <1>4, PagesStream DEF Sh1107Ops
<1>5. CASE kind = "ssd1305"
  BY <1>1, <1>2, <1>3, <1>5, PagesStream DEF Ssd1305Ops
<1>6. CASE kind = "st77xx"
  <2> DEFINE bytes == [i \in 1 .. Width * Height |-> canvas[<<(i - 1) % Width, (i - 1) \div Width>>]]
             w == Window(Offset, Offset + Height - 1, Offset, Offset + Width - 1)
             d == Data(bytes)
             p == At(Offset, Offset)
             S == {w, p, d}
             l == <<w, p, d>>
  <2>1. Width * Height \in Nat
    <3> DEFINE h == Height
    <3>1. h \in Nat /\ Width \in Nat
      BY <1>2
    <3> HIDE DEF h
    <3>2. Width * h \in Nat
      BY <3>1
    <3> QED
      BY <3>2 DEF h
  <2>2. DOMAIN bytes = 1 .. Width * Height
    OBVIOUS
  <2>3. Streams(d)
    <3> HIDE DEF bytes
    <3> DEFINE n == Width * Height
    <3>1. n \in Nat /\ DOMAIN bytes = 1 .. n
      BY <2>1, <2>2
    <3> HIDE DEF n
    <3> QED
      BY <3>1, DataPrepares
  <2>4. Streams(p)
    BY <1>2, OpsPrepare
  <2>5. Streams(w)
    <3>1. /\ Offset \in 0 .. LastAddress /\ Offset + Height - 1 \in 0 .. LastAddress
          /\ Offset + Width - 1 \in 0 .. LastAddress
      <4> HIDE DEF Height, LastAddress
      <4> QED
        BY <1>2
    <3> HIDE DEF LastAddress
    <3> QED
      BY <1>6, <3>1, OpsPrepare
  <2>6. l = LcdOps(canvas)
    BY DEF LcdOps
  <2> HIDE DEF w, d, p
  <2>7. l \in Seq(S)
    OBVIOUS
  <2>8. \A o \in S : Streams(o)
    BY <2>3, <2>4, <2>5
  <2>9. Streaming(l)
    <3> HIDE DEF S, l
    <3> QED
      BY <2>7, <2>8 DEF Streaming
  <2> HIDE DEF l
  <2> QED
    BY <1>1, <1>6, <2>6, <2>9
<1> QED
  BY <1>4, <1>5, <1>6 DEF SelfLit, Oled, Vertical

-----------------------------------------------------------------------------
(* What is left of a list of operations.                                   *)

LEMMA PreparedRest ==
  ASSUME NEW f, Prepared(f), f # <<>>, NEW e, NEW S, e \in Seq(S)
  PROVE  /\ Prepares(Head(f)) /\ Prepared(Tail(f))
         /\ f \o e # <<>> /\ Head(f \o e) = Head(f) /\ Tail(f \o e) = Tail(f) \o e
<1>1. PICK T : f \in Seq(T) /\ \A o \in T : Prepares(o)
  BY DEF Prepared
<1>2. Head(f) \in T /\ Tail(f) \in Seq(T)
  BY <1>1
<1>3. Prepares(Head(f)) /\ Prepared(Tail(f))
  BY <1>1, <1>2 DEF Prepared
<1>4. f \o e # <<>> /\ Head(f \o e) = Head(f)
  BY <1>1
<1>5. Tail(f \o e) = Tail(f) \o e
  <2> DEFINE U == S \cup T
  <2>1. f \in Seq(U) /\ e \in Seq(U)
    <3>1. (\A i \in 1 .. Len(f) : f[i] \in U) /\ \A i \in 1 .. Len(e) : e[i] \in U
      BY <1>1
    <3>2. f = [i \in 1 .. Len(f) |-> f[i]] /\ Len(f) \in Nat /\ e = [i \in 1 .. Len(e) |-> e[i]] /\ Len(e) \in Nat
      BY <1>1
    <3> HIDE DEF U
    <3> QED
      BY <3>1, <3>2
  <2> HIDE DEF U
  <2> QED
    BY <2>1
<1> QED
  BY <1>3, <1>4, <1>5

LEMMA StreamingRest ==
  ASSUME NEW f, Streaming(f), f # <<>>
  PROVE  Streams(Head(f)) /\ Streaming(Tail(f))
<1>1. PICK T : f \in Seq(T) /\ \A o \in T : Streams(o)
  BY DEF Streaming
<1>2. Head(f) \in T /\ Tail(f) \in Seq(T)
  BY <1>1
<1> QED
  BY <1>1, <1>2 DEF Streaming

LEMMA JoinOf ==
  ASSUME NEW S, NEW l \in Seq(S), NEW o \in Seq(S)
  PROVE  /\ l \o o \in Seq(S) /\ Len(l \o o) = Len(l) + Len(o)
         /\ \A i \in 1 .. Len(l) : (l \o o)[i] = l[i]
         /\ \A i \in 1 .. Len(o) : (l \o o)[Len(l) + i] = o[i]
OBVIOUS

End1 == IF kind = "213b" THEN <<Op("wait"), Op("sleep"), Pause(SleepT)>> ELSE <<Op("wait"), Op("sleep")>>
End2 == IF kind = "213b" THEN <<Op("sleep"), Pause(SleepT)>> ELSE <<Op("sleep")>>
End3 == IF kind = "213b" THEN <<Pause(SleepT)>> ELSE <<>>
EndOps == {Op("refresh"), Op("wait"), Op("sleep"), Pause(SleepT)}

LEMMA EndRest ==
  /\ EndOf \in Seq(EndOps) /\ EndOf # <<>> /\ Head(EndOf) = Op("refresh") /\ Tail(EndOf) = End1
  /\ End1 \in Seq(EndOps) /\ End1 # <<>> /\ Head(End1) = Op("wait") /\ Tail(End1) = End2
  /\ End2 \in Seq(EndOps) /\ End2 # <<>> /\ Head(End2) = Op("sleep") /\ Tail(End2) = End3
  /\ End3 \in Seq(EndOps) /\ (End3 # <<>> => Head(End3) = Pause(SleepT) /\ Tail(End3) = <<>>)
<1> DEFINE r == Op("refresh")   w == Op("wait")   s == Op("sleep")   q == Pause(SleepT)
<1>1. EndOps = {r, w, s, q}
  BY DEF EndOps
<1>2. EndOf = IF kind = "213b" THEN <<r, w, s, q>> ELSE <<r, w, s>>
  <2>1. ASSUME NEW x, NEW y, NEW z, NEW u PROVE <<x, y, z>> \o <<u>> = <<x, y, z, u>>
    <3> DEFINE S == {x, y, z, u}   l == <<x, y, z>>   o == <<u>>   v == <<x, y, z, u>>
    <3>1. /\ l \in Seq(S) /\ Len(l) = 3 /\ l[1] = x /\ l[2] = y /\ l[3] = z
          /\ o \in Seq(S) /\ Len(o) = 1 /\ o[1] = u
      OBVIOUS
    <3>2. v \in Seq(S) /\ Len(v) = 4 /\ v[1] = x /\ v[2] = y /\ v[3] = z /\ v[4] = u
      OBVIOUS
    <3> HIDE DEF S, l, o, v
    <3> DEFINE j == l \o o
    <3>3. j \in Seq(S) /\ Len(j) = 4 /\ j[1] = x /\ j[2] = y /\ j[3] = z /\ j[4] = u
      <4>0. l \in Seq(S) /\ o \in Seq(S)
        BY <3>1
      <4>1. /\ j \in Seq(S) /\ Len(j) = Len(l) + Len(o)
            /\ \A i \in 1 .. Len(l) : j[i] = l[i]
            /\ \A i \in 1 .. Len(o) : j[Len(l) + i] = o[i]
        BY <4>0, JoinOf
      <4> HIDE DEF j
      <4>4. 1 \in 1 .. Len(l) /\ 2 \in 1 .. Len(l) /\ 3 \in 1 .. Len(l) /\ 1 \in 1 .. Len(o) /\ Len(l) + 1 = 4
        BY <3>1
      <4> QED
        BY <3>1, <4>1, <4>4
    <3> HIDE DEF j
    <3>4. \A i \in 1 .. 4 : j[i] = v[i]
      BY <3>2, <3>3
    <3>5. j = v
      BY <3>2, <3>3, <3>4
    <3> QED
      BY <3>5 DEF j, l, o, v
  <2>2. End = <<r, w, s>>
    BY DEF End
  <2>3. EndOf = IF kind = "213b" THEN <<r, w, s>> \o <<q>> ELSE <<r, w, s>>
    BY <2>2 DEF EndOf
  <2> HIDE DEF r, w, s, q
  <2> QED
    BY <2>1, <2>3
<1>3. /\ End1 = IF kind = "213b" THEN <<w, s, q>> ELSE <<w, s>>
      /\ End2 = IF kind = "213b" THEN <<s, q>> ELSE <<s>>
      /\ End3 = IF kind = "213b" THEN <<q>> ELSE <<>>
  BY DEF End1, End2, End3
<1> HIDE DEF r, w, s, q
<1>4. CASE kind = "213b"
  <2>1. EndOf = <<r, w, s, q>> /\ End1 = <<w, s, q>> /\ End2 = <<s, q>> /\ End3 = <<q>>
    BY <1>2, <1>3, <1>4
  <2>2. EndOf \in Seq(EndOps) /\ EndOf # <<>> /\ Head(EndOf) = r /\ Tail(EndOf) = End1
    BY <1>1, <2>1
  <2>3. End1 \in Seq(EndOps) /\ End1 # <<>> /\ Head(End1) = w /\ Tail(End1) = End2
    BY <1>1, <2>1
  <2>4. End2 \in Seq(EndOps) /\ End2 # <<>> /\ Head(End2) = s /\ Tail(End2) = End3
    BY <1>1, <2>1
  <2>5. End3 \in Seq(EndOps) /\ Head(End3) = q /\ Tail(End3) = <<>>
    BY <1>1, <2>1
  <2> QED
    BY <2>2, <2>3, <2>4, <2>5 DEF r, w, s, q
<1>5. CASE kind # "213b"
  <2>1. EndOf = <<r, w, s>> /\ End1 = <<w, s>> /\ End2 = <<s>> /\ End3 = <<>>
    BY <1>2, <1>3, <1>5
  <2>2. EndOf \in Seq(EndOps) /\ EndOf # <<>> /\ Head(EndOf) = r /\ Tail(EndOf) = End1
    BY <1>1, <2>1
  <2>3. End1 \in Seq(EndOps) /\ End1 # <<>> /\ Head(End1) = w /\ Tail(End1) = End2
    BY <1>1, <2>1
  <2>4. End2 \in Seq(EndOps) /\ End2 # <<>> /\ Head(End2) = s /\ Tail(End2) = End3
    BY <1>1, <2>1
  <2>5. End3 \in Seq(EndOps) /\ End3 = <<>>
    BY <1>1, <2>1
  <2> QED
    BY <2>2, <2>3, <2>4, <2>5 DEF r, w, s, q
<1> QED
  BY <1>4, <1>5

LEMMA EndLeadsNowhere == \A c, m : Leads(State(c, m), EndOf, State(c, m))
<1> SUFFICES ASSUME NEW c, NEW m PROVE Leads(State(c, m), EndOf, State(c, m))
  OBVIOUS
<1> DEFINE s == State(c, m)
<1>1. Effect(s, Op("refresh")) = s /\ Effect(s, Op("wait")) = s /\ Effect(s, Op("sleep")) = s /\ Effect(s, Pause(SleepT)) = s
  BY NoEffect
<1> HIDE DEF s
<1>2. Leads(s, <<>>, s)
  BY NothingLeads
<1>3. Leads(s, End3, s)
  <2>1. CASE End3 = <<>>
    BY <1>2, <2>1
  <2>2. CASE End3 # <<>>
    BY <1>1, <1>2, <2>2, EndRest, FirstLeads
  <2> QED
    BY <2>1, <2>2
<1>4. Leads(s, End2, s)
  BY <1>1, <1>3, EndRest, FirstLeads
<1>5. Leads(s, End1, s)
  BY <1>1, <1>4, EndRest, FirstLeads
<1>6. Leads(s, EndOf, s)
  BY <1>1, <1>5, EndRest, FirstLeads
<1> QED
  BY <1>6 DEF s

-----------------------------------------------------------------------------
(* The inductive invariant of a draw on its way.                           *)

(* A draw on its way, told of a controller c, a memory m, the glass g, the *)
(* slices b left of a refresh, the operations p left for the picture of a, *)
(* and whether (u) the wait was cut.                                       *)
Promises(c, m, p, a) == \A t : Leads(State(c, m), p, t) => IsPicture(t.ram, Canvas(a))

Starts(c, m, p, a) == Promises(c, m, p, a) /\ \E f : Afresh(f) /\ p = f \o EndOf
Loads(c, m, b, p, a) == c.awake /\ b = 0 /\ Promises(c, m, p, a) /\ \E f : Prepared(f) /\ p = f \o EndOf
Refreshes(m, g, b, p, a) == p = End1 /\ IsPicture(m, Canvas(a)) /\ (b = 0 => g = Seen(m))
Ends(m, g, b, u, p, a) == p = End2 /\ IsPicture(m, Canvas(a)) /\ (u \/ (b = 0 /\ g = Seen(m)))
Ended(m, g, u, p, a) == p \in {End3, <<>>} /\ IsPicture(m, Canvas(a)) /\ (u \/ g = Seen(m))

OnPaper(c, m, g, b, u, p, a) ==
  \/ Starts(c, m, p, a) \/ Loads(c, m, b, p, a)
  \/ Refreshes(m, g, b, p, a) \/ Ends(m, g, b, u, p, a) \/ Ended(m, g, u, p, a)

Underway(c, m, g, b, u, p, a) ==
  IF kind \in SelfLit THEN Streaming(p) /\ Promises(c, m, p, a) ELSE OnPaper(c, m, g, b, u, p, a)

(* A panel that shows its memory never sleeps and is never busy.           *)
StaysLit(c, b) == kind \in SelfLit => Steady(c) /\ c.awake /\ b = 0

Now(c, m, g, b, u, p, a) ==
  c = ctl /\ m = ram /\ g = glass /\ b = busy /\ u = cut /\ p = ops /\ a = app

DrawIsSound ==
  phase = "draw" => shown = None /\ \A c, m, g, b, u, p, a : Now(c, m, g, b, u, p, a) => Underway(c, m, g, b, u, p, a)

PanelIsSound == \A c, m, b : c = ctl /\ m = ram /\ b = busy => c \in Controllers /\ IsMemory(m) /\ StaysLit(c, b)

GlassIsPicture ==
  phase = "idle" /\ shown # None /\ ~ cut =>
    \A m, g, a : m = ram /\ g = glass /\ a = shown =>
      \A p \in Pixels : (IF kind \in SelfLit THEN Seen(m) ELSE g)[p] = Canvas(a)[p]

Sound ==
  kind \in Kinds /\ (Suits => PanelTypeOK /\ DrawIsSound /\ PanelIsSound /\ GlassIsPicture)

LEMMA SameKind ==
  ASSUME kind' = kind
  PROVE  /\ Suits' <=> Suits
         /\ Controllers' = Controllers /\ EndOf' = EndOf /\ End1' = End1 /\ End2' = End2 /\ End3' = End3
         /\ \A m : (IsMemory(m)' <=> IsMemory(m)) /\ Seen(m)' = Seen(m)
         /\ \A m, v : IsPicture(m, v)' <=> IsPicture(m, v)
         /\ \A c, b : StaysLit(c, b)' <=> StaysLit(c, b)
         /\ \A f : (Afresh(f)' <=> Afresh(f)) /\ (Prepared(f)' <=> Prepared(f)) /\ (Streaming(f)' <=> Streaming(f))
<1>1. Height' = Height /\ Pixels' = Pixels /\ Pages' = Pages /\ LastAddress' = LastAddress /\ Addresses' = Addresses
  BY DEF Height, Pixels, Pages, LastAddress, Addresses
<1>2. Suits' <=> Suits
  BY <1>1 DEF Suits, HeightFits
<1>3. Controllers' = Controllers
  BY <1>1 DEF Controllers
<1>4. EndOf' = EndOf /\ End1' = End1 /\ End2' = End2 /\ End3' = End3
  BY DEF EndOf, End1, End2, End3
<1>5. \A m : (IsMemory(m)' <=> IsMemory(m))
  BY <1>1 DEF IsMemory
<1>6. \A m, p : SeenAt(m, p)' = SeenAt(m, p)
  BY <1>1 DEF SeenAt, Lit, Dark
<1>7. \A m : Seen(m)' = Seen(m)
  BY <1>1, <1>6 DEF Seen
<1>8. \A m, v : IsPicture(m, v)' <=> IsPicture(m, v)
  BY <1>1, <1>6 DEF IsPicture
<1>9. \A c, b : StaysLit(c, b)' <=> StaysLit(c, b)
  BY <1>1, <1>3 DEF StaysLit, Steady, IsWide
<1>10. \A o : (TypedOp(o)' <=> TypedOp(o))
  BY <1>1 DEF TypedOp
<1>11. \A o : (Prepares(o)' <=> Prepares(o)) /\ (Streams(o)' <=> Streams(o))
  BY <1>10 DEF Prepares, Streams
<1>12. \A f : (Prepared(f)' <=> Prepared(f)) /\ (Streaming(f)' <=> Streaming(f))
  BY <1>11 DEF Prepared, Streaming
<1>13. \A f : Afresh(f)' <=> Afresh(f)
  BY <1>12 DEF Afresh
<1> QED
  BY <1>2, <1>3, <1>4, <1>5, <1>7, <1>8, <1>9, <1>12, <1>13

LEMMA SameUnderway ==
  ASSUME kind' = kind, rotation' = rotation, NEW c, NEW m, NEW g, NEW b, NEW u, NEW p, NEW a
  PROVE  Underway(c, m, g, b, u, p, a)' <=> Underway(c, m, g, b, u, p, a)
<1>1. Promises(c, m, p, a)' <=> Promises(c, m, p, a)
  <2>1. PICK v : v = Canvas(a)
    OBVIOUS
  <2>2. Canvas(a)' = v
    BY <2>1, SameCanvas
  <2>3. Promises(c, m, p, a) <=> \A t : Leads(State(c, m), p, t) => IsPicture(t.ram, v)
    BY <2>1 DEF Promises
  <2>4. Promises(c, m, p, a)' <=> \A t : Leads(State(c, m), p, t)' => IsPicture(t.ram, v)'
    BY <2>2 DEF Promises, IsPicture
  <2>5. \A t : Leads(State(c, m), p, t)' <=> Leads(State(c, m), p, t)
    BY SameLeads
  <2> QED
    BY <2>3, <2>4, <2>5, SameKind
<1>2. IsPicture(m, Canvas(a))' <=> IsPicture(m, Canvas(a))
  <2>1. PICK v : v = Canvas(a)
    OBVIOUS
  <2>2. Canvas(a)' = v
    BY <2>1, SameCanvas
  <2>3. IsPicture(m, Canvas(a))' <=> IsPicture(m, v)'
    BY <2>2 DEF IsPicture
  <2> QED
    BY <2>1, <2>3, SameKind
<1>3. Starts(c, m, p, a)' <=> Starts(c, m, p, a)
  BY <1>1, SameKind DEF Starts
<1>4. Loads(c, m, b, p, a)' <=> Loads(c, m, b, p, a)
  BY <1>1, SameKind DEF Loads
<1>5. Refreshes(m, g, b, p, a)' <=> Refreshes(m, g, b, p, a)
  BY <1>2, SameKind DEF Refreshes
<1>6. Ends(m, g, b, u, p, a)' <=> Ends(m, g, b, u, p, a)
  BY <1>2, SameKind DEF Ends
<1>7. Ended(m, g, u, p, a)' <=> Ended(m, g, u, p, a)
  BY <1>2, SameKind DEF Ended
<1>8. Streaming(p)' <=> Streaming(p)
  BY SameKind
<1> QED
  BY <1>1, <1>3, <1>4, <1>5, <1>6, <1>7, <1>8 DEF Underway, OnPaper

LEMMA TypedKeepsAwake ==
  ASSUME kind \in Kinds, NEW c \in Controllers, c.awake, NEW m, IsMemory(m), NEW o, TypedOp(o)
  PROVE  Effect(State(c, m), o).c.awake
<1> DEFINE s == Effect(State(c, m), o)
<1>1. State(c, m).c = c /\ State(c, m).ram = m /\ \A d : [State(c, m) EXCEPT !.c = d] = State(d, m)
  BY DEF State
<1>2. \A d, n : State(d, n).c = d
  BY DEF State
<1>3. CASE o.op = "reset"
  <2>1. s = State(WideOpen, m)
    <3> HIDE DEF WideOpen
    <3> QED
      BY <1>1, <1>3, EffectIs
  <2>2. WideOpen.awake
    BY DEF WideOpen
  <2> HIDE DEF WideOpen, s
  <2> QED
    BY <1>2, <2>1, <2>2 DEF s
<1>4. CASE o.op = "at"
  <2>1. s = State(AtPlace(c, o.a, o.b), m)
    BY <1>1, <1>4, EffectIs
  <2>2. AtPlace(c, o.a, o.b).awake
    BY DEF AtPlace, Controllers
  <2> QED
    BY <1>2, <2>1, <2>2
<1>5. CASE o.op = "window"
  <2>1. s = State(WithWindow(c, o.a0, o.a1, o.b0, o.b1), m)
    BY <1>1, <1>5, EffectIs
  <2>2. WithWindow(c, o.a0, o.a1, o.b0, o.b1).awake
    <3> HIDE DEF LastAddress
    <3> QED
      BY DEF WithWindow, Controllers
  <2> QED
    BY <1>2, <2>1, <2>2
<1>6. CASE o.op = "order"
  <2>1. s = State(InOrder(c, o.first), m)
    BY <1>1, <1>6, EffectIs
  <2>2. InOrder(c, o.first).awake
    BY DEF InOrder, Controllers
  <2> QED
    BY <1>2, <2>1, <2>2
<1>7. CASE o.op = "plane"
  <2>1. s = State(OnPlane(c, o.plane), m)
    BY <1>1, <1>7, EffectIs
  <2>2. OnPlane(c, o.plane).awake
    BY DEF OnPlane, Controllers
  <2> QED
    BY <1>2, <2>1, <2>2
<1>8. CASE o.op = "data"
  <2>1. PICK n \in Nat : DOMAIN o.bytes = 1 .. n
    BY <1>8 DEF TypedOp
  <2>2. s = Written(c, m, o.bytes)
    BY <1>1, <1>8, EffectIs
  <2>3. MovedTo(c, s.c)
    BY <2>1, <2>2, TransferMoves
  <2> HIDE DEF s
  <2>4. s.c.awake = c.awake
    BY <2>3 DEF MovedTo, Controllers
  <2> QED
    BY <2>4 DEF s
<1>9. CASE o.op \notin {"reset", "at", "window", "rows", "order", "plane", "data"}
  <2>1. s = State(c, m)
    BY <1>9, EffectIs
  <2> QED
    BY <1>2, <2>1
<1>10. CASE o.op = "rows"
  <2>1. s = State(WithRows(c, o.b0, o.b1), m)
    BY <1>1, <1>10, EffectIs
  <2>2. WithRows(c, o.b0, o.b1).awake
    BY DEF WithRows, Controllers
  <2> QED
    BY <1>2, <2>1, <2>2
<1> QED
  BY <1>3, <1>4, <1>5, <1>6, <1>7, <1>8, <1>9, <1>10

IsList(p) == \E S : p \in Seq(S)

LEMMA PromiseGoesOn ==
  ASSUME NEW c, NEW m, NEW p, NEW a, Promises(c, m, p, a), IsList(p), p # <<>>, NEW d, NEW n,
         State(d, n) = Effect(State(c, m), Head(p))
  PROVE  Promises(d, n, Tail(p), a)
<1>1. PICK S : p \in Seq(S)
  BY DEF IsList
<1>2. ASSUME NEW t, Leads(State(d, n), Tail(p), t) PROVE IsPicture(t.ram, Canvas(a))
  <2>1. Leads(Effect(State(c, m), Head(p)), Tail(p), t)
    BY <1>2
  <2>2. Leads(State(c, m), p, t)
    BY <1>1, <2>1, FirstLeads
  <2> QED
    BY <2>2 DEF Promises
<1> QED
  BY <1>2 DEF Promises

LEMMA EmptyFront == ASSUME NEW f, Prepared(f), f = <<>> PROVE f \o EndOf = EndOf
BY EndRest

LEMMA FrontList == ASSUME NEW f, Prepared(f) PROVE IsList(f \o EndOf)
<1>1. PICK S : f \in Seq(S)
  BY DEF Prepared
<1> DEFINE U == S \cup EndOps
<1>2. f \in Seq(U) /\ EndOf \in Seq(U)
  <2>1. EndOf \in Seq(EndOps)
    BY EndRest
  <2> DEFINE e == EndOf
  <2> HIDE DEF e
  <2>2. e \in Seq(EndOps)
    BY <2>1 DEF e
  <2>3. (\A i \in 1 .. Len(f) : f[i] \in U) /\ \A i \in 1 .. Len(e) : e[i] \in U
    BY <1>1, <2>2
  <2>4. f = [i \in 1 .. Len(f) |-> f[i]] /\ Len(f) \in Nat /\ e = [i \in 1 .. Len(e) |-> e[i]] /\ Len(e) \in Nat
    BY <1>1, <2>2
  <2> HIDE DEF U
  <2>5. f \in Seq(U) /\ e \in Seq(U)
    BY <2>3, <2>4
  <2> QED
    BY <2>5 DEF e
<1> HIDE DEF U
<1>3. f \o EndOf \in Seq(U)
  BY <1>2
<1> QED
  BY <1>3 DEF IsList

(* What is next of a draw on an e-paper.                                   *)
LeavesFront(p) == \E f : Prepared(f) /\ Tail(p) = f \o EndOf
AtReset(c, m, p, a) == Promises(c, m, p, a) /\ IsList(p) /\ Head(p).op = "reset" /\ LeavesFront(p)
AtLoad(c, m, b, p, a) ==
  c.awake /\ b = 0 /\ Promises(c, m, p, a) /\ IsList(p) /\ Prepares(Head(p)) /\ LeavesFront(p)
AtRefresh(c, m, b, p, a) == Head(p) = Op("refresh") /\ Tail(p) = End1 /\ c.awake /\ b = 0 /\ IsPicture(m, Canvas(a))
AtWait(m, g, b, p, a) == Head(p) = Op("wait") /\ Tail(p) = End2 /\ Refreshes(m, g, b, p, a)
AtSleep(m, g, b, u, p, a) == Head(p) = Op("sleep") /\ Tail(p) = End3 /\ Ends(m, g, b, u, p, a)
AtPause(m, g, u, p, a) == Head(p) = Pause(SleepT) /\ Tail(p) = <<>> /\ Ended(m, g, u, p, a)

LEMMA WhatIsNext ==
  ASSUME NEW c, NEW m, NEW g, NEW b, NEW u, NEW p, NEW a, OnPaper(c, m, g, b, u, p, a), p # <<>>
  PROVE  \/ AtReset(c, m, p, a) \/ AtLoad(c, m, b, p, a) \/ AtRefresh(c, m, b, p, a)
         \/ AtWait(m, g, b, p, a) \/ AtSleep(m, g, b, u, p, a) \/ AtPause(m, g, u, p, a)
<1>1. CASE Starts(c, m, p, a)
  <2>1. PICK f : Afresh(f) /\ p = f \o EndOf
    BY <1>1 DEF Starts
  <2>2. Prepared(f) /\ f # <<>> /\ Head(f).op = "reset"
    BY <2>1 DEF Afresh
  <2>3. EndOf \in Seq(EndOps)
    BY EndRest
  <2>4. Prepared(Tail(f)) /\ Head(p) = Head(f) /\ Tail(p) = Tail(f) \o EndOf
    BY <2>1, <2>2, <2>3, PreparedRest
  <2>5. IsList(p)
    BY <2>1, <2>2, FrontList
  <2> QED
    BY <1>1, <2>2, <2>4, <2>5 DEF Starts, AtReset, LeavesFront
<1>2. CASE Loads(c, m, b, p, a)
  <2>1. PICK f : Prepared(f) /\ p = f \o EndOf
    BY <1>2 DEF Loads
  <2>2. EndOf \in Seq(EndOps)
    BY EndRest
  <2>3. CASE f # <<>>
    <3>1. Prepares(Head(f)) /\ Prepared(Tail(f)) /\ Head(p) = Head(f) /\ Tail(p) = Tail(f) \o EndOf
      BY <2>1, <2>2, <2>3, PreparedRest
    <3>2. IsList(p)
      BY <2>1, FrontList
    <3> QED
      BY <1>2, <3>1, <3>2 DEF Loads, AtLoad, LeavesFront
  <2>4. CASE f = <<>>
    <3>1. p = EndOf
      BY <2>1, <2>4, EmptyFront
    <3>2. Head(p) = Op("refresh") /\ Tail(p) = End1
      BY <3>1, EndRest
    <3>3. IsPicture(State(c, m).ram, Canvas(a))
      BY <1>2, <3>1, EndLeadsNowhere DEF Loads, Promises
    <3>4. IsPicture(m, Canvas(a))
      BY <3>3 DEF State
    <3> QED
      BY <1>2, <3>2, <3>4 DEF Loads, AtRefresh
  <2> QED
    BY <2>3, <2>4
<1>3. CASE Refreshes(m, g, b, p, a)
  BY <1>3, EndRest DEF Refreshes, AtWait
<1>4. CASE Ends(m, g, b, u, p, a)
  BY <1>4, EndRest DEF Ends, AtSleep
<1>5. CASE Ended(m, g, u, p, a)
  BY <1>5, EndRest DEF Ended, AtPause
<1> QED
  BY <1>1, <1>2, <1>3, <1>4, <1>5 DEF OnPaper

LEMMA OpNames == (\A name : Op(name).op = name) /\ \A n : Pause(n).op = "pause" /\ Pause(n).slices = n
BY DEF Op, Pause

Intact(c, m, b) == c \in Controllers /\ IsMemory(m) /\ StaysLit(c, b)
GoesOn(c, m, g, b, u, p, a) == Intact(c, m, b) /\ Underway(c, m, g, b, u, p, a)

(* An operation that takes effect when the controller hears it.            *)
LEMMA OpGoes ==
  ASSUME kind \in Kinds, NEW c, NEW m, NEW g, NEW b, NEW u, NEW p, NEW a, GoesOn(c, m, g, b, u, p, a), p # <<>>,
         Head(p).op \in {"at", "window", "rows", "order", "plane", "data", "feed"}, NEW d, NEW n,
         c.awake /\ b = 0 => State(d, n) = Effect(State(c, m), Head(p))
  PROVE  GoesOn(d, n, g, b, u, Tail(p), a)
<1>1. c \in Controllers /\ IsMemory(m) /\ StaysLit(c, b) /\ Underway(c, m, g, b, u, p, a)
  BY DEF GoesOn, Intact
<1>2. \A e, q : State(e, q).c = e /\ State(e, q).ram = q
  BY DEF State
<1>3. c.awake /\ b = 0 /\ TypedOp(Head(p)) => d \in Controllers /\ IsMemory(n) /\ d.awake
  <2>1. SUFFICES ASSUME c.awake, b = 0, TypedOp(Head(p)) PROVE d \in Controllers /\ IsMemory(n) /\ d.awake
    OBVIOUS
  <2> DEFINE s == Effect(State(c, m), Head(p))
  <2>2. s.c \in Controllers /\ IsMemory(s.ram)
    BY <1>1, <2>1, TypedKeeps
  <2>3. s.c.awake
    BY <1>1, <2>1, TypedKeepsAwake
  <2>4. s = State(d, n)
    BY <2>1
  <2>5. s.c = d /\ s.ram = n
    BY <1>2, <2>4
  <2> HIDE DEF s
  <2> QED
    BY <2>2, <2>3, <2>5
<1>4. CASE kind \in SelfLit
  <2>1. Streaming(p) /\ Promises(c, m, p, a) /\ Steady(c) /\ c.awake /\ b = 0
    BY <1>1, <1>4 DEF Underway, StaysLit
  <2>2. Streams(Head(p)) /\ Streaming(Tail(p))
    BY <2>1, StreamingRest
  <2>3. IsList(p)
    BY <2>1 DEF Streaming, IsList
  <2>4. State(d, n) = Effect(State(c, m), Head(p))
    BY <2>1
  <2>5. Promises(d, n, Tail(p), a)
    BY <2>1, <2>3, <2>4, PromiseGoesOn
  <2>6. d \in Controllers /\ IsMemory(n) /\ d.awake
    BY <1>3, <2>1, <2>2 DEF Streams
  <2>7. Steady(Effect(State(c, m), Head(p)).c)
    BY <1>1, <2>1, <2>2, StreamsKeepSteady
  <2>8. Steady(d)
    BY <1>2, <2>4, <2>7
  <2> QED
    BY <1>4, <2>1, <2>2, <2>5, <2>6, <2>8 DEF GoesOn, Intact, StaysLit, Underway
<1>5. CASE kind \notin SelfLit
  <2>1. OnPaper(c, m, g, b, u, p, a)
    BY <1>1, <1>5 DEF Underway
  <2>2. AtLoad(c, m, b, p, a)
    BY <2>1, WhatIsNext, OpNames DEF AtReset, AtRefresh, AtWait, AtSleep, AtPause
  <2>3. c.awake /\ b = 0 /\ Promises(c, m, p, a) /\ IsList(p) /\ Prepares(Head(p)) /\ LeavesFront(p)
    BY <2>2 DEF AtLoad
  <2>4. State(d, n) = Effect(State(c, m), Head(p))
    BY <2>3
  <2>5. Promises(d, n, Tail(p), a)
    BY <2>3, <2>4, PromiseGoesOn
  <2>6. d \in Controllers /\ IsMemory(n) /\ d.awake
    BY <1>3, <2>3 DEF Prepares
  <2>7. Loads(d, n, b, Tail(p), a)
    BY <2>3, <2>5, <2>6 DEF Loads, LeavesFront
  <2> QED
    BY <1>5, <2>6, <2>7 DEF GoesOn, Intact, StaysLit, Underway, OnPaper
<1> QED
  BY <1>4, <1>5

LEMMA HeardHere == Heard <=> ctl.awake /\ busy = 0
BY DEF Heard

LEMMA SetUpGoes ==
  ASSUME kind \in Kinds, GoesOn(ctl, ram, glass, busy, cut, ops, app), SetUp
  PROVE  GoesOn(ctl', ram', glass', busy', cut', ops', app')
<1>1. /\ ops # <<>> /\ Head(ops).op \in {"at", "window", "rows", "order", "plane"} /\ ops' = Tail(ops)
      /\ ram' = ram /\ glass' = glass /\ busy' = busy /\ cut' = cut /\ app' = app
  BY DEF SetUp, Does, Goes, Kept
<1> DEFINE o == Head(ops)
<1>2. ctl' = IF ~ Heard THEN ctl
             ELSE CASE o.op = "at" -> [ctl EXCEPT !.a = o.a, !.b = o.b]
                    [] o.op = "window" -> [ctl EXCEPT !.a0 = o.a0, !.a1 = o.a1, !.b0 = o.b0, !.b1 = o.b1]
                    [] o.op = "rows" -> [ctl EXCEPT !.b0 = o.b0, !.b1 = o.b1, !.b = o.b0]
                    [] o.op = "order" -> [ctl EXCEPT !.first = o.first]
                    [] o.op = "plane" -> [ctl EXCEPT !.plane = o.plane]
  BY DEF SetUp
<1>3. o.op \in {"at", "window", "rows", "order", "plane"}
  BY <1>1
<1>4. State(ctl, ram).c = ctl /\ State(ctl, ram).ram = ram /\ \A d : [State(ctl, ram) EXCEPT !.c = d] = State(d, ram)
  BY DEF State
<1>5. ASSUME Heard PROVE State(ctl', ram) = Effect(State(ctl, ram), o)
  <2> HIDE DEF o
  <2>1. CASE o.op = "at"
    <3>1. ctl' = AtPlace(ctl, o.a, o.b)
      BY <1>2, <1>5, <2>1 DEF AtPlace
    <3>2. Effect(State(ctl, ram), o) = State(AtPlace(ctl, o.a, o.b), ram)
      BY <1>4, <2>1, EffectIs
    <3> QED
      BY <3>1, <3>2
  <2>2. CASE o.op = "window"
    <3>1. ctl' = WithWindow(ctl, o.a0, o.a1, o.b0, o.b1)
      BY <1>2, <1>5, <2>2 DEF WithWindow
    <3>2. Effect(State(ctl, ram), o) = State(WithWindow(ctl, o.a0, o.a1, o.b0, o.b1), ram)
      BY <1>4, <2>2, EffectIs
    <3> QED
      BY <3>1, <3>2
  <2>3. CASE o.op = "order"
    <3>1. ctl' = InOrder(ctl, o.first)
      BY <1>2, <1>5, <2>3 DEF InOrder
    <3>2. Effect(State(ctl, ram), o) = State(InOrder(ctl, o.first), ram)
      BY <1>4, <2>3, EffectIs
    <3> QED
      BY <3>1, <3>2
  <2>4. CASE o.op = "plane"
    <3>1. ctl' = OnPlane(ctl, o.plane)
      BY <1>2, <1>5, <2>4 DEF OnPlane
    <3>2. Effect(State(ctl, ram), o) = State(OnPlane(ctl, o.plane), ram)
      BY <1>4, <2>4, EffectIs
    <3> QED
      BY <3>1, <3>2
  <2>5. CASE o.op = "rows"
    <3>1. ctl' = WithRows(ctl, o.b0, o.b1)
      BY <1>2, <1>5, <2>5 DEF WithRows
    <3>2. Effect(State(ctl, ram), o) = State(WithRows(ctl, o.b0, o.b1), ram)
      BY <1>4, <2>5, EffectIs
    <3> QED
      BY <3>1, <3>2
  <2> QED
    BY <1>3, <2>1, <2>2, <2>3, <2>4, <2>5
<1>6. PICK d : d = ctl'
  OBVIOUS
<1>7. ctl.awake /\ busy = 0 => State(d, ram) = Effect(State(ctl, ram), Head(ops))
  BY <1>5, <1>6, HeardHere
<1>8. GoesOn(d, ram, glass, busy, cut, Tail(ops), app)
  BY <1>1, <1>7, OpGoes
<1> QED
  BY <1>1, <1>6, <1>8

LEMMA TransferGoes ==
  ASSUME kind \in Kinds, GoesOn(ctl, ram, glass, busy, cut, ops, app), Transfer
  PROVE  GoesOn(ctl', ram', glass', busy', cut', ops', app')
<1>1. /\ ops # <<>> /\ Head(ops).op = "data" /\ ops' = Tail(ops)
      /\ glass' = glass /\ busy' = busy /\ cut' = cut /\ app' = app
  BY DEF Transfer, Does, Goes, Kept
<1>2. PICK d, n : d = ctl' /\ n = ram'
  OBVIOUS
<1>3. ASSUME Heard PROVE State(d, n) = Effect(State(ctl, ram), Head(ops))
  <2> DEFINE w == Written(ctl, ram, Head(ops).bytes)
  <2>1. d = w.c /\ n = w.ram
    BY <1>2, <1>3 DEF Transfer
  <2>2. Effect(State(ctl, ram), Head(ops)) = w
    BY <1>1, EffectIs, StateParts
  <2>3. w = State(w.c, w.ram)
    <3>1. TypedOp(Head(ops))
      <4>1. CASE kind \in SelfLit
        BY <1>1, <4>1, StreamingRest DEF GoesOn, Underway, Streams
      <4>2. CASE kind \notin SelfLit
        <5>1. OnPaper(ctl, ram, glass, busy, cut, ops, app)
          BY <4>2 DEF GoesOn, Underway
        <5>2. AtLoad(ctl, ram, busy, ops, app)
          BY <1>1, <5>1, WhatIsNext, OpNames DEF AtReset, AtRefresh, AtWait, AtSleep, AtPause
        <5> QED
          BY <5>2 DEF AtLoad, Prepares
      <4> QED
        BY <4>1, <4>2
    <3>2. PICK k \in Nat : DOMAIN Head(ops).bytes = 1 .. k
      BY <1>1, <3>1 DEF TypedOp
    <3> QED
      BY <3>2, WrittenIsState
  <2> HIDE DEF w
  <2> QED
    BY <2>1, <2>2, <2>3
<1>4. ctl.awake /\ busy = 0 => State(d, n) = Effect(State(ctl, ram), Head(ops))
  BY <1>3, HeardHere
<1>5. GoesOn(d, n, glass, busy, cut, Tail(ops), app)
  BY <1>1, <1>4, OpGoes
<1> QED
  BY <1>1, <1>2, <1>5

(* The operations of e-papers only.                                        *)
LEMMA OnlyPaper ==
  ASSUME GoesOn(ctl, ram, glass, busy, cut, ops, app), ops # <<>>,
         Head(ops).op \in {"reset", "wait", "feed", "refresh", "sleep", "pause"}
  PROVE  kind \notin SelfLit /\ OnPaper(ctl, ram, glass, busy, cut, ops, app) /\ ctl \in Controllers /\ IsMemory(ram)
<1>1. Underway(ctl, ram, glass, busy, cut, ops, app) /\ ctl \in Controllers /\ IsMemory(ram)
  BY DEF GoesOn, Intact
<1>2. CASE kind \in SelfLit
  <2>1. Streams(Head(ops))
    BY <1>1, <1>2, StreamingRest DEF Underway
  <2> QED
    BY <2>1 DEF Streams
<1> QED
  BY <1>1, <1>2 DEF Underway

LEMMA StillOnPaper ==
  ASSUME NEW c, NEW m, NEW g, NEW b, NEW u, NEW p, NEW a, kind \notin SelfLit, c \in Controllers, IsMemory(m),
         OnPaper(c, m, g, b, u, p, a)
  PROVE  GoesOn(c, m, g, b, u, p, a)
BY DEF GoesOn, Intact, StaysLit, Underway

LEMMA ResetGoes ==
  ASSUME kind \in Kinds, GoesOn(ctl, ram, glass, busy, cut, ops, app), ResetPanel
  PROVE  GoesOn(ctl', ram', glass', busy', cut', ops', app')
<1>1. /\ ops # <<>> /\ Head(ops).op = "reset" /\ ops' = Tail(ops) /\ ctl' = WideOpen /\ busy' = 0
      /\ ram' = ram /\ cut' = cut /\ app' = app
  BY DEF ResetPanel, Does, Goes, Kept
<1>2. kind \notin SelfLit /\ OnPaper(ctl, ram, glass, busy, cut, ops, app) /\ IsMemory(ram)
  BY <1>1, OnlyPaper
<1>3. AtReset(ctl, ram, ops, app) \/ AtLoad(ctl, ram, busy, ops, app)
  BY <1>1, <1>2, WhatIsNext, OpNames DEF AtRefresh, AtWait, AtSleep, AtPause
<1>4. Promises(ctl, ram, ops, app) /\ IsList(ops) /\ LeavesFront(ops)
  BY <1>3 DEF AtReset, AtLoad
<1>5. PICK d, g : d = WideOpen /\ g = glass'
  OBVIOUS
<1>6. State(d, ram) = Effect(State(ctl, ram), Head(ops))
  <2>1. State(ctl, ram).ram = ram /\ \A e : [State(ctl, ram) EXCEPT !.c = e] = State(e, ram)
    BY DEF State
  <2> HIDE DEF WideOpen
  <2> QED
    BY <1>1, <1>5, <2>1, EffectIs
<1>7. Promises(d, ram, Tail(ops), app)
  BY <1>1, <1>4, <1>6, PromiseGoesOn
<1>8. d \in Controllers /\ d.awake
  <2>1. WideOpen.awake
    BY DEF WideOpen
  <2>2. WideOpen \in Controllers
    BY WideIsFresh DEF Fresh
  <2> HIDE DEF WideOpen
  <2> QED
    BY <1>5, <2>1, <2>2
<1>9. Loads(d, ram, 0, Tail(ops), app)
  BY <1>4, <1>7, <1>8 DEF Loads, LeavesFront
<1>10. OnPaper(d, ram, g, 0, cut, Tail(ops), app)
  BY <1>9 DEF OnPaper
<1>11. GoesOn(d, ram, g, 0, cut, Tail(ops), app)
  BY <1>2, <1>8, <1>10, StillOnPaper
<1> HIDE DEF WideOpen
<1> QED
  BY <1>1, <1>5, <1>11

LEMMA RefreshGoes ==
  ASSUME kind \in Kinds, GoesOn(ctl, ram, glass, busy, cut, ops, app), StartRefresh
  PROVE  GoesOn(ctl', ram', glass', busy', cut', ops', app')
<1>1. /\ ops # <<>> /\ Head(ops).op = "refresh" /\ ops' = Tail(ops)
      /\ ctl' = ctl /\ ram' = ram /\ glass' = glass /\ cut' = cut /\ app' = app
  BY DEF StartRefresh, Does, Goes, Kept
<1>2. kind \notin SelfLit /\ OnPaper(ctl, ram, glass, busy, cut, ops, app) /\ ctl \in Controllers /\ IsMemory(ram)
  BY <1>1, OnlyPaper
<1>3. AtRefresh(ctl, ram, busy, ops, app)
  <2>1. ~ AtReset(ctl, ram, ops, app) /\ ~ AtLoad(ctl, ram, busy, ops, app)
    BY <1>1 DEF AtReset, AtLoad, Prepares
  <2> QED
    BY <1>1, <1>2, <2>1, WhatIsNext, OpNames DEF AtWait, AtSleep, AtPause
<1>4. busy' # 0
  BY <1>3, HeardHere DEF AtRefresh, StartRefresh
<1>5. PICK b : b = busy'
  OBVIOUS
<1>6. OnPaper(ctl, ram, glass, b, cut, Tail(ops), app)
  BY <1>3, <1>4, <1>5 DEF OnPaper, Refreshes, AtRefresh
<1>7. GoesOn(ctl, ram, glass, b, cut, Tail(ops), app)
  BY <1>2, <1>6, StillOnPaper
<1> QED
  BY <1>1, <1>5, <1>7

LEMMA WaitSliceGoes ==
  ASSUME kind \in Kinds, busy \in Nat, GoesOn(ctl, ram, glass, busy, cut, ops, app), WaitSlice
  PROVE  GoesOn(ctl', ram', glass', busy', cut', ops', app')
<1>1. /\ ops # <<>> /\ Head(ops).op = "wait" /\ ops' = ops /\ busy > 0 /\ busy' = busy - 1
      /\ glass' = IF busy = 1 THEN Seen(ram) ELSE glass
      /\ ctl' = ctl /\ ram' = ram /\ cut' = cut /\ app' = app
  BY DEF WaitSlice, Does, Kept
<1>2. kind \notin SelfLit /\ OnPaper(ctl, ram, glass, busy, cut, ops, app) /\ ctl \in Controllers /\ IsMemory(ram)
  BY <1>1, OnlyPaper
<1>3. AtWait(ram, glass, busy, ops, app)
  <2>1. ~ AtReset(ctl, ram, ops, app) /\ ~ AtLoad(ctl, ram, busy, ops, app)
    BY <1>1 DEF AtReset, AtLoad
  <2> QED
    BY <1>1, <1>2, <2>1, WhatIsNext, OpNames DEF AtRefresh, AtSleep, AtPause
<1>4. PICK b, g : b = busy' /\ g = glass'
  OBVIOUS
<1>5. b = 0 => busy = 1
  BY <1>1, <1>4
<1>6. b = 0 => g = Seen(ram)
  BY <1>1, <1>4, <1>5
<1>7. OnPaper(ctl, ram, g, b, cut, ops, app)
  BY <1>3, <1>6 DEF OnPaper, Refreshes, AtWait
<1>8. GoesOn(ctl, ram, g, b, cut, ops, app)
  BY <1>2, <1>7, StillOnPaper
<1> QED
  BY <1>1, <1>4, <1>8

LEMMA EndWaitGoes ==
  ASSUME kind \in Kinds, busy \in Nat, GoesOn(ctl, ram, glass, busy, cut, ops, app), EndWait
  PROVE  GoesOn(ctl', ram', glass', busy', cut', ops', app')
<1>1. /\ ops # <<>> /\ Head(ops).op = "wait" /\ ops' = Tail(ops) /\ cut' = (cut \/ busy > 0)
      /\ ctl' = ctl /\ ram' = ram /\ glass' = glass /\ busy' = busy /\ app' = app
  BY DEF EndWait, Does, Goes, Kept, device
<1>2. kind \notin SelfLit /\ OnPaper(ctl, ram, glass, busy, cut, ops, app) /\ ctl \in Controllers /\ IsMemory(ram)
  BY <1>1, OnlyPaper
<1>3. PICK u : u = cut'
  OBVIOUS
<1>4. OnPaper(ctl, ram, glass, busy, u, Tail(ops), app)
  <2>1. ~ AtReset(ctl, ram, ops, app)
    BY <1>1 DEF AtReset
  <2>2. CASE AtLoad(ctl, ram, busy, ops, app)
    <3>1. ctl.awake /\ busy = 0 /\ Promises(ctl, ram, ops, app) /\ IsList(ops) /\ LeavesFront(ops)
      BY <2>2 DEF AtLoad
    <3>2. State(ctl, ram) = Effect(State(ctl, ram), Head(ops))
      BY <1>1, EffectIs
    <3>3. Promises(ctl, ram, Tail(ops), app)
      BY <1>1, <3>1, <3>2, PromiseGoesOn
    <3> QED
      BY <3>1, <3>3 DEF OnPaper, Loads, LeavesFront
  <2>3. CASE AtWait(ram, glass, busy, ops, app)
    <3>1. Tail(ops) = End2 /\ IsPicture(ram, Canvas(app)) /\ (busy = 0 => glass = Seen(ram))
      BY <2>3 DEF AtWait, Refreshes
    <3>2. u \/ (busy = 0 /\ glass = Seen(ram))
      <4>1. CASE busy = 0
        BY <3>1, <4>1
      <4>2. CASE busy # 0
        <5>1. busy > 0
          BY <4>2
        <5>2. cut'
          BY <1>1, <5>1, Zenon
        <5> QED
          BY <1>3, <5>2, Zenon
      <4> QED
        BY <4>1, <4>2
    <3> QED
      BY <3>1, <3>2 DEF OnPaper, Ends
  <2> QED
    BY <1>1, <1>2, <2>1, <2>2, <2>3, WhatIsNext, OpNames DEF AtRefresh, AtSleep, AtPause
<1>5. GoesOn(ctl, ram, glass, busy, u, Tail(ops), app)
  BY <1>2, <1>4, StillOnPaper
<1> QED
  BY <1>1, <1>3, <1>5

LEMMA FeedGoes ==
  ASSUME kind \in Kinds, GoesOn(ctl, ram, glass, busy, cut, ops, app), FeedWatchdog
  PROVE  GoesOn(ctl', ram', glass', busy', cut', ops', app')
<1>1. /\ ops # <<>> /\ Head(ops).op = "feed" /\ ops' = Tail(ops) /\ cut' = cut
      /\ ctl' = ctl /\ ram' = ram /\ glass' = glass /\ busy' = busy /\ app' = app
  BY DEF FeedWatchdog, Does, Goes, Kept, device
<1>2. State(ctl, ram) = Effect(State(ctl, ram), Head(ops))
  BY <1>1, EffectIs
<1>3. GoesOn(ctl, ram, glass, busy, cut, Tail(ops), app)
  BY <1>1, <1>2, OpGoes
<1> QED
  BY <1>1, <1>3

LEMMA SleepGoes ==
  ASSUME kind \in Kinds, busy \in Nat, GoesOn(ctl, ram, glass, busy, cut, ops, app), GoToSleep
  PROVE  GoesOn(ctl', ram', glass', busy', cut', ops', app')
<1>1. /\ ops # <<>> /\ Head(ops).op = "sleep" /\ ops' = Tail(ops) /\ ctl' = [ctl EXCEPT !.awake = FALSE] /\ busy' = 0
      /\ glass' = IF busy > 0 THEN NoPicture ELSE glass
      /\ ram' = ram /\ cut' = cut /\ app' = app
  BY DEF GoToSleep, Does, Goes, Kept
<1>2. kind \notin SelfLit /\ OnPaper(ctl, ram, glass, busy, cut, ops, app) /\ ctl \in Controllers /\ IsMemory(ram)
  BY <1>1, OnlyPaper
<1>3. AtSleep(ram, glass, busy, cut, ops, app)
  <2>1. ~ AtReset(ctl, ram, ops, app) /\ ~ AtLoad(ctl, ram, busy, ops, app)
    BY <1>1 DEF AtReset, AtLoad, Prepares
  <2> QED
    BY <1>1, <1>2, <2>1, WhatIsNext, OpNames DEF AtRefresh, AtWait, AtPause
<1>4. PICK d, g : d = ctl' /\ g = glass'
  OBVIOUS
<1>5. d \in Controllers
  <2>1. [ctl EXCEPT !.awake = FALSE] \in Controllers
    BY <1>2 DEF Controllers
  <2> QED
    BY <1>1, <1>4, <2>1
<1>6. cut \/ g = Seen(ram)
  BY <1>1, <1>3, <1>4 DEF AtSleep, Ends
<1>7. OnPaper(d, ram, g, 0, cut, Tail(ops), app)
  BY <1>3, <1>6 DEF OnPaper, Ended, AtSleep, Ends
<1>8. GoesOn(d, ram, g, 0, cut, Tail(ops), app)
  BY <1>2, <1>5, <1>7, StillOnPaper
<1> QED
  BY <1>1, <1>4, <1>8

LEMMA PauseGoes ==
  ASSUME kind \in Kinds, GoesOn(ctl, ram, glass, busy, cut, ops, app), PausePasses
  PROVE  GoesOn(ctl', ram', glass', busy', cut', ops', app') /\ Head(ops).slices = SleepT
<1>1. /\ ops # <<>> /\ Head(ops).op = "pause" /\ ops' = Tail(ops) /\ cut' = cut
      /\ ctl' = ctl /\ ram' = ram /\ glass' = glass /\ busy' = busy /\ app' = app
  BY DEF PausePasses, Does, Goes, Kept, device
<1>2. kind \notin SelfLit /\ OnPaper(ctl, ram, glass, busy, cut, ops, app) /\ ctl \in Controllers /\ IsMemory(ram)
  BY <1>1, OnlyPaper
<1>3. AtPause(ram, glass, cut, ops, app)
  <2>1. ~ AtReset(ctl, ram, ops, app) /\ ~ AtLoad(ctl, ram, busy, ops, app)
    BY <1>1 DEF AtReset, AtLoad, Prepares
  <2> QED
    BY <1>1, <1>2, <2>1, WhatIsNext, OpNames DEF AtRefresh, AtWait, AtSleep
<1>4. OnPaper(ctl, ram, glass, busy, cut, Tail(ops), app)
  BY <1>3 DEF OnPaper, Ended, AtPause
<1>5. GoesOn(ctl, ram, glass, busy, cut, Tail(ops), app)
  BY <1>2, <1>4, StillOnPaper
<1> QED
  BY <1>1, <1>3, <1>5, OpNames DEF AtPause

-----------------------------------------------------------------------------
(* Painting: a canvas as its strokes leave it, one after the other.        *)

IsPainting(f, n, start, strokes) ==
  f = [s \in SUBSET (1 .. n) |->
         IF s = {} THEN start ELSE Apply(f[s \ {Max(s)}], strokes[Max(s)])]

LEMMA PaintingExists ==
  ASSUME NEW start, NEW strokes, NEW n \in Nat
  PROVE  \E f : IsPainting(f, n, start, strokes)
<1> DEFINE T == {m \in Nat : ~ \E f : IsPainting(f, m, start, strokes)}
<1>1. ASSUME NEW m \in T, \A k \in T : m <= k PROVE FALSE
  <2>1. CASE m = 0
    <3> DEFINE f == [s \in SUBSET (1 .. 0) |-> start]
    <3>1. \A s \in SUBSET (1 .. 0) : s = {}
      OBVIOUS
    <3>2. f = [s \in SUBSET (1 .. 0) |-> IF s = {} THEN start ELSE Apply(f[s \ {Max(s)}], strokes[Max(s)])]
      BY <3>1
    <3> HIDE DEF f
    <3> QED
      BY <2>1, <3>2 DEF IsPainting
  <2>2. CASE m # 0
    <3>1. m - 1 \in Nat /\ ~ (m <= m - 1) /\ m \in Nat
      BY <2>2
    <3>2. PICK h : IsPainting(h, m - 1, start, strokes)
      BY <1>1, <3>1
    <3> DEFINE g == [s \in SUBSET (1 .. m) |->
                       IF m \in s THEN Apply(h[s \ {m}], strokes[m]) ELSE h[s]]
    <3>3. \A s \in SUBSET (1 .. m) : g[s] = IF s = {} THEN start ELSE Apply(g[s \ {Max(s)}], strokes[Max(s)])
      <4> SUFFICES ASSUME NEW s \in SUBSET (1 .. m)
                   PROVE  g[s] = IF s = {} THEN start ELSE Apply(g[s \ {Max(s)}], strokes[Max(s)])
        OBVIOUS
      <4>1. CASE m \in s
        <5>1. s # {} /\ Max(s) = m
          <6>1. Max(s) \in s /\ \A k \in s : k <= Max(s)
            BY <3>1, <4>1, LargestOf
          <6>2. PICK k \in s : k = Max(s)
            BY <6>1
          <6>3. k \in 1 .. m /\ m <= k
            BY <4>1, <6>1, <6>2
          <6> QED
            BY <6>2, <6>3
        <5>2. s \ {m} \in SUBSET (1 .. m) /\ m \notin s \ {m}
          OBVIOUS
        <5>3. g[s \ {m}] = h[s \ {m}]
          BY <5>2
        <5> QED
          BY <4>1, <5>1, <5>3
      <4>2. CASE m \notin s
        <5>1. s \in SUBSET (1 .. m - 1)
          BY <3>1, <4>2
        <5>2. h[s] = IF s = {} THEN start ELSE Apply(h[s \ {Max(s)}], strokes[Max(s)])
          BY <3>2, <5>1 DEF IsPainting
        <5>3. s \ {Max(s)} \in SUBSET (1 .. m) /\ m \notin s \ {Max(s)}
          BY <4>2
        <5>4. g[s \ {Max(s)}] = h[s \ {Max(s)}] /\ g[s] = h[s]
          BY <4>2, <5>3
        <5> QED
          BY <5>2, <5>4
      <4> QED
        BY <4>1, <4>2
    <3>4. g = [s \in SUBSET (1 .. m) |-> g[s]]
      OBVIOUS
    <3> HIDE DEF g
    <3>5. IsPainting(g, m, start, strokes)
      BY <3>3, <3>4 DEF IsPainting
    <3> QED
      BY <3>5
  <2> QED
    BY <2>1, <2>2
<1>2. T = {}
  <2> HIDE DEF T
  <2>1. T \in SUBSET Nat
    BY DEF T
  <2> QED
    BY <1>1, <2>1, FirstOf
<1> QED
  BY <1>2

ArePainted(g, strokes, n) ==
  /\ g[0] = [p \in Pixels |-> "bg"]
  /\ \A i \in 1 .. n : g[i] = Apply(g[i - 1], strokes[i])
  /\ FoldLeft(Apply, [p \in Pixels |-> "bg"], strokes) = g[n]

LEMMA PaintedInStages ==
  ASSUME NEW strokes, NEW n \in Nat, DOMAIN strokes = 1 .. n
  PROVE  \E g : ArePainted(g, strokes, n)
<1> DEFINE start == [p \in Pixels |-> "bg"]
<1> DEFINE f == CHOOSE h : IsPainting(h, n, start, strokes)
<1>1. IsPainting(f, n, start, strokes)
  BY PaintingExists
<1>2. FoldLeft(Apply, start, strokes) = f[1 .. n]
  BY DEF FoldLeft, MapThenFoldSet, IsPainting
<1> HIDE DEF f
<1> DEFINE g == [i \in 0 .. n |-> f[1 .. i]]
<1>3. g[0] = start
  <2>1. 1 .. 0 = {} /\ {} \in SUBSET (1 .. n) /\ g[0] = f[1 .. 0]
    OBVIOUS
  <2> QED
    BY <1>1, <2>1 DEF IsPainting
<1>4. ASSUME NEW i \in 1 .. n PROVE g[i] = Apply(g[i - 1], strokes[i])
  <2>1. /\ 1 .. i \in SUBSET (1 .. n) /\ 1 .. i # {} /\ (1 .. i) \ {i} = 1 .. i - 1
        /\ g[i] = f[1 .. i] /\ g[i - 1] = f[1 .. i - 1]
    OBVIOUS
  <2>2. Max(1 .. i) = i
    <3>1. Max(1 .. i) \in 1 .. i /\ \A m \in 1 .. i : m <= Max(1 .. i)
      BY <2>1, LargestOf
    <3> QED
      BY <3>1
  <2>3. f[1 .. i] = Apply(f[(1 .. i) \ {Max(1 .. i)}], strokes[Max(1 .. i)])
    BY <1>1, <2>1 DEF IsPainting
  <2> QED
    BY <2>1, <2>2, <2>3
<1>5. FoldLeft(Apply, start, strokes) = g[n]
  BY <1>2
<1> QED
  BY <1>3, <1>4, <1>5 DEF ArePainted

-----------------------------------------------------------------------------
(* One pixel, z, and the colour s that strokes make t.                     *)

Stain(z, color, stroke) == IF z \in stroke.pixels THEN stroke.color ELSE color

Dabs(z, s, p, t, h) ==
  /\ h[0] = s /\ h[Len(p)] = t
  /\ \A i \in 1 .. Len(p) : h[i] = Stain(z, h[i - 1], p[i])
Paints(z, s, p, t) == \E h : Dabs(z, s, p, t, h)

LEMMA PaintsInTwo ==
  ASSUME NEW z, NEW S, NEW p \in Seq(S), NEW q \in Seq(S), NEW s, NEW t, Paints(z, s, p \o q, t)
  PROVE  \E u : Paints(z, s, p, u) /\ Paints(z, u, q, t)
<1> DEFINE n == Len(p)   m == Len(q)   r == p \o q
<1>1. PICK h : Dabs(z, s, r, t, h)
  BY DEF Paints
<1>2. /\ n \in Nat /\ m \in Nat /\ Len(r) = n + m
      /\ \A i \in 1 .. n : r[i] = p[i]
      /\ \A i \in 1 .. m : r[n + i] = q[i]
  OBVIOUS
<1> HIDE DEF r
<1>3. h[0] = s /\ h[n + m] = t /\ \A i \in 1 .. n + m : h[i] = Stain(z, h[i - 1], r[i])
  BY <1>1, <1>2 DEF Dabs
<1> HIDE DEF n, m
<1>4. ASSUME NEW i \in 1 .. n PROVE h[i] = Stain(z, h[i - 1], p[i])
  BY <1>2, <1>3
<1> DEFINE g == [i \in 0 .. m |-> h[n + i]]
<1>5. g[0] = h[n] /\ g[m] = t
  BY <1>2, <1>3
<1>6. ASSUME NEW i \in 1 .. m PROVE g[i] = Stain(z, g[i - 1], q[i])
  <2>1. n + i \in 1 .. n + m /\ n + i - 1 = n + (i - 1) /\ i - 1 \in 0 .. m /\ i \in 0 .. m
    BY <1>2
  <2>2. h[n + i] = Stain(z, h[n + i - 1], r[n + i]) /\ r[n + i] = q[i]
    BY <1>2, <1>3, <2>1
  <2> QED
    BY <2>1, <2>2
<1> HIDE DEF g
<1>7. Paints(z, s, p, h[n])
  BY <1>3, <1>4 DEF Paints, Dabs, n
<1>8. Paints(z, h[n], q, t)
  BY <1>5, <1>6 DEF Paints, Dabs, m
<1> QED
  BY <1>7, <1>8

(* The parts of a flattened sequence paint the colours u.            *)
PaintedParts(z, s, seqs, n, t, u) ==
  u[0] = s /\ u[n] = t /\ \A k \in 1 .. n : Paints(z, u[k - 1], seqs[k], u[k])

LEMMA PaintsInParts ==
  ASSUME NEW z, NEW S, NEW seqs \in Seq(Seq(S)), seqs # <<>>, NEW s, NEW t, Paints(z, s, FlattenSeq(seqs), t)
  PROVE  \E u : PaintedParts(z, s, seqs, Len(seqs), t, u)
<1> DEFINE n == Len(seqs)
<1>1. n \in Nat \ {0} /\ \A i \in 1 .. n : seqs[i] \in Seq(S)
  OBVIOUS
<1>2. PICK f : IsJoin(f, n, seqs) /\ FlattenSeq(seqs) = f[n]
  BY <1>1, FlatJoins
<1> HIDE DEF n
<1>3. \A i \in 1 .. n : f[i] = IF i = 1 THEN seqs[i] ELSE f[i - 1] \o seqs[i]
  BY <1>2 DEF IsJoin
<1> DEFINE Through(i) == f[i] \in Seq(S) /\ \A v : Paints(z, s, f[i], v) => \E u : PaintedParts(z, s, seqs, i, v, u)
<1>4. Through(1)
  <2>1. f[1] = seqs[1] /\ f[1] \in Seq(S)
    BY <1>1, <1>3
  <2>2. ASSUME NEW v, Paints(z, s, f[1], v) PROVE \E u : PaintedParts(z, s, seqs, 1, v, u)
    <3> DEFINE u == [i \in 0 .. 1 |-> IF i = 0 THEN s ELSE v]
    <3>1. u[0] = s /\ u[1] = v
      OBVIOUS
    <3> HIDE DEF u
    <3>2. ASSUME NEW k \in 1 .. 1 PROVE Paints(z, u[k - 1], seqs[k], u[k])
      <4>1. k = 1 /\ k - 1 = 0
        OBVIOUS
      <4> QED
        BY <2>1, <2>2, <3>1, <4>1
    <3>3. PaintedParts(z, s, seqs, 1, v, u)
      BY <3>1, <3>2 DEF PaintedParts
    <3> QED
      BY <3>3
  <2> QED
    BY <2>1, <2>2
<1>5. ASSUME NEW i \in 2 .. n, Through(i - 1) PROVE Through(i)
  <2>1. /\ i \in 1 .. n /\ i # 1 /\ i - 1 \in 1 .. n /\ i - 1 \in Nat
        /\ f[i] = f[i - 1] \o seqs[i] /\ f[i - 1] \in Seq(S) /\ seqs[i] \in Seq(S)
    <3>1. i \in 1 .. n /\ i # 1 /\ i - 1 \in 1 .. n /\ i - 1 \in Nat
      BY <1>1
    <3>2. f[i - 1] \in Seq(S)
      BY <1>5
    <3> HIDE DEF Through
    <3> QED
      BY <1>1, <1>3, <3>1, <3>2
  <2>2. f[i] \in Seq(S)
    BY <2>1
  <2>3. ASSUME NEW v, Paints(z, s, f[i], v) PROVE \E u : PaintedParts(z, s, seqs, i, v, u)
    <3> DEFINE p == f[i - 1]   q == seqs[i]
    <3>1. PICK w : Paints(z, s, p, w) /\ Paints(z, w, q, v)
      <4>1. p \in Seq(S) /\ q \in Seq(S) /\ Paints(z, s, p \o q, v)
        BY <2>1, <2>3
      <4> HIDE DEF p, q
      <4> QED
        BY <4>1, PaintsInTwo
    <3>2. PICK h : PaintedParts(z, s, seqs, i - 1, w, h)
      BY <1>5, <3>1
    <3> DEFINE u == [k \in 0 .. i |-> IF k = i THEN v ELSE h[k]]
    <3>3. u[0] = s /\ u[i] = v
      BY <2>1, <3>2 DEF PaintedParts
    <3>4. ASSUME NEW k \in 1 .. i PROVE Paints(z, u[k - 1], seqs[k], u[k])
      <4>1. u[k - 1] = h[k - 1]
        BY <2>1
      <4>2. CASE k = i
        <5>1. h[k - 1] = w
          BY <3>2, <4>2 DEF PaintedParts
        <5> QED
          BY <3>1, <3>3, <4>1, <4>2, <5>1
      <4>3. CASE k # i
        <5>1. k \in 1 .. i - 1 /\ u[k] = h[k]
          BY <2>1, <4>3
        <5>2. Paints(z, h[k - 1], seqs[k], h[k])
          BY <3>2, <5>1 DEF PaintedParts
        <5> QED
          BY <4>1, <5>1, <5>2
      <4> QED
        BY <4>2, <4>3
    <3> HIDE DEF u
    <3>5. PaintedParts(z, s, seqs, i, v, u)
      BY <3>3, <3>4 DEF PaintedParts
    <3> QED
      BY <3>5
  <2> QED
    BY <2>2, <2>3
<1> HIDE DEF Through
<1> DEFINE T == {i \in 1 .. n : ~ Through(i)}
<1>6. ASSUME NEW i \in T, \A j \in T : i <= j PROVE FALSE
  <2>1. i # 1
    BY <1>4
  <2>2. i \in 2 .. n /\ i - 1 \in 1 .. n /\ ~ (i <= i - 1)
    BY <1>1, <2>1
  <2> QED
    BY <1>5, <1>6, <2>2
<1>7. T = {}
  <2>1. T \in SUBSET Nat
    BY <1>1
  <2> HIDE DEF T
  <2> QED
    BY <1>6, <2>1, FirstOf
<1>8. Through(n)
  <2>1. n \in 1 .. n
    BY <1>1
  <2> QED
    BY <1>7, <2>1
<1>9. Paints(z, s, f[n], t)
  BY <1>2 DEF n
<1> QED
  BY <1>8, <1>9 DEF Through, n

LEMMA CanvasPaints ==
  ASSUME NEW strokes, NEW n \in Nat, DOMAIN strokes = 1 .. n, Len(strokes) = n, NEW z \in Pixels
  PROVE  Paints(z, "bg", strokes, FoldLeft(Apply, [p \in Pixels |-> "bg"], strokes)[z])
<1>1. PICK g : ArePainted(g, strokes, n)
  BY PaintedInStages
<1> DEFINE h == [i \in 0 .. n |-> g[i][z]]   t == FoldLeft(Apply, [p \in Pixels |-> "bg"], strokes)[z]
<1>2. h[0] = "bg" /\ h[n] = t
  <2>1. g[0] = [p \in Pixels |-> "bg"]
    BY <1>1 DEF ArePainted
  <2>2. g[0][z] = "bg"
    BY <2>1
  <2>3. FoldLeft(Apply, [p \in Pixels |-> "bg"], strokes) = g[n]
    BY <1>1 DEF ArePainted
  <2>4. h[0] = g[0][z] /\ h[n] = g[n][z]
    OBVIOUS
  <2> QED
    BY <2>2, <2>3, <2>4
<1>3. ASSUME NEW i \in 1 .. n PROVE h[i] = Stain(z, h[i - 1], strokes[i])
  <2>1. g[i] = Apply(g[i - 1], strokes[i])
    BY <1>1 DEF ArePainted
  <2>2. Apply(g[i - 1], strokes[i])[z] = Stain(z, g[i - 1][z], strokes[i])
    BY DEF Apply, Stain
  <2>3. h[i] = g[i][z] /\ h[i - 1] = g[i - 1][z]
    OBVIOUS
  <2> QED
    BY <2>1, <2>2, <2>3
<1> HIDE DEF h, t
<1>4. Dabs(z, "bg", strokes, t, h)
  BY <1>2, <1>3 DEF Dabs
<1>5. Paints(z, "bg", strokes, t)
  BY <1>4 DEF Paints
<1> QED
  BY <1>5 DEF t

(* Strokes that agree on a pixel's colour leave it that one.               *)
Agree(z, p, c) == Len(p) \in Nat /\ \A i \in 1 .. Len(p) : z \in p[i].pixels => p[i].color = c
Touch(z, p) == \E i \in 1 .. Len(p) : z \in p[i].pixels

LEMMA OneColor ==
  ASSUME NEW z, NEW s, NEW p, NEW t, Paints(z, s, p, t), NEW c, Agree(z, p, c)
  PROVE  t = IF Touch(z, p) THEN c ELSE s
<1> DEFINE n == Len(p)   hit(k) == \E i \in 1 .. k : z \in p[i].pixels
           Good(k) == \A h : Dabs(z, s, p, t, h) => h[k] = IF hit(k) THEN c ELSE s
<1>1. PICK h : Dabs(z, s, p, t, h)
  BY DEF Paints
<1>2. h[0] = s /\ h[n] = t /\ \A i \in 1 .. n : h[i] = Stain(z, h[i - 1], p[i])
  BY <1>1 DEF Dabs
<1>3. n \in Nat
  BY DEF Agree
<1>4. \A i \in 1 .. n : z \in p[i].pixels => p[i].color = c
  BY DEF Agree
<1> HIDE DEF n
<1> DEFINE T == {k \in 0 .. n : h[k] # IF hit(k) THEN c ELSE s}
<1>5. ASSUME NEW k \in T, \A j \in T : k <= j PROVE FALSE
  <2>1. CASE k = 0
    <3>1. ~ hit(0)
      OBVIOUS
    <3> QED
      BY <1>2, <2>1, <3>1
  <2>2. CASE k # 0
    <3>1. k \in 1 .. n /\ k - 1 \in 0 .. n /\ ~ (k <= k - 1)
      BY <1>3, <2>2
    <3>2. h[k - 1] = IF hit(k - 1) THEN c ELSE s
      BY <1>5, <3>1
    <3>3. h[k] = IF z \in p[k].pixels THEN c ELSE h[k - 1]
      BY <1>2, <1>4, <3>1 DEF Stain
    <3>4. hit(k) <=> hit(k - 1) \/ z \in p[k].pixels
      <4>1. \A i : i \in 1 .. k <=> i \in 1 .. k - 1 \/ i = k
        BY <3>1
      <4> QED
        BY <4>1
    <3> HIDE DEF hit
    <3> QED
      BY <3>2, <3>3, <3>4
  <2> QED
    BY <2>1, <2>2
<1>6. T = {}
  <2>1. T \in SUBSET Nat
    BY <1>3
  <2> HIDE DEF T
  <2> QED
    BY <1>5, <2>1, FirstOf
<1>7. n \in 0 .. n
  BY <1>3
<1>8. h[n] = IF hit(n) THEN c ELSE s
  BY <1>6, <1>7
<1> QED
  BY <1>2, <1>8 DEF n, Touch

(* The sequence of a finite set holds its members and nothing else.        *)
LEMMA ListsSet ==
  ASSUME NEW S, IsFiniteSet(S)
  PROVE  /\ SetToSeq(S) \in Seq(S) /\ Len(SetToSeq(S)) = Cardinality(S) /\ Cardinality(S) \in Nat
         /\ \A i \in 1 .. Len(SetToSeq(S)) : SetToSeq(S)[i] \in S
         /\ \A x \in S : \E i \in 1 .. Len(SetToSeq(S)) : SetToSeq(S)[i] = x
<1> DEFINE n == Cardinality(S)   I == 1 .. n   q == SetToSeq(S)
<1>1. n \in Nat /\ ExistsBijection(I, S)
  BY FS_CardinalityType
<1>2. PICK g : g \in Bijection(I, S)
  BY <1>1 DEF ExistsBijection
<1>3. g \in [I -> S] /\ IsInjective(g)
  BY <1>2 DEF Bijection, Injection
<1>4. q \in [I -> S] /\ IsInjective(q)
  BY <1>3 DEF SetToSeq
<1>5. IsFiniteSet(I) /\ Cardinality(I) = n
  BY <1>1, FS_Interval
<1> HIDE DEF I, q
<1>6. q \in Injection(I, S)
  BY <1>4 DEF Injection
<1>7. q \in Surjection(I, S)
  BY <1>5, <1>6, FS_Injection
<1>8. \A x \in S : \E i \in I : q[i] = x
  BY <1>7 DEF Surjection
<1>9. q \in Seq(S) /\ Len(q) = n
  BY <1>1, <1>4 DEF I
<1> QED
  BY <1>1, <1>4, <1>8, <1>9 DEF I, q

(* A set that a finite sequence of places names is finite.                 *)
LEMMA NamedIsFinite ==
  ASSUME NEW I, IsFiniteSet(I), NEW S, NEW f, \A x \in S : \E i \in I : f[i] = x
  PROVE  IsFiniteSet(S)
<1> DEFINE J == {i \in I : f[i] \in S}   g == [i \in J |-> f[i]]
<1>1. IsFiniteSet(J)
  BY FS_Subset
<1>2. g \in [J -> S] /\ \A x \in S : \E i \in J : g[i] = x
  OBVIOUS
<1> HIDE DEF g, J
<1>3. g \in Surjection(J, S)
  BY <1>2 DEF Surjection
<1> QED
  BY <1>1, <1>3, FS_Surjection

IsPoint(p) == p \in Int \X Int

(* A turned pixel lies in a turned rectangle as the pixel in the rectangle. *)
LEMMA InRect ==
  ASSUME Height \in Int, NEW p \in Int \X Int, NEW x \in Int, NEW y \in Int, NEW w \in Int, NEW h \in Int
  PROVE  Turned(p) \in Rect(x, y, w, h) <=> x <= p[1] /\ p[1] < x + w /\ y <= p[2] /\ p[2] < y + h
<1>1. Width \in Int /\ p[1] \in Int /\ p[2] \in Int /\ p = <<p[1], p[2]>>
  BY PanelsAssumption
<1> DEFINE H == Height
<1>2. H \in Int
  OBVIOUS
<1>3. CASE rotation = 180
  <2>1. Turned(p) = <<Width - 1 - p[1], H - 1 - p[2]>>
    BY <1>3 DEF Turned
  <2>2. Rect(x, y, w, h) = (Width - x - w .. Width - x - w + w - 1) \X (H - y - h .. H - y - h + h - 1)
    BY <1>3 DEF Rect
  <2> HIDE DEF H
  <2> QED
    BY <1>1, <1>2, <2>1, <2>2
<1>4. CASE rotation # 180
  <2>1. Turned(p) = <<p[1], p[2]>>
    BY <1>1, <1>4 DEF Turned
  <2>2. Rect(x, y, w, h) = (x .. x + w - 1) \X (y .. y + h - 1)
    BY <1>4 DEF Rect
  <2> QED
    BY <1>1, <2>1, <2>2
<1> QED
  BY <1>3, <1>4

LEMMA TurnsApart ==
  ASSUME Height \in Int, NEW p \in Int \X Int, NEW q \in Int \X Int, Turned(p) = Turned(q)
  PROVE  p = q
<1>1. Width \in Int /\ p[1] \in Int /\ p[2] \in Int /\ p = <<p[1], p[2]>> /\ q[1] \in Int /\ q[2] \in Int /\ q = <<q[1], q[2]>>
  BY PanelsAssumption
<1> DEFINE H == Height
<1>2. H \in Int /\ \A r : rotation = 180 => Turned(r) = <<Width - 1 - r[1], H - 1 - r[2]>>
  BY DEF Turned
<1> HIDE DEF H
<1>3. CASE rotation = 180
  BY <1>1, <1>2, <1>3
<1>4. CASE rotation # 180
  BY <1>4 DEF Turned
<1> QED
  BY <1>3, <1>4

(* The column of a cell that a place of the row falls into.                *)
LEMMA CellOfPlace ==
  ASSUME NEW x \in Int, NEW w \in Nat \ {0}
  PROVE  /\ x >= 0 => x \div w \in Nat /\ x % w \in 0 .. w - 1 /\ x = (x \div w) * w + (x % w)
         /\ \A from \in Nat, to \in Int :
              (from * w <= x /\ x < from * w + (to - from) * w) <=> (x >= 0 /\ from <= x \div w /\ x \div w < to)
         /\ \A k \in Nat, m \in 0 .. w - 1 : x = k * w + m => x >= 0 /\ x \div w = k /\ x % w = m
<1>1. ASSUME x >= 0 PROVE x \div w \in Nat /\ x % w \in 0 .. w - 1 /\ x = (x \div w) * w + (x % w)
  <2>1. x \in Nat
    BY <1>1
  <2>2. x \div w \in Nat /\ x % w \in 0 .. w - 1 /\ x = w * (x \div w) + (x % w)
    BY <2>1, PartsOf
  <2>3. \A d \in Int : w * d = d * w
    OBVIOUS
  <2> QED
    BY <2>2, <2>3
<1>2. \A a, b \in Int : a <= b => a * w <= b * w
  OBVIOUS
<1>3. ASSUME NEW from \in Nat, NEW to \in Int
      PROVE  (from * w <= x /\ x < from * w + (to - from) * w) <=> (x >= 0 /\ from <= x \div w /\ x \div w < to)
  <2>1. from * w + (to - from) * w = to * w /\ from * w \in Nat /\ to * w \in Int
    OBVIOUS
  <2>2. CASE x < 0
    BY <2>1, <2>2
  <2>3. CASE x >= 0
    <3> DEFINE d == x \div w   m == x % w   dw == d * w
    <3>1. d \in Nat /\ m \in 0 .. w - 1 /\ x = dw + m
      BY <1>1, <2>3
    <3> HIDE DEF d, m
    <3>2. dw \in Nat /\ (d + 1) * w = dw + w
      BY <3>1
    <3>3. from <= d => from * w <= dw
      BY <1>2, <3>1
    <3>4. d + 1 <= from => dw + w <= from * w
      <4>1. d + 1 \in Int /\ from \in Int
        BY <3>1
      <4>2. d + 1 <= from => (d + 1) * w <= from * w
        BY <1>2, <4>1
      <4> QED
        BY <3>2, <4>2
    <3>5. d + 1 <= to => dw + w <= to * w
      <4>1. d + 1 \in Int
        BY <3>1
      <4>2. d + 1 <= to => (d + 1) * w <= to * w
        BY <1>2, <4>1
      <4> QED
        BY <3>2, <4>2
    <3>6. to <= d => to * w <= dw
      BY <1>2, <3>1
    <3> HIDE DEF dw
    <3> DEFINE fw == from * w   tw == to * w
    <3>7. fw \in Nat /\ tw \in Int
      BY <2>1
    <3>8. from * w + (to - from) * w = tw
      BY <2>1
    <3>9. (from <= d => fw <= dw) /\ (d + 1 <= from => dw + w <= fw) /\ (d + 1 <= to => dw + w <= tw) /\ (to <= d => tw <= dw)
      BY <3>3, <3>4, <3>5, <3>6
    <3> HIDE DEF fw, tw
    <3>10. (fw <= x /\ x < tw) <=> (from <= d /\ d < to)
      BY <3>1, <3>2, <3>7, <3>9
    <3> QED
      BY <2>3, <3>8, <3>10 DEF d, fw
  <2> QED
    BY <2>2, <2>3
<1>4. ASSUME NEW k \in Nat, NEW m \in 0 .. w - 1, x = k * w + m PROVE x >= 0 /\ x \div w = k /\ x % w = m
  <2>1. k * w \in Nat /\ x >= 0
    BY <1>4
  <2> DEFINE d == x \div w   n == x % w   dw == d * w
  <2>2. d \in Nat /\ n \in 0 .. w - 1 /\ x = dw + n
    BY <1>1, <2>1
  <2> HIDE DEF d, n
  <2>3. d + 1 <= k => (d + 1) * w <= k * w
    BY <1>2, <2>2
  <2>4. k + 1 <= d => (k + 1) * w <= dw
    BY <1>2, <2>2
  <2>5. (d + 1) * w = dw + w /\ (k + 1) * w = k * w + w /\ dw \in Nat
    BY <2>2
  <2> HIDE DEF dw
  <2>6. ~ (d + 1 <= k) /\ ~ (k + 1 <= d)
    BY <1>4, <2>1, <2>2, <2>3, <2>4, <2>5
  <2>7. d = k
    BY <2>2, <2>6
  <2>8. n = m
    BY <1>4, <2>1, <2>2, <2>7 DEF dw
  <2> QED
    BY <2>1, <2>7, <2>8 DEF d, n
<1> QED
  BY <1>1, <1>3, <1>4

-----------------------------------------------------------------------------
(* One row of a frame, and what its strokes make of a pixel.               *)

WellSpanned(spans) == IsFiniteSet(spans) /\ \A s \in spans : s.from \in Nat /\ s.to \in Int

HasPlace(frame, r) == RowPlace(frame, r).y \in Nat /\ RowPlace(frame, r).tall \in Nat

RowTop(frame, r, shift) == RowPlace(frame, r).y + shift[2]
InBand(frame, r, shift, p) ==
  RowTop(frame, r, shift) <= p[2] /\ p[2] < RowTop(frame, r, shift) + RowPlace(frame, r).tall
ColumnAt(shift, p) == IF p[1] - shift[1] < 0 THEN -1 ELSE (p[1] - shift[1]) \div FontW
HasInk(frame, r, shift, p) ==
  /\ ColumnAt(shift, p) \in 0 .. RowWidth - 1
  /\ <<(p[1] - shift[1]) % FontW, p[2] - RowTop(frame, r, shift)>>
       \in Glyph(frame.rows[r][ColumnAt(shift, p)], RowPlace(frame, r).tall)

RowShade(frame, r, shift, p, color) ==
  IF ~ InBand(frame, r, shift, p) THEN color
  ELSE IF HasInk(frame, r, shift, p) THEN TextColor(frame, r, ColumnAt(shift, p))
  ELSE IF frame.invertedRow = r \/ In(Emphasised(frame, r), r, ColumnAt(shift, p)) THEN "fg"
  ELSE color

(* The strokes of a row in their three parts.                              *)
BarOf(frame, r, shift) ==
  IF frame.invertedRow = r
  THEN <<Stroke(Rect(0, RowTop(frame, r, shift), Width, RowPlace(frame, r).tall), "fg")>> ELSE <<>>

SpanStroke(frame, r, shift, s) ==
  Stroke(Rect(shift[1] + s.from * FontW, RowTop(frame, r, shift), (s.to - s.from) * FontW, RowPlace(frame, r).tall), "fg")

SpanStrokes(frame, r, shift) == {SpanStroke(frame, r, shift, s) : s \in {s \in Emphasised(frame, r) : s.row = r}}

InkAt(frame, r, shift, x) ==
  {Turned(<<shift[1] + x * FontW + d[1], RowTop(frame, r, shift) + d[2]>>) :
     d \in Glyph(frame.rows[r][x], RowPlace(frame, r).tall)}

InkStroke(frame, r, shift, i) == Stroke(InkAt(frame, r, shift, i - 1), TextColor(frame, r, i - 1))

TextOf(frame, r, shift) == [i \in 1 .. RowWidth |-> InkStroke(frame, r, shift, i)]

LEMMA RowInParts ==
  ASSUME NEW frame, NEW r, NEW shift
  PROVE  RowStrokes(frame, r, shift)
           = BarOf(frame, r, shift) \o SetToSeq(SpanStrokes(frame, r, shift)) \o TextOf(frame, r, shift)
BY DEF RowStrokes, BarOf, SpanStrokes, SpanStroke, TextOf, InkStroke, InkAt, RowTop

RowDabs(frame, r, shift) ==
  {BarOf(frame, r, shift)[1]} \cup SpanStrokes(frame, r, shift)
    \cup {InkStroke(frame, r, shift, i) : i \in 1 .. RowWidth}

LEMMA PartsAreLists ==
  ASSUME NEW frame, NEW r, NEW shift, WellSpanned(Emphasised(frame, r))
  PROVE  /\ BarOf(frame, r, shift) \in Seq(RowDabs(frame, r, shift))
         /\ IsFiniteSet(SpanStrokes(frame, r, shift))
         /\ SetToSeq(SpanStrokes(frame, r, shift)) \in Seq(RowDabs(frame, r, shift))
         /\ TextOf(frame, r, shift) \in Seq(RowDabs(frame, r, shift))
         /\ RowStrokes(frame, r, shift) \in Seq(RowDabs(frame, r, shift))
<1> DEFINE S == RowDabs(frame, r, shift)   B == SpanStrokes(frame, r, shift)
<1>1. BarOf(frame, r, shift) \in Seq(S)
  <2>1. BarOf(frame, r, shift)[1] \in S
    BY DEF RowDabs
  <2>2. BarOf(frame, r, shift) = <<>> \/ \E x : BarOf(frame, r, shift) = <<x>>
    BY DEF BarOf
  <2> DEFINE b == BarOf(frame, r, shift)
  <2>3. b[1] \in S /\ (b = <<>> \/ \E x : b = <<x>>)
    BY <2>1, <2>2
  <2> HIDE DEF S, b
  <2>6. b \in Seq(S)
    <3>1. CASE b = <<>>
      BY <3>1
    <3>2. CASE \E x : b = <<x>>
      <4>1. PICK x : b = <<x>>
        BY <3>2
      <4>2. x \in S
        BY <2>3, <4>1
      <4>3. <<x>> \in Seq(S)
        BY <4>2
      <4> QED
        BY <4>1, <4>3
    <3> QED
      BY <2>3, <3>1, <3>2
  <2> QED
    BY <2>6 DEF b
<1>2. IsFiniteSet(B)
  <2> DEFINE f == [s \in Emphasised(frame, r) |-> SpanStroke(frame, r, shift, s)]   I == Emphasised(frame, r)
  <2>1. \A x \in B : \E s \in I : f[s] = x
    BY DEF SpanStrokes
  <2>2. IsFiniteSet(I)
    BY DEF WellSpanned
  <2> HIDE DEF f, I, B
  <2> QED
    BY <2>1, <2>2, NamedIsFinite
<1>3. SetToSeq(B) \in Seq(S)
  <2>1. SetToSeq(B) \in Seq(B)
    BY <1>2, ListsSet
  <2>2. B \subseteq S
    BY DEF RowDabs
  <2> HIDE DEF B, S
  <2> QED
    BY <2>1, <2>2
<1>4. TextOf(frame, r, shift) \in Seq(S)
  <2>1. \A i \in 1 .. RowWidth : InkStroke(frame, r, shift, i) \in S
    BY DEF RowDabs
  <2>2. RowWidth \in Nat
    BY RowsAssumption
  <2> HIDE DEF S
  <2> QED
    BY <2>1, <2>2 DEF TextOf
<1>5. RowStrokes(frame, r, shift) \in Seq(S)
  <2> DEFINE x == BarOf(frame, r, shift)   y == SetToSeq(B)   z == TextOf(frame, r, shift)
  <2>1. RowStrokes(frame, r, shift) = x \o y \o z
    BY RowInParts
  <2>2. x \in Seq(S) /\ y \in Seq(S) /\ z \in Seq(S)
    BY <1>1, <1>3, <1>4
  <2> HIDE DEF x, y, z, S
  <2> QED
    BY <2>1, <2>2
<1> QED
  BY <1>1, <1>2, <1>3, <1>4, <1>5

LEMMA RowPaintsInThree ==
  ASSUME NEW z, NEW frame, NEW r, NEW shift, WellSpanned(Emphasised(frame, r)), NEW s, NEW t,
         Paints(z, s, RowStrokes(frame, r, shift), t)
  PROVE  \E u, v : /\ Paints(z, s, BarOf(frame, r, shift), u)
                   /\ Paints(z, u, SetToSeq(SpanStrokes(frame, r, shift)), v)
                   /\ Paints(z, v, TextOf(frame, r, shift), t)
<1> DEFINE S == RowDabs(frame, r, shift)
           a == BarOf(frame, r, shift)   b == SetToSeq(SpanStrokes(frame, r, shift))   c == TextOf(frame, r, shift)
<1>1. a \in Seq(S) /\ b \in Seq(S) /\ c \in Seq(S)
  BY PartsAreLists
<1>2. Paints(z, s, a \o b \o c, t)
  BY RowInParts
<1> HIDE DEF S, a, b, c
<1> DEFINE ab == a \o b
<1>3. ab \in Seq(S) /\ Paints(z, s, ab \o c, t)
  BY <1>1, <1>2
<1> HIDE DEF ab
<1>4. PICK v : Paints(z, s, ab, v) /\ Paints(z, v, c, t)
  BY <1>1, <1>3, PaintsInTwo
<1>5. Paints(z, s, a \o b, v)
  BY <1>4 DEF ab
<1>6. PICK u : Paints(z, s, a, u) /\ Paints(z, u, b, v)
  BY <1>1, <1>5, PaintsInTwo
<1> QED
  BY <1>4, <1>6 DEF a, b, c

IsShift(shift) == shift[1] \in Nat /\ shift[2] \in Nat

LEMMA BandFits ==
  ASSUME NEW frame, NEW r, HasPlace(frame, r), NEW shift, IsShift(shift)
  PROVE  /\ RowTop(frame, r, shift) \in Nat /\ RowPlace(frame, r).tall \in Nat
         /\ Width \in Nat \ {0} /\ FontW \in Nat \ {0}
<1>1. FontW \in Nat \ {0} /\ Width \in Nat \ {0}
  BY PanelsAssumption
<1> QED
  BY <1>1 DEF HasPlace, IsShift, RowTop

LEMMA BarPaints ==
  ASSUME Height \in Int, NEW frame, NEW r, HasPlace(frame, r), NEW shift, IsShift(shift), NEW p \in Pixels, IsPoint(p),
         NEW s, NEW t, Paints(Turned(p), s, BarOf(frame, r, shift), t)
  PROVE  t = IF frame.invertedRow = r /\ InBand(frame, r, shift, p) THEN "fg" ELSE s
<1> DEFINE bar == BarOf(frame, r, shift)   z == Turned(p)
           y == RowTop(frame, r, shift)   h == RowPlace(frame, r).tall   R == Rect(0, y, Width, h)
<1>1. y \in Nat /\ h \in Nat /\ Width \in Nat \ {0}
  BY BandFits
<1>2. z \in R <=> InBand(frame, r, shift, p)
  <2>1. p[1] \in 0 .. Width - 1
    <3> DEFINE H == Height
    <3>1. p \in (0 .. Width - 1) \X (0 .. H - 1)
      BY DEF Pixels
    <3> HIDE DEF H
    <3> QED
      BY <3>1
  <2>2. z \in R <=> 0 <= p[1] /\ p[1] < 0 + Width /\ y <= p[2] /\ p[2] < y + h
    <3>1. p \in Int \X Int /\ 0 \in Int /\ y \in Int /\ Width \in Int /\ h \in Int
      BY <1>1 DEF IsPoint
    <3> HIDE DEF y, h
    <3> QED
      BY <3>1, InRect
  <2> HIDE DEF z, R, y, h
  <2> QED
    BY <1>1, <2>1, <2>2 DEF InBand, y, h
<1>3. CASE frame.invertedRow = r
  <2> DEFINE q == Stroke(R, "fg")
  <2>1. bar = <<q>>
    BY <1>3 DEF BarOf
  <2>2. q.color = "fg" /\ q.pixels = R
    BY DEF Stroke
  <2> HIDE DEF bar, q, R
  <2>3. Len(bar) = 1 /\ bar[1] = q
    BY <2>1
  <2>4. Agree(z, bar, "fg")
    BY <2>2, <2>3 DEF Agree
  <2>5. Touch(z, bar) <=> z \in R
    BY <2>2, <2>3 DEF Touch
  <2>6. Paints(z, s, bar, t)
    BY DEF bar
  <2>7. t = IF Touch(z, bar) THEN "fg" ELSE s
    <3> HIDE DEF z
    <3> QED
      BY <2>4, <2>6, OneColor
  <2> QED
    BY <1>2, <1>3, <2>5, <2>7
<1>4. CASE frame.invertedRow # r
  <2>1. bar = <<>>
    BY <1>4 DEF BarOf
  <2>2. PICK h1 : Dabs(z, s, <<>>, t, h1)
    BY <2>1 DEF Paints
  <2>3. t = s
    BY <2>2 DEF Dabs
  <2> QED
    BY <1>4, <2>3
<1> QED
  BY <1>3, <1>4

LEMMA SpansPaint ==
  ASSUME Height \in Int, NEW frame, NEW r, HasPlace(frame, r), WellSpanned(Emphasised(frame, r)),
         NEW shift, IsShift(shift), NEW p, IsPoint(p),
         NEW s, NEW t, Paints(Turned(p), s, SetToSeq(SpanStrokes(frame, r, shift)), t)
  PROVE  t = IF InBand(frame, r, shift, p) /\ In(Emphasised(frame, r), r, ColumnAt(shift, p)) THEN "fg" ELSE s
<1> DEFINE B == SpanStrokes(frame, r, shift)   q == SetToSeq(B)   z == Turned(p)
           y == RowTop(frame, r, shift)   h == RowPlace(frame, r).tall
           x == p[1] - shift[1]   col == ColumnAt(shift, p)   E == Emphasised(frame, r)
<1>1. y \in Nat /\ h \in Nat /\ FontW \in Nat \ {0} /\ shift[1] \in Nat /\ p \in Int \X Int /\ p[1] \in Int /\ x \in Int
  BY BandFits DEF IsShift, IsPoint
<1>2. ASSUME NEW e \in E PROVE z \in SpanStroke(frame, r, shift, e).pixels
         <=> InBand(frame, r, shift, p) /\ e.from <= col /\ col < e.to
  <2>1. e.from \in Nat /\ e.to \in Int
    BY DEF WellSpanned
  <2> DEFINE x0 == shift[1] + e.from * FontW   w == (e.to - e.from) * FontW
  <2>2. x0 \in Int /\ w \in Int
    BY <1>1, <2>1
  <2>3. SpanStroke(frame, r, shift, e).pixels = Rect(x0, y, w, h)
    BY DEF SpanStroke, Stroke
  <2>4. z \in Rect(x0, y, w, h) <=> x0 <= p[1] /\ p[1] < x0 + w /\ y <= p[2] /\ p[2] < y + h
    <3>1. y \in Int /\ h \in Int
      BY <1>1
    <3> HIDE DEF x0, w, y, h
    <3> QED
      BY <1>1, <2>2, <3>1, InRect
  <2>5. (x0 <= p[1] /\ p[1] < x0 + w) <=> (e.from * FontW <= x /\ x < e.from * FontW + (e.to - e.from) * FontW)
    <3> DEFINE fw == e.from * FontW
    <3>1. fw \in Int
      BY <1>1, <2>1
    <3>2. x0 = shift[1] + fw
      OBVIOUS
    <3> HIDE DEF fw, x0, w
    <3> DEFINE d == p[1]   k == shift[1]
    <3>3. d \in Int /\ k \in Int /\ x = d - k
      BY <1>1
    <3> HIDE DEF d, k
    <3>4. (x0 <= d /\ d < x0 + w) <=> (fw <= x /\ x < fw + w)
      BY <2>2, <3>1, <3>2, <3>3 DEF k
    <3> QED
      BY <3>4 DEF d, fw, w
  <2>6. (e.from * FontW <= x /\ x < e.from * FontW + (e.to - e.from) * FontW)
          <=> (x >= 0 /\ e.from <= x \div FontW /\ x \div FontW < e.to)
    <3> DEFINE from == e.from   to == e.to
    <3>1. from \in Nat /\ to \in Int
      BY <2>1
    <3> HIDE DEF from, to, x
    <3>2. (from * FontW <= x /\ x < from * FontW + (to - from) * FontW) <=> (x >= 0 /\ from <= x \div FontW /\ x \div FontW < to)
      BY <1>1, <3>1, CellOfPlace
    <3> QED
      BY <3>2 DEF from, to
  <2>7. (x >= 0 /\ e.from <= x \div FontW /\ x \div FontW < e.to) <=> (e.from <= col /\ col < e.to)
    <3>1. CASE x >= 0
      <4>1. col = x \div FontW
        BY <1>1, <3>1 DEF ColumnAt
      <4> HIDE DEF col, x
      <4> QED
        BY <3>1, <4>1
    <3>2. CASE ~ (x >= 0)
      <4>1. col = -1
        BY <1>1, <3>2 DEF ColumnAt
      <4> HIDE DEF col, x
      <4> QED
        BY <2>1, <3>2, <4>1
    <3> QED
      BY <3>1, <3>2
  <2> QED
    BY <2>3, <2>4, <2>5, <2>6, <2>7 DEF InBand
<1>3. IsFiniteSet(B)
  BY PartsAreLists
<1> DEFINE n == Len(q)
<1>4. n \in Nat /\ (\A i \in 1 .. n : q[i] \in B) /\ \A b \in B : \E i \in 1 .. n : q[i] = b
  <2> HIDE DEF B
  <2> QED
    BY <1>3, ListsSet
<1>5. \A b \in B : b.color = "fg"
  BY DEF SpanStrokes, SpanStroke, Stroke
<1>6. (\E b \in B : z \in b.pixels) <=> InBand(frame, r, shift, p) /\ In(E, r, col)
  <2>1. \A b : b \in B <=> \E e \in E : e.row = r /\ b = SpanStroke(frame, r, shift, e)
    BY DEF SpanStrokes
  <2>2. In(E, r, col) <=> \E e \in E : e.row = r /\ e.from <= col /\ col < e.to
    BY DEF In
  <2> HIDE DEF B, E, z, col
  <2> QED
    BY <1>2, <2>1, <2>2
<1>7. Paints(z, s, q, t)
  OBVIOUS
<1> HIDE DEF B, q, z, E, col
<1>8. Agree(z, q, "fg")
  BY <1>4, <1>5 DEF n, Agree
<1>9. t = IF Touch(z, q) THEN "fg" ELSE s
  BY <1>7, <1>8, OneColor
<1>10. Touch(z, q) <=> \E b \in B : z \in b.pixels
  BY <1>4 DEF n, Touch
<1> QED
  BY <1>6, <1>9, <1>10 DEF E, col

LEMMA InkInCell ==
  ASSUME NEW ch, NEW tall, NEW d \in Glyph(ch, tall)
  PROVE  d \in (0 .. FontW - 1) \X (0 .. tall - 1)
BY DEF Glyph, Scaled

LEMMA TextPaints ==
  ASSUME Height \in Int, NEW frame, NEW r, HasPlace(frame, r), NEW shift, IsShift(shift), NEW p, IsPoint(p),
         NEW s, NEW t, Paints(Turned(p), s, TextOf(frame, r, shift), t)
  PROVE  t = IF InBand(frame, r, shift, p) /\ HasInk(frame, r, shift, p)
             THEN TextColor(frame, r, ColumnAt(shift, p)) ELSE s
<1> DEFINE q == TextOf(frame, r, shift)   z == Turned(p)
           y == RowTop(frame, r, shift)   h == RowPlace(frame, r).tall
           x == p[1] - shift[1]   col == ColumnAt(shift, p)
           glyph(k) == Glyph(frame.rows[r][k], h)
           d1 == x % FontW   d2 == p[2] - y
<1>1. /\ y \in Nat /\ h \in Nat /\ FontW \in Nat \ {0} /\ shift[1] \in Nat /\ p = <<p[1], p[2]>>
      /\ p[1] \in Int /\ p[2] \in Int /\ x \in Int /\ RowWidth \in Nat
  BY BandFits, RowsAssumption DEF IsShift, IsPoint
<1>2. ASSUME NEW k \in 0 .. RowWidth - 1
      PROVE  z \in InkAt(frame, r, shift, k) <=> InBand(frame, r, shift, p) /\ col = k /\ <<d1, d2>> \in glyph(k)
  <2>1. ASSUME NEW d \in glyph(k), z = Turned(<<shift[1] + k * FontW + d[1], y + d[2]>>)
        PROVE  InBand(frame, r, shift, p) /\ col = k /\ <<d1, d2>> = d
    <3>1. d \in (0 .. FontW - 1) \X (0 .. h - 1)
      BY <2>1, InkInCell
    <3> DEFINE a == d[1]   b == d[2]   kw == k * FontW
    <3>2. a \in 0 .. FontW - 1 /\ b \in 0 .. h - 1 /\ d = <<a, b>> /\ kw \in Nat
      BY <1>1, <3>1
    <3>3. <<shift[1] + kw + a, y + b>> \in Int \X Int
      <4> HIDE DEF a, b, kw, y, h
      <4> QED
        BY <1>1, <3>2
    <3>4. p = <<shift[1] + kw + a, y + b>>
      <4> DEFINE v == <<shift[1] + kw + a, y + b>>
      <4>1. v \in Int \X Int /\ p \in Int \X Int /\ Turned(p) = Turned(v)
        BY <2>1, <3>3 DEF IsPoint
      <4> HIDE DEF v
      <4>2. p = v
        BY <4>1, TurnsApart
      <4> QED
        BY <4>2 DEF v
    <3> HIDE DEF a, b
    <3>5. x = kw + a /\ p[2] = y + b
      <4> HIDE DEF kw, y
      <4>1. p[1] = shift[1] + kw + a /\ p[2] = y + b
        BY <3>4
      <4> QED
        BY <1>1, <3>2, <4>1
    <3>6. x >= 0 /\ x \div FontW = k /\ d1 = a
      <4>1. k \in Nat
        OBVIOUS
      <4> HIDE DEF x
      <4>2. x = k * FontW + a
        BY <3>5
      <4>3. \A j \in Nat, m \in 0 .. FontW - 1 :
              x = j * FontW + m => x >= 0 /\ x \div FontW = j /\ x % FontW = m
        BY <1>1, CellOfPlace
      <4> HIDE DEF a
      <4> QED
        BY <3>2, <4>1, <4>2, <4>3, Zenon
    <3>7. col = k
      BY <1>1, <3>6 DEF ColumnAt
    <3>8. d2 = b /\ InBand(frame, r, shift, p)
      <4>1. InBand(frame, r, shift, p) <=> y <= p[2] /\ p[2] < y + h
        BY DEF InBand
      <4> HIDE DEF y, h
      <4> QED
        BY <1>1, <3>2, <3>5, <4>1
    <3> HIDE DEF d1, d2
    <3> QED
      BY <3>2, <3>6, <3>7, <3>8
  <2>2. ASSUME InBand(frame, r, shift, p), col = k, <<d1, d2>> \in glyph(k)
        PROVE  z = Turned(<<shift[1] + k * FontW + <<d1, d2>>[1], y + <<d1, d2>>[2]>>)
    <3>1. k \in Nat
      OBVIOUS
    <3>2. x >= 0 /\ x \div FontW = k
      BY <1>1, <2>2, <3>1 DEF ColumnAt
    <3>3. x = k * FontW + d1 /\ d1 \in 0 .. FontW - 1
      <4> HIDE DEF x
      <4>1. x = (x \div FontW) * FontW + (x % FontW) /\ x % FontW \in 0 .. FontW - 1
        BY <1>1, <3>2, CellOfPlace
      <4> QED
        BY <3>2, <4>1
    <3> DEFINE kw == k * FontW   a == d1   b == d2
    <3>4. kw \in Nat /\ a \in Nat /\ b \in Int /\ b = p[2] - y /\ x = kw + a
      BY <1>1, <3>1, <3>3
    <3> HIDE DEF a, b, kw
    <3>5. p[1] = shift[1] + kw + a /\ p[2] = y + b
      <4> HIDE DEF y
      <4> QED
        BY <1>1, <3>4
    <3>6. p = <<shift[1] + kw + a, y + b>>
      BY <1>1, <3>5
    <3> QED
      BY <3>6 DEF a, b, kw
  <2>3. \A w : w \in InkAt(frame, r, shift, k)
          <=> \E d \in glyph(k) : w = Turned(<<shift[1] + k * FontW + d[1], y + d[2]>>)
    BY DEF InkAt
  <2> HIDE DEF z, d1, d2, glyph, y, col
  <2>4. z \in InkAt(frame, r, shift, k)
          <=> \E d \in glyph(k) : z = Turned(<<shift[1] + k * FontW + d[1], y + d[2]>>)
    BY <2>3
  <2> QED
    BY <2>1, <2>2, <2>4
<1>3. Len(q) = RowWidth /\ \A i \in 1 .. RowWidth :
        q[i].pixels = InkAt(frame, r, shift, i - 1) /\ q[i].color = TextColor(frame, r, i - 1)
  BY <1>1 DEF TextOf, InkStroke, Stroke
<1> DEFINE ink == InBand(frame, r, shift, p) /\ HasInk(frame, r, shift, p)
<1>4. ink <=> InBand(frame, r, shift, p) /\ col \in 0 .. RowWidth - 1 /\ <<d1, d2>> \in glyph(col)
  BY DEF HasInk
<1>5. Paints(z, s, q, t)
  OBVIOUS
<1> HIDE DEF q, z, d1, d2, glyph, col, ink, y, h, x
<1>6. ASSUME NEW i \in 1 .. RowWidth
      PROVE  /\ z \in q[i].pixels <=> ink /\ col = i - 1
             /\ col = i - 1 => q[i].color = TextColor(frame, r, col)
  <2>1. i - 1 \in 0 .. RowWidth - 1
    BY <1>1
  <2>2. z \in q[i].pixels <=> InBand(frame, r, shift, p) /\ col = i - 1 /\ <<d1, d2>> \in glyph(i - 1)
    BY <1>2, <1>3, <2>1
  <2> QED
    BY <1>3, <1>4, <2>1, <2>2
<1> DEFINE c == TextColor(frame, r, col)
<1>7. Agree(z, q, c)
  BY <1>1, <1>3, <1>6 DEF Agree
<1>8. Touch(z, q) <=> ink
  <2>1. Touch(z, q) <=> \E i \in 1 .. RowWidth : z \in q[i].pixels
    BY <1>3 DEF Touch
  <2>2. ink => col + 1 \in 1 .. RowWidth /\ col + 1 - 1 = col
    BY <1>1, <1>4
  <2>3. ASSUME NEW i \in 1 .. RowWidth, z \in q[i].pixels PROVE ink
    BY <1>6, <2>3
  <2>4. ASSUME ink PROVE \E i \in 1 .. RowWidth : z \in q[i].pixels
    <3>1. PICK j : j = col + 1
      OBVIOUS
    <3>2. j \in 1 .. RowWidth /\ col = j - 1
      <4>1. col \in Int
        BY <1>4, <2>4
      <4> QED
        BY <2>2, <2>4, <3>1, <4>1
    <3>3. z \in q[j].pixels
      BY <1>6, <2>4, <3>2
    <3> QED
      BY <3>2, <3>3
  <2> QED
    BY <2>1, <2>3, <2>4
<1> HIDE DEF c
<1>9. t = IF Touch(z, q) THEN c ELSE s
  BY <1>5, <1>7, OneColor
<1> QED
  BY <1>8, <1>9 DEF c, ink, col

LEMMA RowPaints ==
  ASSUME Height \in Int, NEW frame, NEW r, HasPlace(frame, r), WellSpanned(Emphasised(frame, r)),
         NEW shift, IsShift(shift), NEW p \in Pixels, IsPoint(p),
         NEW s, NEW t, Paints(Turned(p), s, RowStrokes(frame, r, shift), t)
  PROVE  t = RowShade(frame, r, shift, p, s)
<1> DEFINE z == Turned(p)
<1>1. PICK u, v : /\ Paints(z, s, BarOf(frame, r, shift), u)
                  /\ Paints(z, u, SetToSeq(SpanStrokes(frame, r, shift)), v)
                  /\ Paints(z, v, TextOf(frame, r, shift), t)
  <2> HIDE DEF z
  <2>1. Paints(z, s, RowStrokes(frame, r, shift), t)
    BY DEF z
  <2> QED
    BY <2>1, RowPaintsInThree
<1>2. u = IF frame.invertedRow = r /\ InBand(frame, r, shift, p) THEN "fg" ELSE s
  BY <1>1, BarPaints
<1>3. v = IF InBand(frame, r, shift, p) /\ In(Emphasised(frame, r), r, ColumnAt(shift, p)) THEN "fg" ELSE u
  BY <1>1, SpansPaint
<1>4. t = IF InBand(frame, r, shift, p) /\ HasInk(frame, r, shift, p)
          THEN TextColor(frame, r, ColumnAt(shift, p)) ELSE v
  BY <1>1, TextPaints
<1> QED
  BY <1>2, <1>3, <1>4 DEF RowShade

-----------------------------------------------------------------------------
(* The rows of a frame, one below the other.                               *)

EvenRows(frame, n, tall) ==
  /\ n \in Nat \ {0} /\ tall \in Nat \ {0} /\ DOMAIN frame.rows = 0 .. n - 1
  /\ \A r \in 0 .. n - 1 : RowPlace(frame, r) = [y |-> r * tall, tall |-> tall]
WellFormed(frame) ==
  /\ \E n, tall : EvenRows(frame, n, tall)
  /\ WellSpanned(frame.inverted) /\ WellSpanned(frame.failed)

PixelShade(frame, shift, p, t) ==
  /\ \A r \in DOMAIN frame.rows : InBand(frame, r, shift, p) => t = RowShade(frame, r, shift, p, "bg")
  /\ (\A r \in DOMAIN frame.rows : ~ InBand(frame, r, shift, p)) => t = "bg"

RowsOf(frame, shift) == [r \in 1 .. Cardinality(DOMAIN frame.rows) |-> RowStrokes(frame, r - 1, shift)]

LEMMA PixelsArePoints == ASSUME Height \in Nat, NEW p \in Pixels PROVE IsPoint(p)
<1> DEFINE H == Height
<1>1. H \in Nat /\ Width \in Nat
  BY PanelsAssumption
<1>2. p \in (0 .. Width - 1) \X (0 .. H - 1)
  BY DEF Pixels
<1> HIDE DEF H
<1> QED
  BY <1>1, <1>2 DEF IsPoint

LEMMA RowsArePlaced ==
  ASSUME NEW frame, NEW n, NEW tall, EvenRows(frame, n, tall)
  PROVE  /\ \A r \in 0 .. n - 1 : HasPlace(frame, r)
         /\ Cardinality(DOMAIN frame.rows) = n /\ IsFiniteSet(DOMAIN frame.rows)
<1>1. n \in Nat \ {0} /\ tall \in Nat \ {0} /\ DOMAIN frame.rows = 0 .. n - 1
  BY DEF EvenRows
<1>2. ASSUME NEW r \in 0 .. n - 1 PROVE HasPlace(frame, r)
  <2>1. RowPlace(frame, r) = [y |-> r * tall, tall |-> tall]
    BY DEF EvenRows
  <2>2. r * tall \in Nat
    BY <1>1
  <2> QED
    BY <1>1, <2>1, <2>2 DEF HasPlace
<1>3. Cardinality(0 .. n - 1) = n /\ IsFiniteSet(0 .. n - 1)
  <2>1. 0 \in Int /\ n - 1 \in Int /\ ~ (0 > n - 1) /\ (n - 1) - 0 + 1 = n
    BY <1>1
  <2> QED
    BY <2>1, FS_Interval
<1> QED
  BY <1>1, <1>2, <1>3

LEMMA OneBand ==
  ASSUME NEW frame, NEW n, NEW tall, EvenRows(frame, n, tall), NEW shift, IsShift(shift), NEW p, IsPoint(p),
         NEW r \in 0 .. n - 1, NEW q \in 0 .. n - 1, InBand(frame, r, shift, p), InBand(frame, q, shift, p)
  PROVE  r = q
<1> DEFINE y == p[2] - shift[2]
<1>1. n \in Nat \ {0} /\ tall \in Nat \ {0} /\ y \in Int /\ p[2] \in Int /\ shift[2] \in Nat
  BY DEF EvenRows, IsPoint, IsShift
<1>2. ASSUME NEW i \in 0 .. n - 1, InBand(frame, i, shift, p) PROVE y >= 0 /\ y \div tall = i
  <2>1. RowPlace(frame, i) = [y |-> i * tall, tall |-> tall]
    BY DEF EvenRows
  <2> DEFINE it == i * tall
  <2>2. i \in Nat /\ it \in Nat
    BY <1>1
  <2>3. it + shift[2] <= p[2] /\ p[2] < it + shift[2] + tall
    BY <1>2, <2>1 DEF InBand, RowTop
  <2>4. y - it \in 0 .. tall - 1 /\ y = it + (y - it)
    <3> HIDE DEF it
    <3> QED
      BY <1>1, <2>2, <2>3
  <2> DEFINE m == y - it
  <2>5. m \in 0 .. tall - 1 /\ y = i * tall + m
    BY <2>4
  <2> HIDE DEF y, m
  <2> QED
    BY <1>1, <2>2, <2>5, CellOfPlace
<1> HIDE DEF y
<1> QED
  BY <1>2

LEMMA RowsPaint ==
  ASSUME Height \in Nat, NEW frame, WellFormed(frame), \A r \in DOMAIN frame.rows : WellSpanned(Emphasised(frame, r)),
         NEW shift, IsShift(shift), NEW p \in Pixels,
         NEW t, Paints(Turned(p), "bg", FlattenSeq(RowsOf(frame, shift)), t)
  PROVE  PixelShade(frame, shift, p, t)
<1> DEFINE z == Turned(p)   rows == RowsOf(frame, shift)
           S == UNION {RowDabs(frame, r, shift) : r \in DOMAIN frame.rows}
           band(r) == InBand(frame, r, shift, p)
           shade(r, s) == RowShade(frame, r, shift, p, s)
<1>1. PICK n, tall : EvenRows(frame, n, tall)
  BY DEF WellFormed
<1>2. n \in Nat \ {0} /\ DOMAIN frame.rows = 0 .. n - 1 /\ IsPoint(p) /\ Height \in Int
  BY <1>1, PixelsArePoints DEF EvenRows
<1>3. (\A r \in 0 .. n - 1 : HasPlace(frame, r)) /\ Cardinality(DOMAIN frame.rows) = n
  BY <1>1, RowsArePlaced
<1>4. rows = [r \in 1 .. n |-> RowStrokes(frame, r - 1, shift)]
  BY <1>3 DEF RowsOf
<1>5. ASSUME NEW r \in 1 .. n PROVE rows[r] = RowStrokes(frame, r - 1, shift) /\ rows[r] \in Seq(S)
  <2>1. r - 1 \in 0 .. n - 1
    BY <1>2
  <2>2. RowStrokes(frame, r - 1, shift) \in Seq(RowDabs(frame, r - 1, shift))
    BY <1>2, <2>1, PartsAreLists
  <2>3. RowDabs(frame, r - 1, shift) \subseteq S
    BY <1>2, <2>1
  <2> DEFINE q == RowStrokes(frame, r - 1, shift)   D == RowDabs(frame, r - 1, shift)
  <2> HIDE DEF S, q, D
  <2>4. q \in Seq(S)
    BY <2>2, <2>3 DEF q, D
  <2>5. rows[r] = q
    BY <1>4 DEF q
  <2> QED
    BY <2>4, <2>5 DEF q
<1>6. rows \in Seq(Seq(S)) /\ rows # <<>> /\ Len(rows) = n
  <2>1. DOMAIN rows = 1 .. n /\ rows = [r \in 1 .. n |-> rows[r]]
    BY <1>4
  <2> HIDE DEF rows, S
  <2>2. rows \in Seq(Seq(S)) /\ Len(rows) = n
    BY <1>2, <1>5, <2>1
  <2> QED
    BY <1>2, <2>2
<1>7. PICK u : PaintedParts(z, "bg", rows, n, t, u)
  <2>1. Paints(z, "bg", FlattenSeq(rows), t)
    OBVIOUS
  <2> HIDE DEF rows, S, z
  <2> QED
    BY <1>6, <2>1, PaintsInParts
<1>8. u[0] = "bg" /\ u[n] = t
  BY <1>7 DEF PaintedParts
<1>9. ASSUME NEW k \in 1 .. n PROVE u[k] = shade(k - 1, u[k - 1])
  <2>1. k - 1 \in 0 .. n - 1
    BY <1>2
  <2>2. Paints(z, u[k - 1], RowStrokes(frame, k - 1, shift), u[k])
    BY <1>5, <1>7 DEF PaintedParts
  <2> QED
    BY <1>2, <1>3, <2>1, <2>2, RowPaints
<1>10. \A r, q \in 0 .. n - 1 : band(r) /\ band(q) => r = q
  BY <1>1, <1>2, OneBand
<1>11. \A r, s : ~ band(r) => shade(r, s) = s
  BY DEF RowShade
<1> HIDE DEF z, rows, S, band, shade
<1> DEFINE Done(k) == /\ \A r \in 0 .. k - 1 : band(r) => u[k] = shade(r, "bg")
                      /\ (\A r \in 0 .. k - 1 : ~ band(r)) => u[k] = "bg"
           T == {k \in 0 .. n : ~ Done(k)}
<1>12. ASSUME NEW k \in T, \A j \in T : k <= j PROVE FALSE
  <2>1. CASE k = 0
    <3>1. 0 .. 0 - 1 = {}
      OBVIOUS
    <3>2. Done(0)
      BY <1>8, <3>1
    <3> QED
      BY <2>1, <3>2
  <2>2. CASE k # 0
    <3>1. k \in 1 .. n /\ k - 1 \in 0 .. n /\ k - 1 \in 0 .. n - 1 /\ ~ (k <= k - 1)
      BY <1>2, <2>2
    <3>2. Done(k - 1)
      BY <1>12, <3>1
    <3>3. u[k] = shade(k - 1, u[k - 1])
      BY <1>9, <3>1
    <3>4. \A r : r \in 0 .. k - 1 <=> r \in 0 .. k - 1 - 1 \/ r = k - 1
      BY <3>1
    <3>5. \A r \in 0 .. k - 1 : r \in 0 .. n - 1
      BY <1>2, <3>1
    <3>6. CASE band(k - 1)
      <4>1. \A r \in 0 .. k - 1 - 1 : ~ band(r)
        <5>1. SUFFICES ASSUME NEW r \in 0 .. k - 1 - 1, band(r) PROVE FALSE
          OBVIOUS
        <5>2. r \in 0 .. n - 1 /\ r # k - 1
          BY <1>2, <3>1
        <5> QED
          BY <1>10, <3>1, <3>6, <5>1, <5>2
      <4>2. u[k - 1] = "bg"
        BY <3>2, <4>1
      <4>3. Done(k)
        <5>1. ASSUME NEW r \in 0 .. k - 1, band(r) PROVE u[k] = shade(r, "bg")
          <6>1. r = k - 1
            BY <3>4, <4>1, <5>1
          <6> QED
            BY <3>3, <4>2, <6>1
        <5>2. k - 1 \in 0 .. k - 1
          BY <3>1
        <5> QED
          BY <3>6, <5>1, <5>2
      <4> QED
        BY <4>3
    <3>7. CASE ~ band(k - 1)
      <4>1. u[k] = u[k - 1]
        BY <1>11, <3>3, <3>7
      <4>2. ASSUME NEW r \in 0 .. k - 1, band(r) PROVE u[k] = shade(r, "bg")
        <5>1. r \in 0 .. k - 1 - 1
          BY <3>4, <3>7, <4>2
        <5> QED
          BY <3>2, <4>1, <4>2, <5>1
      <4>3. ASSUME \A r \in 0 .. k - 1 : ~ band(r) PROVE u[k] = "bg"
        <5>1. \A r \in 0 .. k - 1 - 1 : ~ band(r)
          BY <3>4, <4>3
        <5> QED
          BY <3>2, <4>1, <5>1
      <4>4. Done(k)
        BY <4>2, <4>3
      <4> QED
        BY <4>4
    <3> QED
      BY <3>6, <3>7
  <2> QED
    BY <2>1, <2>2
<1>13. T = {}
  <2>1. T \in SUBSET Nat
    BY <1>2
  <2> HIDE DEF T
  <2> QED
    BY <1>12, <2>1, FirstOf
<1>14. Done(n)
  <2>1. n \in 0 .. n
    BY <1>2
  <2> QED
    BY <1>13, <2>1
<1> QED
  BY <1>2, <1>8, <1>14 DEF PixelShade, band, shade

LEMMA OneOfTwo ==
  ASSUME NEW m \in Int, NEW n \in Int
  PROVE  /\ Max({m, n}) \in {m, n} /\ m <= Max({m, n}) /\ n <= Max({m, n})
         /\ Min({m, n}) \in {m, n} /\ Min({m, n}) <= m /\ Min({m, n}) <= n
<1> DEFINE S == {m, n}
<1>1. (\E x \in S : \A y \in S : x >= y) /\ (\E x \in S : \A y \in S : x <= y)
  <2>1. CASE m <= n
    BY <2>1
  <2>2. CASE ~ (m <= n)
    BY <2>2
  <2> QED
    BY <2>1, <2>2
<1>2. m \in S /\ n \in S
  OBVIOUS
<1> HIDE DEF S
<1>3. Max(S) \in S /\ \A y \in S : Max(S) >= y
  <2>1. PICK x : x = Max(S)
    OBVIOUS
  <2>2. x \in S /\ \A y \in S : x >= y
    BY <1>1, <2>1 DEF Max
  <2> QED
    BY <2>1, <2>2
<1>4. Min(S) \in S /\ \A y \in S : Min(S) <= y
  <2>1. PICK x : x = Min(S)
    OBVIOUS
  <2>2. x \in S /\ \A y \in S : x <= y
    BY <1>1, <2>1 DEF Min
  <2> QED
    BY <2>1, <2>2
<1>5. \A x \in S : x \in Int
  BY DEF S
<1>6. m <= Max(S) /\ n <= Max(S)
  <2>1. PICK x \in S : x = Max(S)
    BY <1>3
  <2>2. x >= m /\ x >= n /\ x \in Int
    BY <1>2, <1>3, <1>5, <2>1
  <2> QED
    BY <2>1, <2>2
<1> QED
  BY <1>2, <1>3, <1>4, <1>6 DEF S

LEMMA ShiftIsShort == ASSUME NEW a \in Apps PROVE IsShift(ShiftOffset(a.tick))
<1>1. a.tick \in Nat
  BY PanelsAssumption
<1>2. a.tick % 4 \in 0 .. 3
  BY <1>1
<1>3. (a.tick % 4) + 1 \in {1, 2, 3, 4}
  BY <1>2
<1> DEFINE q == <<<<0, 0>>, <<1, 0>>, <<1, 1>>, <<0, 1>>>>
<1>4. \A i \in {1, 2, 3, 4} : q[i][1] \in Nat /\ q[i][2] \in Nat
  OBVIOUS
<1> QED
  BY <1>3, <1>4 DEF ShiftOffset, IsShift

LEMMA MarksFit ==
  ASSUME kind \in Kinds, NEW a \in Apps
  PROVE  /\ Marks(a) \subseteq Int /\ IsFiniteSet(Marks(a)) /\ MarkY \in Int
         /\ Mark.width \in Int /\ Mark.tall \in Int
<1>1. /\ Mark.width \in Nat /\ Mark.tall \in Nat /\ Mark.gap \in Nat /\ Mark.position \in {"left", "center", "right"}
      /\ Width \in Nat /\ a.bucket \in Nat
  BY PanelsAssumption
<1>2. Height \in Nat
  BY AddressFits
<1>3. MarkY \in Int
  <2> DEFINE d == Height - Mark.tall - Mark.gap
  <2>1. d \in Int /\ 0 \in Int
    BY <1>1, <1>2
  <2> HIDE DEF d
  <2>2. Max({0, d}) \in {0, d}
    BY <2>1, OneOfTwo
  <2>3. Max({0, d}) \in Int
    BY <2>1, <2>2
  <2> QED
    BY <2>3 DEF MarkY, d
<1> DEFINE room == Width - 1 * Mark.width   most == Max({0, room})   half == Max({0, room \div 2})
           anchor == CASE Mark.position = "left" -> 0 [] Mark.position = "center" -> half [] Mark.position = "right" -> most
           path == <<0, 1, 2, 3, 4, 3, 2, 1>>
           place == anchor + path[(a.bucket % 8) + 1] * Mark.width
           start == Min({most, place})
           left(k) == Max({0, Min({Width - Mark.width, start + k * Mark.width})})
<1>4. Marks(a) = {left(k) : k \in 0 .. 1 - 1}
  BY DEF Marks, HeartbeatPixels
<1>5. room \in Int /\ room \div 2 \in Int
  BY <1>1
<1> HIDE DEF room
<1>6. most \in Int /\ half \in Int
  <2>1. Max({0, room}) \in {0, room}
    BY <1>5, OneOfTwo
  <2> DEFINE h == room \div 2
  <2>2. h \in Int /\ 0 \in Int
    BY <1>5
  <2> HIDE DEF h
  <2>3. Max({0, h}) \in {0, h}
    BY <2>2, OneOfTwo
  <2>4. Max({0, room}) \in Int /\ Max({0, h}) \in Int
    BY <1>5, <2>1, <2>2, <2>3
  <2> QED
    BY <2>4 DEF h
<1> HIDE DEF most, half
<1>7. anchor \in Int
  BY <1>1, <1>6
<1> HIDE DEF anchor
<1>8. path[(a.bucket % 8) + 1] \in Int
  <2>1. a.bucket % 8 \in 0 .. 7
    BY <1>1
  <2>2. (a.bucket % 8) + 1 \in {1, 2, 3, 4, 5, 6, 7, 8}
    BY <2>1
  <2>3. \A i \in {1, 2, 3, 4, 5, 6, 7, 8} : path[i] \in Int
    OBVIOUS
  <2> HIDE DEF path
  <2> QED
    BY <2>2, <2>3
<1>9. place \in Int
  <2> DEFINE i == path[(a.bucket % 8) + 1]
  <2>1. i \in Int
    BY <1>8
  <2> HIDE DEF i, path
  <2>2. anchor + i * Mark.width \in Int
    BY <1>1, <1>7, <2>1
  <2> QED
    BY <2>2 DEF i
<1> HIDE DEF place
<1>10. start \in Int
  <2>1. Min({most, place}) \in {most, place}
    BY <1>6, <1>9, OneOfTwo
  <2> QED
    BY <1>6, <1>9, <2>1
<1> HIDE DEF start
<1>11. ASSUME NEW k \in 0 .. 1 - 1 PROVE left(k) \in Int
  <2> DEFINE b == Width - Mark.width   c == start + k * Mark.width   m == Min({b, c})
  <2>1. b \in Int /\ c \in Int
    BY <1>1, <1>10
  <2> HIDE DEF b, c
  <2>2. m \in {b, c}
    BY <2>1, OneOfTwo
  <2>3. m \in Int
    BY <2>1, <2>2
  <2> HIDE DEF m
  <2>4. Max({0, m}) \in {0, m}
    BY <2>3, OneOfTwo
  <2>5. Max({0, m}) \in Int
    BY <2>3, <2>4
  <2> QED
    BY <2>5 DEF m, b, c
<1>12. Marks(a) = {left(0)}
  BY <1>4
<1> HIDE DEF left
<1>13. IsFiniteSet(Marks(a))
  BY <1>12, FS_Singleton
<1>14. Marks(a) \subseteq Int
  BY <1>4, <1>11
<1> QED
  BY <1>1, <1>3, <1>13, <1>14

OnMark(a, p) == p[2] \in MarkY .. MarkY + Mark.tall - 1 /\ \E m \in Marks(a) : p[1] \in m .. m + Mark.width - 1
MarkSet(a) == {Stroke(Rect(x, MarkY, Mark.width, Mark.tall), "fg") : x \in Marks(a)}

LEMMA MarksPaint ==
  ASSUME kind \in Kinds, NEW a \in Apps, NEW p, IsPoint(p), NEW s, NEW t, Paints(Turned(p), s, MarkStrokes(a), t)
  PROVE  t = IF OnMark(a, p) THEN "fg" ELSE s
<1> DEFINE B == MarkSet(a)   q == SetToSeq(B)   z == Turned(p)   n == Len(q)
<1>1. /\ Marks(a) \subseteq Int /\ IsFiniteSet(Marks(a)) /\ MarkY \in Int /\ Mark.width \in Int /\ Mark.tall \in Int
      /\ Height \in Int /\ p \in Int \X Int /\ p[1] \in Int /\ p[2] \in Int
  BY MarksFit, AddressFits DEF IsPoint
<1>2. ASSUME NEW x \in Marks(a)
      PROVE  z \in Rect(x, MarkY, Mark.width, Mark.tall)
               <=> p[1] \in x .. x + Mark.width - 1 /\ p[2] \in MarkY .. MarkY + Mark.tall - 1
  <2>1. x \in Int
    BY <1>1
  <2> DEFINE w == Mark.width   h == Mark.tall   y == MarkY
  <2>2. y \in Int /\ w \in Int /\ h \in Int
    BY <1>1
  <2> HIDE DEF w, h, y
  <2>3. z \in Rect(x, y, w, h) <=> x <= p[1] /\ p[1] < x + w /\ y <= p[2] /\ p[2] < y + h
    BY <1>1, <2>1, <2>2, InRect
  <2> HIDE DEF z
  <2>4. z \in Rect(x, y, w, h) <=> p[1] \in x .. x + w - 1 /\ p[2] \in y .. y + h - 1
    BY <1>1, <2>1, <2>2, <2>3
  <2> QED
    BY <2>4 DEF w, h, y
<1>3. IsFiniteSet(B)
  <2> DEFINE I == Marks(a)   f == [x \in I |-> Stroke(Rect(x, MarkY, Mark.width, Mark.tall), "fg")]
  <2>1. \A b \in B : \E x \in I : f[x] = b
    BY DEF MarkSet
  <2> HIDE DEF B, I, f
  <2>2. IsFiniteSet(I)
    BY <1>1 DEF I
  <2> QED
    BY <2>1, <2>2, NamedIsFinite
<1>4. n \in Nat /\ (\A i \in 1 .. n : q[i] \in B) /\ \A b \in B : \E i \in 1 .. n : q[i] = b
  <2> HIDE DEF B
  <2> QED
    BY <1>3, ListsSet
<1>5. \A b \in B : b.color = "fg"
  BY DEF MarkSet, Stroke
<1>6. (\E b \in B : z \in b.pixels) <=> OnMark(a, p)
  <2>1. \A b : b \in B <=> \E x \in Marks(a) : b = Stroke(Rect(x, MarkY, Mark.width, Mark.tall), "fg")
    BY DEF MarkSet
  <2>2. \A x : Stroke(Rect(x, MarkY, Mark.width, Mark.tall), "fg").pixels = Rect(x, MarkY, Mark.width, Mark.tall)
    BY DEF Stroke
  <2> HIDE DEF B, z
  <2> QED
    BY <1>2, <2>1, <2>2 DEF OnMark
<1>7. Paints(z, s, q, t)
  BY DEF MarkStrokes, MarkSet
<1> HIDE DEF B, q, z
<1>8. Agree(z, q, "fg")
  BY <1>4, <1>5 DEF n, Agree
<1>9. t = IF Touch(z, q) THEN "fg" ELSE s
  BY <1>7, <1>8, OneColor
<1>10. Touch(z, q) <=> \E b \in B : z \in b.pixels
  BY <1>4 DEF n, Touch
<1> QED
  BY <1>6, <1>9, <1>10

-----------------------------------------------------------------------------
(* The whole frame.                                                        *)

LEMMA EmphasisIsSpanned ==
  ASSUME NEW frame, NEW r, WellSpanned(frame.inverted), WellSpanned(frame.failed)
  PROVE  WellSpanned(Emphasised(frame, r))
<1> DEFINE A == frame.inverted   B == frame.failed   C == IF HasAccent(kind) \/ frame.invertedRow = r THEN {} ELSE B
<1>1. IsFiniteSet(A) /\ IsFiniteSet(B) /\ \A s \in A \cup B : s.from \in Nat /\ s.to \in Int
  BY DEF WellSpanned
<1>2. IsFiniteSet(C) /\ C \subseteq B
  <2>1. IsFiniteSet({})
    BY FS_EmptySet
  <2> HIDE DEF B
  <2> QED
    BY <1>1, <2>1
<1> HIDE DEF A, B, C
<1>3. IsFiniteSet(A \cup C)
  BY <1>1, <1>2, FS_Union
<1>4. \A s \in A \cup C : s.from \in Nat /\ s.to \in Int
  BY <1>1, <1>2
<1>5. Emphasised(frame, r) = A \cup C
  BY DEF Emphasised, A, B, C
<1> QED
  BY <1>3, <1>4, <1>5 DEF WellSpanned

(* The colour InFrame gives a pixel, in the terms of the rows' strokes.    *)
LEMMA ShadeIsInFrame ==
  ASSUME kind \in Kinds, NEW a \in Apps, WellFormed(FrameOf(a)), NEW p \in Pixels, NEW c,
         PixelShade(FrameOf(a), ShiftOffset(a.tick), p, c)
  PROVE  InFrame(a, p) = IF OnMark(a, p) THEN "fg" ELSE c
<1> DEFINE frame == FrameOf(a)   shift == ShiftOffset(a.tick)   x == p[1] - shift[1]   y == p[2] - shift[2]
           here == {r \in DOMAIN frame.rows : RowPlace(frame, r).y <= y /\ y < RowPlace(frame, r).y + RowPlace(frame, r).tall}
           row == CHOOSE i \in here : TRUE
           col == IF x < 0 THEN -1 ELSE x \div FontW
           ink(r) == /\ col \in 0 .. RowWidth - 1
                     /\ <<x % FontW, y - RowPlace(frame, r).y>> \in Glyph(frame.rows[r][col], RowPlace(frame, r).tall)
           failed(r) == In(frame.failed, r, col)
           strong(r) == frame.invertedRow = r \/ In(frame.inverted, r, col) \/ (failed(r) /\ ~ HasAccent(kind))
           shade(r) == IF ink(r) THEN (IF strong(r) THEN "bg" ELSE IF failed(r) THEN "accent" ELSE "fg")
                       ELSE IF strong(r) THEN "fg" ELSE "bg"
<1>1. InFrame(a, p) = IF OnMark(a, p) THEN "fg" ELSE IF here = {} THEN "bg" ELSE shade(row)
  BY DEF InFrame, InRows, OnMark
<1>2. PICK n, tall : EvenRows(frame, n, tall)
  BY DEF WellFormed
<1>3. /\ DOMAIN frame.rows = 0 .. n - 1 /\ \A r \in DOMAIN frame.rows : HasPlace(frame, r)
      /\ p[1] \in Int /\ p[2] \in Int /\ shift[1] \in Nat /\ shift[2] \in Nat
  BY <1>2, RowsArePlaced, PixelsArePoints, AddressFits, ShiftIsShort DEF EvenRows, IsPoint, IsShift
<1>4. ASSUME NEW r \in DOMAIN frame.rows
      PROVE  /\ InBand(frame, r, shift, p) <=> r \in here
             /\ InBand(frame, r, shift, p) => RowShade(frame, r, shift, p, "bg") = shade(r)
  <2> DEFINE top == RowPlace(frame, r).y   h == RowPlace(frame, r).tall
  <2>1. top \in Nat /\ h \in Nat
    BY <1>3 DEF HasPlace
  <2>2. InBand(frame, r, shift, p) <=> r \in here
    <3>1. InBand(frame, r, shift, p) <=> top + shift[2] <= p[2] /\ p[2] < top + shift[2] + h
      BY DEF InBand, RowTop
    <3>2. r \in here <=> top <= y /\ y < top + h
      OBVIOUS
    <3> DEFINE k == shift[2]   j == p[2]
    <3> HIDE DEF top, h, here
    <3>3. k \in Nat /\ j \in Int /\ y = j - k
      BY <1>3
    <3> HIDE DEF k, j, y
    <3>4. (top + k <= j /\ j < top + k + h) <=> (top <= y /\ y < top + h)
      BY <2>1, <3>3
    <3> QED
      BY <3>1, <3>2, <3>4 DEF k, j
  <2>3. ColumnAt(shift, p) = col
    BY DEF ColumnAt
  <2>4. p[2] - RowTop(frame, r, shift) = y - top
    <3> DEFINE k == shift[2]   j == p[2]
    <3>1. RowTop(frame, r, shift) = top + k
      BY DEF RowTop
    <3>2. k \in Nat /\ j \in Int /\ y = j - k
      BY <1>3
    <3> HIDE DEF k, j, y, top
    <3>3. j - (top + k) = y - top
      BY <2>1, <3>2
    <3> QED
      BY <3>1, <3>3 DEF j
  <2>5. HasInk(frame, r, shift, p) <=> ink(r)
    <3> HIDE DEF y
    <3> QED
      BY <2>3, <2>4 DEF HasInk
  <2>6. \A A, B : In(A \cup B, r, col) <=> In(A, r, col) \/ In(B, r, col)
    <3> HIDE DEF col
    <3> QED
      BY DEF In
  <2>7. ~ In({}, r, col)
    BY DEF In
  <2> DEFINE E == IF HasAccent(kind) \/ frame.invertedRow = r THEN {} ELSE frame.failed
  <2>8. Emphasised(frame, r) = frame.inverted \cup E
    BY DEF Emphasised
  <2>9. In(E, r, col) <=> failed(r) /\ ~ HasAccent(kind) /\ frame.invertedRow # r
    <3>1. CASE HasAccent(kind) \/ frame.invertedRow = r
      <4>1. E = {}
        BY <3>1
      <4> QED
        BY <2>7, <3>1, <4>1
    <3>2. CASE ~ (HasAccent(kind) \/ frame.invertedRow = r)
      <4>1. E = frame.failed
        BY <3>2
      <4> QED
        BY <3>2, <4>1
    <3> QED
      BY <3>1, <3>2
  <2> HIDE DEF E, col, ink, frame
  <2>10. (frame.invertedRow = r \/ In(Emphasised(frame, r), r, col)) <=> strong(r)
    BY <2>6, <2>8, <2>9
  <2>11. TextColor(frame, r, col) = IF strong(r) THEN "bg" ELSE IF HasAccent(kind) /\ failed(r) THEN "accent" ELSE "fg"
    BY <2>10 DEF TextColor
  <2>12. ~ strong(r) /\ failed(r) => HasAccent(kind)
    OBVIOUS
  <2> DEFINE strange == frame.invertedRow = r \/ In(Emphasised(frame, r), r, col)
  <2>13. InBand(frame, r, shift, p) => RowShade(frame, r, shift, p, "bg")
            = IF ink(r) THEN TextColor(frame, r, col) ELSE IF strange THEN "fg" ELSE "bg"
    BY <2>3, <2>5 DEF RowShade
  <2>14. strange <=> strong(r)
    BY <2>10
  <2> HIDE DEF strange, strong, failed
  <2>15. InBand(frame, r, shift, p) => RowShade(frame, r, shift, p, "bg") = shade(r)
    BY <2>11, <2>12, <2>13, <2>14
  <2> QED
    BY <2>2, <2>15
<1>5. here \subseteq DOMAIN frame.rows
  OBVIOUS
<1>6. c = IF here = {} THEN "bg" ELSE shade(row)
  <2>1. /\ \A r \in DOMAIN frame.rows : InBand(frame, r, shift, p) => c = RowShade(frame, r, shift, p, "bg")
        /\ (\A r \in DOMAIN frame.rows : ~ InBand(frame, r, shift, p)) => c = "bg"
    BY DEF PixelShade
  <2> HIDE DEF here, frame, shift, shade
  <2>2. CASE here = {}
    BY <1>4, <2>1, <2>2
  <2>3. CASE here # {}
    <3>1. row \in here
      BY <2>3
    <3> HIDE DEF row
    <3>2. c = shade(row)
      BY <1>4, <1>5, <2>1, <3>1
    <3> QED
      BY <2>3, <3>2
  <2> QED
    BY <2>2, <2>3
<1> HIDE DEF here, shade, row
<1> QED
  BY <1>1, <1>6

LEMMA FrameIsList ==
  ASSUME kind \in Kinds, NEW a \in Apps, WellFormed(FrameOf(a))
  PROVE  \E S : FlattenSeq(RowsOf(FrameOf(a), ShiftOffset(a.tick))) \in Seq(S) /\ MarkStrokes(a) \in Seq(S)
<1> DEFINE frame == FrameOf(a)   shift == ShiftOffset(a.tick)   rows == RowsOf(frame, shift)
           S == (UNION {RowDabs(frame, r, shift) : r \in DOMAIN frame.rows}) \cup MarkSet(a)
           first == FlattenSeq(rows)   last == MarkStrokes(a)
<1>1. \A r : WellSpanned(Emphasised(frame, r))
  BY EmphasisIsSpanned DEF WellFormed
<1>2. PICK n, tall : EvenRows(frame, n, tall)
  BY DEF WellFormed
<1>3. n \in Nat \ {0} /\ DOMAIN frame.rows = 0 .. n - 1 /\ Cardinality(DOMAIN frame.rows) = n
  BY <1>2, RowsArePlaced DEF EvenRows
<1>4. ASSUME NEW r \in 1 .. n PROVE rows[r] \in Seq(S)
  <2>1. r - 1 \in 0 .. n - 1
    BY <1>3
  <2> DEFINE q == RowStrokes(frame, r - 1, shift)   D == RowDabs(frame, r - 1, shift)
  <2>2. q \in Seq(D)
    BY <1>1, PartsAreLists
  <2>3. D \subseteq S
    BY <1>3, <2>1
  <2>4. rows[r] = q
    BY <1>3 DEF RowsOf
  <2> HIDE DEF S, q, D, rows
  <2>5. q \in Seq(S)
    BY <2>2, <2>3
  <2> QED
    BY <2>4, <2>5
<1>5. first \in Seq(S)
  <2>1. rows = [r \in 1 .. n |-> rows[r]]
    BY <1>3 DEF RowsOf
  <2> HIDE DEF rows, S
  <2>2. rows \in Seq(Seq(S))
    BY <1>3, <1>4, <2>1
  <2> QED
    BY <2>2, Flat
<1>6. last \in Seq(S)
  <2> DEFINE B == MarkSet(a)
  <2>1. IsFiniteSet(B)
    <3> DEFINE I == Marks(a)   f == [x \in I |-> Stroke(Rect(x, MarkY, Mark.width, Mark.tall), "fg")]
    <3>1. \A b \in B : \E x \in I : f[x] = b
      BY DEF MarkSet
    <3>2. IsFiniteSet(I)
      BY MarksFit
    <3> HIDE DEF B, I, f
    <3> QED
      BY <3>1, <3>2, NamedIsFinite
  <2>2. last = SetToSeq(B)
    BY DEF MarkStrokes, MarkSet
  <2>3. B \subseteq S
    OBVIOUS
  <2> HIDE DEF B, S, last
  <2>4. SetToSeq(B) \in Seq(B)
    BY <2>1, ListsSet
  <2> QED
    BY <2>2, <2>3, <2>4
<1> HIDE DEF S
<1> QED
  BY <1>5, <1>6

LEMMA FramePaints ==
  ASSUME kind \in Kinds, NEW a \in Apps, WellFormed(FrameOf(a)), NEW p \in Pixels,
         NEW t, Paints(Turned(p), "bg", FrameStrokes(a), t)
  PROVE  t = InFrame(a, p)
<1> DEFINE frame == FrameOf(a)   shift == ShiftOffset(a.tick)   rows == RowsOf(frame, shift)   z == Turned(p)
           first == FlattenSeq(rows)   last == MarkStrokes(a)
<1>1. FrameStrokes(a) = first \o last
  BY DEF FrameStrokes, RowsOf
<1>2. Height \in Nat /\ Height \in Int /\ IsPoint(p) /\ IsShift(shift)
  BY AddressFits, PixelsArePoints, ShiftIsShort
<1>3. \A r : WellSpanned(Emphasised(frame, r))
  BY EmphasisIsSpanned DEF WellFormed
<1>4. PICK S : first \in Seq(S) /\ last \in Seq(S)
  BY FrameIsList
<1> HIDE DEF first, last, z
<1>5. Paints(z, "bg", first \o last, t)
  BY <1>1 DEF z
<1>6. PICK c : Paints(z, "bg", first, c) /\ Paints(z, c, last, t)
  BY <1>4, <1>5, PaintsInTwo
<1>7. PixelShade(frame, shift, p, c)
  <2>1. Paints(Turned(p), "bg", FlattenSeq(RowsOf(frame, shift)), c)
    BY <1>6 DEF first, z
  <2> HIDE DEF rows, frame, shift
  <2> QED
    BY <1>2, <1>3, <2>1, RowsPaint DEF frame
<1>8. t = IF OnMark(a, p) THEN "fg" ELSE c
  <2>1. Paints(Turned(p), c, MarkStrokes(a), t)
    BY <1>6 DEF last, z
  <2> QED
    BY <1>2, <2>1, MarksPaint
<1>9. InFrame(a, p) = IF OnMark(a, p) THEN "fg" ELSE c
  BY <1>7, ShadeIsInFrame
<1> QED
  BY <1>8, <1>9

LEMMA FrameHasLength ==
  ASSUME kind \in Kinds, NEW a \in Apps, WellFormed(FrameOf(a))
  PROVE  Len(FrameStrokes(a)) \in Nat /\ DOMAIN FrameStrokes(a) = 1 .. Len(FrameStrokes(a))
<1> DEFINE first == FlattenSeq(RowsOf(FrameOf(a), ShiftOffset(a.tick)))   last == MarkStrokes(a)
<1>1. FrameStrokes(a) = first \o last
  BY DEF FrameStrokes, RowsOf
<1>2. PICK S : first \in Seq(S) /\ last \in Seq(S)
  BY FrameIsList
<1> HIDE DEF first, last
<1>3. first \o last \in Seq(S)
  BY <1>2
<1> QED
  BY <1>1, <1>3

-----------------------------------------------------------------------------
(* The boot logo.                                                          *)

LEMMA GreatestOf ==
  ASSUME NEW n \in Nat, NEW s \in SUBSET (0 .. n), s # {}
  PROVE  Max(s) \in s
<1> DEFINE T == {n - m : m \in s}
<1>1. T \in SUBSET Nat /\ T # {}
  <2>1. \A m \in s : n - m \in Nat
    OBVIOUS
  <2> QED
    BY <2>1
<1>2. PICK k \in T : \A j \in T : k <= j
  <2> HIDE DEF T
  <2> QED
    BY <1>1, FirstOf
<1>3. PICK m \in s : k = n - m
  BY <1>2
<1>4. \A j \in s : m >= j
  <2>1. SUFFICES ASSUME NEW j \in s PROVE m >= j
    OBVIOUS
  <2>2. n - j \in T
    OBVIOUS
  <2>3. k <= n - j
    BY <1>2, <2>2
  <2> QED
    BY <1>3, <2>3
<1> QED
  BY <1>4 DEF Max

LEMMA FontIsNumber ==
  ASSUME NEW length \in Nat \ {0}, NEW limit \in Int
  PROVE  LogoFont(length, limit) \in Nat
<1> DEFINE inset == Max({Logo.pad, Width \div 16})
           room == Max({Logo.least, Width - 2 * inset})
           share == Min({room \div length, limit})
           candidate == Clamped(share)
           fits == {f \in 1 .. candidate : LogoTextWidth(length, f) <= room}
           sizes == {Logo.least} \cup fits
<1>1. LogoFont(length, limit) = Max(sizes)
  BY DEF LogoFont
<1>2. Logo.least \in Nat /\ Logo.most \in Nat /\ Logo.pad \in Nat /\ Width \in Nat
  BY PanelsAssumption
<1>3. inset \in Int
  <2> DEFINE d == Width \div 16
  <2>1. d \in Int /\ Logo.pad \in Int
    BY <1>2
  <2> HIDE DEF d
  <2>2. Max({Logo.pad, d}) \in {Logo.pad, d}
    BY <2>1, OneOfTwo
  <2>3. Max({Logo.pad, d}) \in Int
    BY <2>1, <2>2
  <2> QED
    BY <2>3 DEF d
<1> HIDE DEF inset
<1>4. room \in Int
  <2> DEFINE d == Width - 2 * inset
  <2>1. d \in Int /\ Logo.least \in Int
    BY <1>2, <1>3
  <2> HIDE DEF d
  <2>2. Max({Logo.least, d}) \in {Logo.least, d}
    BY <2>1, OneOfTwo
  <2>3. Max({Logo.least, d}) \in Int
    BY <2>1, <2>2
  <2> QED
    BY <2>3 DEF d
<1> HIDE DEF room
<1>5. share \in Int
  <2> DEFINE d == room \div length
  <2>1. d \in Int
    BY <1>4
  <2> HIDE DEF d
  <2>2. Min({d, limit}) \in {d, limit}
    BY <2>1, OneOfTwo
  <2>3. Min({d, limit}) \in Int
    BY <2>1, <2>2
  <2> QED
    BY <2>3 DEF d
<1> HIDE DEF share
<1>6. candidate \in Nat /\ Logo.least <= candidate
  <2> DEFINE d == Min({Logo.most, share})   l == Logo.least
  <2>1. l \in Int /\ Logo.most \in Int
    BY <1>2
  <2>2. d \in {Logo.most, share}
    BY <1>5, <2>1, OneOfTwo
  <2>3. d \in Int
    BY <1>5, <2>1, <2>2
  <2> HIDE DEF d, l
  <2>4. Max({l, d}) \in {l, d} /\ l <= Max({l, d})
    BY <2>1, <2>3, OneOfTwo
  <2>5. candidate = Max({l, d})
    BY DEF Clamped, d, l
  <2>6. l \in Nat
    BY <1>2 DEF l
  <2>7. candidate \in {l, d} /\ l <= candidate
    BY <2>4, <2>5
  <2> HIDE DEF candidate
  <2>8. candidate \in Nat
    BY <2>1, <2>3, <2>6, <2>7
  <2> QED
    BY <2>7, <2>8 DEF l
<1> HIDE DEF candidate
<1>7. sizes \in SUBSET (0 .. candidate) /\ sizes # {}
  BY <1>2, <1>6
<1> HIDE DEF sizes
<1>8. Max(sizes) \in sizes
  BY <1>6, <1>7, GreatestOf
<1>9. \A m \in 0 .. candidate : m \in Nat
  BY <1>6
<1>10. Max(sizes) \in 0 .. candidate
  BY <1>7, <1>8
<1>11. Max(sizes) \in Nat
  BY <1>9, <1>10
<1> QED
  BY <1>1, <1>11

Letters == [x : Int, y : Int, size : Int]

LogoText(length, size, y) ==
  [i \in 1 .. length |-> [x |-> Max({0, (Width - LogoTextWidth(length, size)) \div 2}) + (i - 1) * (size + LogoSpacing(size)),
                          y |-> y, size |-> size]]

LEMMA TextIsLetters ==
  ASSUME NEW length \in Nat \ {0}, NEW size \in Int, NEW y \in Int
  PROVE  LogoText(length, size, y) \in Seq(Letters)
<1> DEFINE gap == LogoSpacing(size)
           left == Max({0, (Width - LogoTextWidth(length, size)) \div 2})
<1>1. gap \in Int
  <2> DEFINE d == size \div 8
  <2>1. d \in Int /\ 1 \in Int
    OBVIOUS
  <2> HIDE DEF d
  <2>2. Max({1, d}) \in {1, d}
    BY <2>1, OneOfTwo
  <2>3. Max({1, d}) \in Int
    BY <2>1, <2>2
  <2> QED
    BY <2>3 DEF LogoSpacing, d
<1> HIDE DEF gap
<1>2. left \in Int
  <2> DEFINE w == LogoTextWidth(length, size)   d == (Width - w) \div 2
  <2>1. w = length * size + (length - 1) * gap
    BY DEF LogoTextWidth, gap
  <2>2. w \in Int
    <3>1. length * size \in Int /\ (length - 1) * gap \in Int
      BY <1>1
    <3> HIDE DEF w
    <3> QED
      BY <2>1, <3>1
  <2> HIDE DEF w
  <2>3. d \in Int /\ 0 \in Int
    BY <2>2, PanelsAssumption
  <2> HIDE DEF d
  <2>4. Max({0, d}) \in {0, d}
    BY <2>3, OneOfTwo
  <2>5. Max({0, d}) \in Int
    BY <2>3, <2>4
  <2> QED
    BY <2>5 DEF d, w
<1>3. LogoText(length, size, y) = [i \in 1 .. length |-> [x |-> left + (i - 1) * (size + gap), y |-> y, size |-> size]]
  BY DEF LogoText, gap
<1> HIDE DEF left
<1>4. \A i \in 1 .. length : left + (i - 1) * (size + gap) \in Int
  <2>1. SUFFICES ASSUME NEW i \in 1 .. length PROVE left + (i - 1) * (size + gap) \in Int
    OBVIOUS
  <2>2. (i - 1) * (size + gap) \in Int
    BY <1>1
  <2> QED
    BY <1>2, <2>2
<1>5. \A i \in 1 .. length : [x |-> left + (i - 1) * (size + gap), y |-> y, size |-> size] \in Letters
  BY <1>4 DEF Letters
<1> QED
  BY <1>3, <1>5

LEMMA LogoIsLetters == kind \in Kinds => LogoLetters \in Seq(Letters)
<1> SUFFICES ASSUME kind \in Kinds PROVE LogoLetters \in Seq(Letters)
  OBVIOUS
<1> DEFINE H == Height
           title == LogoFont(Logo.title, (H * 55) \div 100)
           limit == Min({((H - title) * 60) \div 100, (title * 2) \div 3})
           version == LogoFont(Logo.version, limit)
           gap == Max({Logo.gap, H \div 16})
           top == Max({0, (H - (title + gap + version)) \div 2})
<1>1. LogoLetters = LogoText(Logo.title, title, top) \o LogoText(Logo.version, version, top + title + gap)
  BY DEF LogoLetters, LogoText
<1>2. H \in Nat /\ Logo.title \in Nat \ {0} /\ Logo.version \in Nat \ {0} /\ Logo.gap \in Nat
  BY AddressFits, PanelsAssumption
<1> HIDE DEF H
<1>3. title \in Nat
  <2> DEFINE d == (H * 55) \div 100
  <2>1. d \in Int
    BY <1>2
  <2> HIDE DEF d
  <2>2. LogoFont(Logo.title, d) \in Nat
    BY <1>2, <2>1, FontIsNumber
  <2> QED
    BY <2>2 DEF d
<1> HIDE DEF title
<1>4. limit \in Int
  <2> DEFINE d == ((H - title) * 60) \div 100   e == (title * 2) \div 3
  <2>1. d \in Int /\ e \in Int
    BY <1>2, <1>3
  <2> HIDE DEF d, e
  <2>2. Min({d, e}) \in {d, e}
    BY <2>1, OneOfTwo
  <2>3. Min({d, e}) \in Int
    BY <2>1, <2>2
  <2> QED
    BY <2>3 DEF d, e
<1> HIDE DEF limit
<1>5. version \in Nat
  BY <1>2, <1>4, FontIsNumber
<1> HIDE DEF version
<1>6. gap \in Int
  <2> DEFINE d == H \div 16   e == Logo.gap
  <2>1. d \in Int /\ e \in Int
    BY <1>2
  <2> HIDE DEF d, e
  <2>2. Max({e, d}) \in {e, d}
    BY <2>1, OneOfTwo
  <2>3. Max({e, d}) \in Int
    BY <2>1, <2>2
  <2> QED
    BY <2>3 DEF d, e
<1> HIDE DEF gap
<1>7. top \in Int
  <2> DEFINE d == (H - (title + gap + version)) \div 2
  <2>1. d \in Int /\ 0 \in Int
    BY <1>2, <1>3, <1>5, <1>6
  <2> HIDE DEF d
  <2>2. Max({0, d}) \in {0, d}
    BY <2>1, OneOfTwo
  <2>3. Max({0, d}) \in Int
    BY <2>1, <2>2
  <2> QED
    BY <2>3 DEF d
<1> HIDE DEF top
<1>8. top + title + gap \in Int
  BY <1>3, <1>6, <1>7
<1> DEFINE q == LogoText(Logo.title, title, top)   r == LogoText(Logo.version, version, top + title + gap)
<1>9. q \in Seq(Letters)
  <2>1. Logo.title \in Nat \ {0} /\ title \in Int /\ top \in Int
    BY <1>2, <1>3, <1>7
  <2> QED
    BY <2>1, TextIsLetters
<1>10. r \in Seq(Letters)
  <2> DEFINE y == top + title + gap
  <2>1. Logo.version \in Nat \ {0} /\ version \in Int /\ y \in Int
    BY <1>2, <1>5, <1>8
  <2> HIDE DEF y
  <2>2. LogoText(Logo.version, version, y) \in Seq(Letters)
    BY <2>1, TextIsLetters
  <2> QED
    BY <2>2 DEF y
<1> HIDE DEF q, r
<1>11. q \o r \in Seq(Letters)
  BY <1>9, <1>10
<1> QED
  BY <1>1, <1>11 DEF q, r

OnLogo(p) == \E i \in DOMAIN LogoLetters : p \in InkOf(LogoLetters[i])

LEMMA LogoPaints ==
  ASSUME kind \in Kinds, NEW p, IsPoint(p)
  PROVE  /\ Len(LogoStrokes) \in Nat /\ DOMAIN LogoStrokes = 1 .. Len(LogoStrokes)
         /\ \A t : Paints(Turned(p), "bg", LogoStrokes, t) => t = IF OnLogo(p) THEN "fg" ELSE "bg"
<1> DEFINE n == Len(LogoLetters)   z == Turned(p)
<1>1. n \in Nat /\ DOMAIN LogoLetters = 1 .. n /\ \A i \in 1 .. n : LogoLetters[i] \in Letters
  <2> DEFINE q == LogoLetters
  <2>1. q \in Seq(Letters)
    BY LogoIsLetters
  <2> HIDE DEF q
  <2>2. Len(q) \in Nat /\ DOMAIN q = 1 .. Len(q) /\ \A i \in 1 .. Len(q) : q[i] \in Letters
    BY <2>1
  <2> QED
    BY <2>2 DEF q
<1> HIDE DEF n
<1>2. LogoStrokes = [i \in 1 .. n |-> Stroke({Turned(q) : q \in InkOf(LogoLetters[i])}, "fg")]
  BY <1>1 DEF LogoStrokes
<1>3. Len(LogoStrokes) = n /\ DOMAIN LogoStrokes = 1 .. n
  <2> DEFINE s(i) == Stroke({Turned(q) : q \in InkOf(LogoLetters[i])}, "fg")   S == {s(i) : i \in 1 .. n}   l == LogoStrokes
  <2>1. l = [i \in 1 .. n |-> s(i)] /\ \A i \in 1 .. n : s(i) \in S
    BY <1>2
  <2> HIDE DEF l, s, S
  <2>2. l \in Seq(S) /\ Len(l) = n /\ DOMAIN l = 1 .. n
    BY <1>1, <2>1
  <2> QED
    BY <2>2 DEF l
<1>4. ASSUME NEW i \in 1 .. n
      PROVE  /\ LogoStrokes[i].color = "fg"
             /\ z \in LogoStrokes[i].pixels <=> p \in InkOf(LogoLetters[i])
  <2> DEFINE letter == LogoLetters[i]
  <2>1. letter \in Letters
    BY <1>1
  <2>2. LogoStrokes[i] = Stroke({Turned(q) : q \in InkOf(letter)}, "fg")
    BY <1>2
  <2> HIDE DEF letter
  <2>3. \A q \in InkOf(letter) : q \in Int \X Int
    <3>1. SUFFICES ASSUME NEW d \in Scaled(Shape["n"], letter.size, letter.size)
                   PROVE  <<letter.x + d[1], letter.y + d[2]>> \in Int \X Int
      BY DEF InkOf
    <3>2. d \in (0 .. letter.size - 1) \X (0 .. letter.size - 1)
      BY <3>1 DEF Scaled
    <3>3. d[1] \in Int /\ d[2] \in Int /\ letter.x \in Int /\ letter.y \in Int
      BY <2>1, <3>2 DEF Letters
    <3> QED
      BY <3>3
  <2>4. LogoStrokes[i].color = "fg" /\ LogoStrokes[i].pixels = {Turned(q) : q \in InkOf(letter)}
    BY <2>2 DEF Stroke
  <2>5. \A q \in InkOf(letter) : Turned(p) = Turned(q) => p = q
    <3>1. Height \in Int /\ p \in Int \X Int
      BY AddressFits DEF IsPoint
    <3> QED
      BY <2>3, <3>1, TurnsApart
  <2>6. z \in {Turned(q) : q \in InkOf(letter)} <=> p \in InkOf(letter)
    BY <2>5
  <2> QED
    BY <2>4, <2>6 DEF letter
<1>5. ASSUME NEW t, Paints(z, "bg", LogoStrokes, t) PROVE t = IF OnLogo(p) THEN "fg" ELSE "bg"
  <2> HIDE DEF z
  <2>1. Agree(z, LogoStrokes, "fg")
    BY <1>1, <1>3, <1>4 DEF Agree
  <2>2. t = IF Touch(z, LogoStrokes) THEN "fg" ELSE "bg"
    BY <1>5, <2>1, OneColor
  <2>3. Touch(z, LogoStrokes) <=> OnLogo(p)
    BY <1>1, <1>3, <1>4 DEF Touch, OnLogo
  <2> QED
    BY <2>2, <2>3
<1> QED
  BY <1>1, <1>3, <1>5

LEMMA CanvasIsWanted ==
  ASSUME kind \in Kinds, NEW a \in Apps, a.mode # "logo" => WellFormed(FrameOf(a)), NEW p \in Pixels
  PROVE  Turned(p) \in Pixels /\ Canvas(a)[Turned(p)] = Wanted(a, p)
<1> DEFINE z == Turned(p)   strokes == Strokes(a)   t == FoldLeft(Apply, [x \in Pixels |-> "bg"], strokes)[z]
<1>1. Height \in Nat \ {0} /\ IsPoint(p) /\ Width \in Nat \ {0}
  BY AddressFits, PixelsArePoints, PanelsAssumption
<1>2. z \in Pixels
  <2> DEFINE H == Height
  <2>1. H \in Nat \ {0} /\ p \in (0 .. Width - 1) \X (0 .. H - 1)
    BY <1>1 DEF Pixels
  <2>2. z = IF rotation = 180 THEN <<Width - 1 - p[1], H - 1 - p[2]>> ELSE p
    BY DEF Turned
  <2> HIDE DEF H, z
  <2>3. z \in (0 .. Width - 1) \X (0 .. H - 1)
    BY <1>1, <2>1, <2>2
  <2> QED
    BY <2>3 DEF Pixels, H
<1>3. Len(strokes) \in Nat /\ DOMAIN strokes = 1 .. Len(strokes)
  BY <1>1, LogoPaints, FrameHasLength DEF Strokes
<1>4. Paints(z, "bg", strokes, t)
  <2> HIDE DEF strokes, z
  <2> QED
    BY <1>2, <1>3, CanvasPaints
<1>5. t = Canvas(a)[z]
  BY DEF Canvas
<1> HIDE DEF t
<1>6. CASE a.mode = "logo"
  <2>1. Paints(Turned(p), "bg", LogoStrokes, t)
    BY <1>4, <1>6 DEF Strokes
  <2>2. t = IF OnLogo(p) THEN "fg" ELSE "bg"
    BY <1>1, <2>1, LogoPaints
  <2> QED
    BY <1>2, <1>5, <1>6, <2>2 DEF Wanted, OnLogo
<1>7. CASE a.mode # "logo"
  <2>1. Paints(Turned(p), "bg", FrameStrokes(a), t)
    BY <1>4, <1>7 DEF Strokes
  <2>2. t = InFrame(a, p)
    BY <1>7, <2>1, FramePaints
  <2> QED
    BY <1>2, <1>5, <1>7, <2>2 DEF Wanted
<1> QED
  BY <1>6, <1>7

-----------------------------------------------------------------------------
(* Every frame is made of even rows and of finitely many spans.            *)

LEMMA PageHasRows == kind \in Kinds => PageSize \in Nat \ {0}
<1> SUFFICES ASSUME kind \in Kinds PROVE PageSize \in Nat \ {0}
  OBVIOUS
<1> DEFINE d == (Height - Reserved) \div FontH
<1>1. Height \in Nat /\ FontH \in Nat \ {0} /\ Mark.tall \in Nat /\ Mark.gap \in Nat
  BY AddressFits, PanelsAssumption
<1>2. Reserved \in Int
  BY <1>1 DEF Reserved
<1>3. d \in Int
  <2> DEFINE h == Height - Reserved
  <2>1. h \in Int
    BY <1>1, <1>2
  <2> HIDE DEF h
  <2>2. h \div FontH \in Int
    BY <1>1, <2>1
  <2> QED
    BY <2>2 DEF h
<1> HIDE DEF d
<1>4. 1 \in Int /\ Max({1, d}) \in {1, d} /\ 1 <= Max({1, d})
  <2>1. \A e \in Int, f \in Int : Max({e, f}) \in {e, f} /\ e <= Max({e, f})
    BY OneOfTwo
  <2>2. 1 \in Int
    OBVIOUS
  <2> QED
    BY <1>3, <2>1, <2>2, Zenon
<1> DEFINE m == Max({1, d})
<1>5. m \in {1, d} /\ 1 <= m
  BY <1>4
<1> HIDE DEF m
<1>6. m \in Nat \ {0}
  BY <1>3, <1>5
<1> QED
  BY <1>6 DEF PageSize, m, d

LEMMA NoSpans == WellSpanned({})
BY FS_EmptySet DEF WellSpanned

(* Spans that a finite set of places names.                                *)
LEMMA SpansOf ==
  ASSUME NEW I, IsFiniteSet(I), NEW f, NEW spans,
         \A s \in spans : \E i \in I : f[i] = s,
         \A i \in I : f[i].from \in Nat /\ f[i].to \in Int
  PROVE  WellSpanned(spans)
<1>1. IsFiniteSet(spans)
  BY NamedIsFinite
<1> QED
  BY <1>1 DEF WellSpanned

LEMMA PlainFrame ==
  ASSUME NEW rows, NEW n \in Nat \ {0}, DOMAIN rows = 0 .. n - 1, NEW row, NEW inverted, NEW failed,
         WellSpanned(inverted), WellSpanned(failed)
  PROVE  WellFormed(Frame(rows, row, inverted, failed))
<1> DEFINE f == Frame(rows, row, inverted, failed)
<1>1. f.rows = rows /\ f.inverted = inverted /\ f.failed = failed /\ f.layout = None
  BY DEF Frame
<1> HIDE DEF f
<1>2. \A r : RowPlace(f, r) = [y |-> r * FontH, tall |-> FontH]
  BY <1>1 DEF RowPlace
<1>3. FontH \in Nat \ {0}
  BY PanelsAssumption
<1>4. EvenRows(f, n, FontH)
  BY <1>1, <1>2, <1>3 DEF EvenRows
<1> QED
  BY <1>1, <1>4 DEF WellFormed, f

LEMMA TextIsFramed == ASSUME NEW n \in Nat \ {0} PROVE WellFormed(TextFrame(n)) /\ WellFormed(IdleFrame(n))
<1>1. \A rows : DOMAIN Filled(rows, n) = 0 .. n - 1
  BY DEF Filled
<1>2. WellFormed(TextFrame(n))
  BY <1>1, NoSpans, PlainFrame DEF TextFrame
<1> DEFINE rows == [r \in 0 .. n - 1 |-> IF r = (n - 1) \div 2 THEN Row({RowWidth \div 2}, "n") ELSE BlankRow]
<1>3. DOMAIN rows = 0 .. n - 1 /\ IdleFrame(n) = Frame(rows, None, {}, {})
  BY DEF IdleFrame
<1> HIDE DEF rows
<1>4. WellFormed(Frame(rows, None, {}, {}))
  BY <1>3, NoSpans, PlainFrame
<1> QED
  BY <1>2, <1>3, <1>4

LEMMA DetailIsFramed == ASSUME NEW n \in Nat \ {0}, NEW status, NEW selected PROVE WellFormed(DetailFrame(status, selected, n))
<1> DEFINE second == [x \in 0 .. RowWidth - 1 |-> IF x < DetailLabel THEN "n" ELSE IF x = DetailLabel THEN status[selected] ELSE " "]
           rows == Filled(<<Row(0 .. RowWidth - 1, "n"), second>>, n)
           failed == IF status[selected] = "FAIL" THEN {Span(1, DetailLabel, DetailLabel + 1)} ELSE {}
<1>1. DetailFrame(status, selected, n) = Frame(rows, None, {}, failed)
  BY DEF DetailFrame
<1>2. DOMAIN rows = 0 .. n - 1
  BY DEF Filled
<1>3. WellSpanned({Span(1, DetailLabel, DetailLabel + 1)})
  <2> DEFINE s == Span(1, DetailLabel, DetailLabel + 1)
  <2>1. s.from \in Nat /\ s.to \in Int
    BY DEF Span, DetailLabel
  <2> HIDE DEF s
  <2>2. WellSpanned({s})
    BY <2>1, FS_Singleton DEF WellSpanned
  <2> QED
    BY <2>2 DEF s
<1>4. WellSpanned(failed)
  BY <1>3, NoSpans
<1> HIDE DEF rows, failed
<1> QED
  BY <1>1, <1>2, <1>4, NoSpans, PlainFrame

IsPage(page, most) == \E m \in Nat : m <= most /\ DOMAIN page = 1 .. m /\ Len(page) = m

LEMMA PageIsShort ==
  ASSUME NEW mode, NEW status, NEW most \in Nat
  PROVE  IsPage(PageOf(mode, status, most), most)
<1> DEFINE S == {i \in DOMAIN Checks : status[Checks[i]] # "OK"}
           places == Ranked(S, LAMBDA i, j : i < j)
           unhealthy == [k \in DOMAIN places |-> Checks[places[k]]]
           checks == IF mode = "compact" /\ unhealthy # <<>> THEN unhealthy ELSE Checks
<1>1. PageOf(mode, status, most) = SubSeq(checks, 1, Min({most, Len(checks)}))
  BY DEF PageOf
<1>2. Checks \in Seq(ToSet(Checks))
  BY RowsAssumption
<1>3. IsFiniteSet(DOMAIN Checks)
  <2> DEFINE T == ToSet(Checks)
  <2>1. Checks \in Seq(T)
    BY <1>2
  <2> HIDE DEF T
  <2>2. Len(Checks) \in Nat /\ DOMAIN Checks = 1 .. Len(Checks)
    BY <2>1
  <2>3. 1 \in Int /\ Len(Checks) \in Int
    BY <2>2
  <2> QED
    BY <2>2, <2>3, FS_Interval
<1>4. Cardinality(S) \in Nat
  <2>1. S \subseteq DOMAIN Checks
    OBVIOUS
  <2> HIDE DEF S
  <2>2. IsFiniteSet(S)
    BY <1>3, <2>1, FS_Subset
  <2> QED
    BY <2>2, FS_CardinalityType
<1>5. DOMAIN places = 1 .. Cardinality(S)
  BY DEF Ranked
<1>6. \E T : checks \in Seq(T)
  <2>1. CASE mode = "compact" /\ unhealthy # <<>>
    <3> DEFINE c(k) == Checks[places[k]]   T == {c(k) : k \in DOMAIN places}   n == Cardinality(S)
    <3>1. unhealthy = [k \in 1 .. n |-> c(k)] /\ \A k \in 1 .. n : c(k) \in T
      BY <1>5
    <3>2. n \in Nat
      BY <1>4
    <3>3. checks = unhealthy
      BY <2>1
    <3> HIDE DEF T, c, places, n, unhealthy
    <3>4. unhealthy \in Seq(T)
      BY <3>1, <3>2
    <3> QED
      BY <3>3, <3>4
  <2>2. CASE ~ (mode = "compact" /\ unhealthy # <<>>)
    <3>1. checks = Checks
      BY <2>2
    <3> HIDE DEF checks
    <3> QED
      BY <1>2, <3>1
  <2> QED
    BY <2>1, <2>2
<1> HIDE DEF checks
<1>7. PICK T : checks \in Seq(T)
  BY <1>6
<1> DEFINE n == Len(checks)   m == Min({most, n})
<1>8. n \in Nat /\ n \in Int /\ most \in Int
  BY <1>7
<1> HIDE DEF n
<1>9. m \in {most, n} /\ m <= most /\ m <= n
  BY <1>8, OneOfTwo
<1> HIDE DEF m
<1>10. m \in Nat
  BY <1>8, <1>9
<1>11. Len(SubSeq(checks, 1, m)) = m /\ DOMAIN SubSeq(checks, 1, m) = 1 .. m
  BY <1>7, <1>9, <1>10 DEF n
<1> QED
  BY <1>1, <1>9, <1>10, <1>11 DEF IsPage, m, n

LEMMA LegacyIsFramed ==
  ASSUME NEW page, NEW most, IsPage(page, most), NEW status, NEW selected, NEW n \in Nat \ {0}
  PROVE  WellFormed(LegacyOverview(page, status, selected, n))
<1> DEFINE rows == Filled([i \in DOMAIN page |-> OverviewRow(status[page[i]])], n)
           row == IF selected \in ToSet(page) THEN (CHOOSE i \in DOMAIN page : page[i] = selected) - 1 ELSE None
           span(i) == Span(i - 1, StatusStart, RowWidth)
           failed == {span(i) : i \in {j \in DOMAIN page : status[page[j]] = "FAIL"}}
<1>1. LegacyOverview(page, status, selected, n) = Frame(rows, row, {}, failed)
  BY DEF LegacyOverview
<1>2. DOMAIN rows = 0 .. n - 1
  BY DEF Filled
<1>3. WellSpanned(failed)
  <2> DEFINE I == DOMAIN page   f == [i \in I |-> span(i)]
  <2>1. IsFiniteSet(I)
    <3>1. PICK m \in Nat : I = 1 .. m
      BY DEF IsPage
    <3> HIDE DEF I
    <3>2. 1 \in Int /\ m \in Int
      OBVIOUS
    <3> QED
      BY <3>1, <3>2, FS_Interval
  <2>2. \A s \in failed : \E i \in I : f[i] = s
    OBVIOUS
  <2>3. \A i \in I : f[i].from = StatusStart /\ f[i].to = RowWidth
    BY DEF Span
  <2>4. StatusStart \in Nat /\ RowWidth \in Nat
    BY RowsAssumption DEF StatusStart
  <2> HIDE DEF I, f, failed
  <2>5. \A i \in I : f[i].from \in Nat /\ f[i].to \in Int
    BY <2>3, <2>4
  <2> QED
    BY <2>1, <2>2, <2>5, SpansOf
<1> HIDE DEF rows, row, failed
<1> QED
  BY <1>1, <1>2, <1>3, NoSpans, PlainFrame

-----------------------------------------------------------------------------
(* The columns of the compact mode.                                        *)

AnyOf(s) == CHOOSE x \in s : TRUE
ColumnSpace(j) == ColumnWidths[j] + 1
IsSpace(f, n) == f = [s \in SUBSET (1 .. n) |-> IF s = {} THEN 0 ELSE ColumnSpace(AnyOf(s)) + f[s \ {AnyOf(s)}]]

PartOf(s, j) == IF j \in s THEN ColumnSpace(j) ELSE 0
SpaceOf(s) == PartOf(s, 1) + PartOf(s, 2) + PartOf(s, 3)

LEMMA SpaceGrows ==
  ASSUME \A j \in 1 .. Columns : ColumnSpace(j) \in Nat, Columns \in 1 .. 4, NEW n \in Nat, n < Columns,
         NEW s \in SUBSET (1 .. n)
  PROVE  SpaceOf({}) = 0 /\ SpaceOf(s) \in Nat /\ \A x \in s : SpaceOf(s) = ColumnSpace(x) + SpaceOf(s \ {x})
<1>1. SpaceOf({}) = 0
  BY DEF SpaceOf, PartOf
<1>2. \A j \in s : j \in {1, 2, 3} /\ ColumnSpace(j) \in Nat
  BY SMT
<1>3. \A j : PartOf(s, j) \in Nat
  BY <1>2 DEF PartOf
<1>4. SpaceOf(s) \in Nat
  BY <1>3 DEF SpaceOf
<1>5. ASSUME NEW x \in s PROVE SpaceOf(s) = ColumnSpace(x) + SpaceOf(s \ {x})
  <2>1. \A j : PartOf(s \ {x}, j) = IF j = x THEN 0 ELSE PartOf(s, j)
    BY DEF PartOf
  <2>2. PartOf(s, x) = ColumnSpace(x)
    BY DEF PartOf
  <2>3. x \in {1, 2, 3} /\ ColumnSpace(x) \in Nat
    BY <1>2
  <2> DEFINE a == PartOf(s, 1)   b == PartOf(s, 2)   c == PartOf(s, 3)   v == s \ {x}
             d == PartOf(v, 1)   e == PartOf(v, 2)   f == PartOf(v, 3)
  <2>4. a \in Nat /\ b \in Nat /\ c \in Nat /\ SpaceOf(s) = a + b + c /\ SpaceOf(v) = d + e + f
    BY <1>3 DEF SpaceOf
  <2>5. /\ d = IF x = 1 THEN 0 ELSE a
        /\ e = IF x = 2 THEN 0 ELSE b
        /\ f = IF x = 3 THEN 0 ELSE c
    BY <2>1
  <2>6. (x = 1 => a = ColumnSpace(x)) /\ (x = 2 => b = ColumnSpace(x)) /\ (x = 3 => c = ColumnSpace(x))
    BY <2>2
  <2> HIDE DEF a, b, c, d, e, f, v
  <2>7. SpaceOf(s) = ColumnSpace(x) + SpaceOf(v)
    BY <2>3, <2>4, <2>5, <2>6
  <2> QED
    BY <2>7 DEF v
<1> QED
  BY <1>1, <1>4, <1>5

LEMMA StartIsSpace ==
  ASSUME \A j \in 1 .. Columns : ColumnSpace(j) \in Nat, Columns \in 1 .. 4, NEW k \in 1 .. Columns
  PROVE  ColumnStart(k) = SpaceOf(1 .. k - 1)
<1> DEFINE n == k - 1   f == CHOOSE h : IsSpace(h, n)
<1>1. n \in Nat /\ n < Columns
  OBVIOUS
<1>2. ColumnStart(k) = f[1 .. n]
  BY DEF ColumnStart, MapThenSumSet, MapThenFoldSet, IsSpace, AnyOf, ColumnSpace
<1> HIDE DEF n
<1> DEFINE g == [s \in SUBSET (1 .. n) |-> SpaceOf(s)]
<1>3. IsSpace(g, n)
  <2>1. ASSUME NEW s \in SUBSET (1 .. n)
        PROVE  SpaceOf(s) = IF s = {} THEN 0 ELSE ColumnSpace(AnyOf(s)) + g[s \ {AnyOf(s)}]
    <3>1. CASE s = {}
      BY <1>1, <3>1, SpaceGrows
    <3>2. CASE s # {}
      <4>1. AnyOf(s) \in s
        BY <3>2 DEF AnyOf
      <4>2. SpaceOf(s) = ColumnSpace(AnyOf(s)) + SpaceOf(s \ {AnyOf(s)})
        BY <1>1, <4>1, SpaceGrows
      <4>3. g[s \ {AnyOf(s)}] = SpaceOf(s \ {AnyOf(s)})
        OBVIOUS
      <4> QED
        BY <3>2, <4>2, <4>3
    <3> QED
      BY <3>1, <3>2
  <2>2. g = [s \in SUBSET (1 .. n) |-> g[s]] /\ \A s \in SUBSET (1 .. n) : g[s] = SpaceOf(s)
    OBVIOUS
  <2> HIDE DEF g
  <2> QED
    BY <2>1, <2>2 DEF IsSpace
<1> HIDE DEF g
<1>4. IsSpace(f, n)
  BY <1>3
<1> HIDE DEF f
<1>5. \A s \in SUBSET (1 .. n) : f[s] = IF s = {} THEN 0 ELSE ColumnSpace(AnyOf(s)) + f[s \ {AnyOf(s)}]
  BY <1>4 DEF IsSpace
<1> DEFINE has(s, j) == IF j \in s THEN 1 ELSE 0
           size(s) == has(s, 1) + has(s, 2) + has(s, 3)
           T == {size(s) : s \in {r \in SUBSET (1 .. n) : f[r] # SpaceOf(r)}}
<1>6. ASSUME NEW m \in T, \A j \in T : m <= j PROVE FALSE
  <2>1. PICK s \in SUBSET (1 .. n) : m = size(s) /\ f[s] # SpaceOf(s)
    BY <1>6
  <2>2. s # {}
    <3>1. f[{}] = 0 /\ SpaceOf({}) = 0
      BY <1>1, <1>5, SpaceGrows
    <3> QED
      BY <2>1, <3>1
  <2> DEFINE x == AnyOf(s)   r == s \ {x}
  <2>3. x \in s /\ r \in SUBSET (1 .. n) /\ f[s] = ColumnSpace(x) + f[r] /\ SpaceOf(s) = ColumnSpace(x) + SpaceOf(r)
    <3>1. x \in s
      BY <2>2 DEF AnyOf
    <3> HIDE DEF x
    <3>2. SpaceOf(s) = ColumnSpace(x) + SpaceOf(s \ {x})
      BY <1>1, <3>1, SpaceGrows
    <3>3. f[s] = ColumnSpace(x) + f[s \ {x}]
      BY <1>5, <2>2 DEF x
    <3> QED
      BY <3>1, <3>2, <3>3
  <2>4. f[r] # SpaceOf(r)
    BY <2>1, <2>3
  <2>5. size(r) \in T
    <3> HIDE DEF r, size
    <3> QED
      BY <2>3, <2>4
  <2>6. size(r) < size(s)
    <3>1. x \in {1, 2, 3}
      <4> HIDE DEF x, r, f, has
      <4>1. x \in 1 .. n
        BY <2>3
      <4> QED
        BY <1>1, <4>1
    <3>2. \A j : has(r, j) = IF j = x THEN 0 ELSE has(s, j)
      OBVIOUS
    <3>3. has(s, x) = 1 /\ \A j : has(s, j) \in {0, 1}
      BY <2>3
    <3> HIDE DEF has, x, r
    <3> QED
      BY <3>1, <3>2, <3>3
  <2>7. size(r) \in Nat /\ size(s) \in Nat
    <3>1. \A v, j : has(v, j) \in {0, 1}
      OBVIOUS
    <3> HIDE DEF has, x, r
    <3> QED
      BY <3>1
  <2>8. size(s) <= size(r)
    BY <1>6, <2>1, <2>5
  <2> HIDE DEF size
  <2> QED
    BY <2>6, <2>7, <2>8
<1>7. T = {}
  <2>1. \A s : size(s) \in Nat
    <3>1. \A v, j : has(v, j) \in {0, 1}
      OBVIOUS
    <3> HIDE DEF has
    <3> QED
      BY <3>1
  <2> HIDE DEF size
  <2>2. T \in SUBSET Nat
    BY <2>1
  <2> HIDE DEF T
  <2> QED
    BY <1>6, <2>2, FirstOf
<1> HIDE DEF size
<1>8. f[1 .. n] = SpaceOf(1 .. n)
  BY <1>7
<1> QED
  BY <1>2, <1>8 DEF n

LEMMA ColumnsSplit ==
  /\ Columns \in 1 .. 4 /\ RowWidth \in Nat
  /\ \A k \in 1 .. Columns : /\ ColumnWidths[k] \in Nat \ {0} /\ ColumnStart(k) \in Nat
                             /\ ColumnStart(k) + ColumnWidths[k] <= RowWidth
                             /\ \A j \in 1 .. k - 1 : ColumnStart(j) + ColumnWidths[j] <= ColumnStart(k)
<1> DEFINE room == RowWidth - (Columns - 1)   q == room \div Columns   r == room % Columns
           width(k) == q + (IF k <= r THEN 1 ELSE 0)
<1>1. Columns \in 1 .. 4 /\ Columns \in Nat \ {0} /\ RowWidth \in Nat /\ room \in Nat /\ room >= Columns
  BY RowsAssumption
<1>2. \A k \in 1 .. Columns : ColumnWidths[k] = width(k)
  BY DEF ColumnWidths
<1> DEFINE n == room
<1>3. n \in Nat /\ n = RowWidth - (Columns - 1) /\ n >= Columns
  BY <1>1
<1> HIDE DEF n
<1>4. q = n \div Columns /\ r = n % Columns
  BY DEF n
<1>5. q \in Nat /\ r \in 0 .. Columns - 1 /\ n = Columns * q + r
  <2> HIDE DEF q, r
  <2>1. n \div Columns \in Nat /\ n % Columns \in 0 .. Columns - 1 /\ n = Columns * (n \div Columns) + (n % Columns)
    BY <1>1, <1>3, PartsOf
  <2> QED
    BY <1>4, <2>1
<1> HIDE DEF q, r
<1>6. q >= 1
  <2>1. CASE q = 0
    <3>1. Columns * q = 0
      BY <1>1, <2>1
    <3> QED
      BY <1>1, <1>3, <1>5, <3>1
  <2> QED
    BY <1>5, <2>1
<1>7. \A k \in 1 .. Columns : width(k) \in Nat \ {0} /\ ColumnSpace(k) = width(k) + 1 /\ ColumnSpace(k) \in Nat
  BY <1>1, <1>2, <1>5, <1>6 DEF ColumnSpace
<1>8. \A k \in 1 .. Columns : ColumnStart(k) = SpaceOf(1 .. k - 1)
  BY <1>1, <1>7, StartIsSpace
<1> HIDE DEF width
<1>9. ASSUME NEW k \in 1 .. Columns PROVE
        /\ k = 1 => ColumnStart(k) = 0
        /\ k = 2 => ColumnStart(k) = width(1) + 1
        /\ k = 3 => ColumnStart(k) = width(1) + 1 + width(2) + 1
        /\ k = 4 => ColumnStart(k) = width(1) + 1 + width(2) + 1 + width(3) + 1
  <2>1. ColumnStart(k) = PartOf(1 .. k - 1, 1) + PartOf(1 .. k - 1, 2) + PartOf(1 .. k - 1, 3)
    BY <1>8 DEF SpaceOf
  <2>2. \A j \in {1, 2, 3} : PartOf(1 .. k - 1, j) = IF j <= k - 1 THEN width(j) + 1 ELSE 0
    <3>1. SUFFICES ASSUME NEW j \in {1, 2, 3} PROVE PartOf(1 .. k - 1, j) = IF j <= k - 1 THEN width(j) + 1 ELSE 0
      OBVIOUS
    <3>2. j \in 1 .. k - 1 <=> j <= k - 1
      BY <1>1
    <3>3. j <= k - 1 => j \in 1 .. Columns
      BY <1>1
    <3> QED
      BY <1>7, <3>2, <3>3 DEF PartOf
  <2> DEFINE a == PartOf(1 .. k - 1, 1)   b == PartOf(1 .. k - 1, 2)   c == PartOf(1 .. k - 1, 3)
  <2>3. ColumnStart(k) = a + b + c
    BY <2>1
  <2>4. /\ a = IF 1 <= k - 1 THEN width(1) + 1 ELSE 0
        /\ b = IF 2 <= k - 1 THEN width(2) + 1 ELSE 0
        /\ c = IF 3 <= k - 1 THEN width(3) + 1 ELSE 0
    BY <2>2
  <2> HIDE DEF a, b, c
  <2>5. (1 <= k - 1 => width(1) \in Nat) /\ (2 <= k - 1 => width(2) \in Nat) /\ (3 <= k - 1 => width(3) \in Nat)
    BY <1>1, <1>7
  <2> QED
    BY <1>1, <2>3, <2>4, <2>5
<1>10. \A k \in 1 .. Columns : width(k) = q + (IF k <= r THEN 1 ELSE 0)
  BY DEF width
<1> DEFINE Good == \A k \in 1 .. Columns : /\ ColumnStart(k) \in Nat /\ ColumnStart(k) + width(k) <= RowWidth
                                           /\ \A j \in 1 .. k - 1 : ColumnStart(j) + width(j) <= ColumnStart(k)
<1> DEFINE s(k) == ColumnStart(k)
<1>11. \A k \in 1 .. Columns : /\ k = 1 => s(k) = 0
                               /\ k = 2 => s(k) = width(1) + 1
                               /\ k = 3 => s(k) = width(1) + 1 + width(2) + 1
                               /\ k = 4 => s(k) = width(1) + 1 + width(2) + 1 + width(3) + 1
  BY <1>9
<1>12. SUFFICES \A k \in 1 .. Columns : /\ s(k) \in Nat /\ s(k) + width(k) <= RowWidth
                                        /\ \A j \in 1 .. k - 1 : s(j) + width(j) <= s(k)
  BY <1>1, <1>2, <1>7
<1> HIDE DEF s
<1>13. CASE Columns = 1
  <2>1. RowWidth = q /\ s(1) = 0 /\ width(1) = q /\ r = 0
    BY <1>1, <1>3, <1>5, <1>10, <1>11, <1>13
  <2> QED
    BY <1>1, <1>13, <2>1
<1>14. CASE Columns = 2
  <2>1. RowWidth = 2 * q + r + 1 /\ r \in 0 .. 1
    BY <1>1, <1>3, <1>5, <1>14
  <2>2. s(1) = 0 /\ s(2) = width(1) + 1 /\ width(1) = q + (IF 1 <= r THEN 1 ELSE 0) /\ width(2) = q
    BY <1>5, <1>10, <1>11, <1>14
  <2>3. \A k \in 1 .. Columns : k = 1 \/ k = 2
    BY <1>14
  <2> QED
    BY <1>5, <2>1, <2>2, <2>3
<1>15. CASE Columns = 3
  <2>1. RowWidth = 3 * q + r + 2 /\ r \in 0 .. 2
    BY <1>1, <1>3, <1>5, <1>15
  <2>2. /\ s(1) = 0 /\ s(2) = width(1) + 1 /\ s(3) = width(1) + 1 + width(2) + 1
        /\ width(1) = q + (IF 1 <= r THEN 1 ELSE 0) /\ width(2) = q + (IF 2 <= r THEN 1 ELSE 0) /\ width(3) = q
    BY <1>5, <1>10, <1>11, <1>15
  <2>3. \A k \in 1 .. Columns : k = 1 \/ k = 2 \/ k = 3
    BY <1>15
  <2> QED
    BY <1>5, <2>1, <2>2, <2>3
<1>16. CASE Columns = 4
  <2>1. RowWidth = 4 * q + r + 3 /\ r \in 0 .. 3
    BY <1>1, <1>3, <1>5, <1>16
  <2>2. /\ s(1) = 0 /\ s(2) = width(1) + 1 /\ s(3) = width(1) + 1 + width(2) + 1
        /\ s(4) = width(1) + 1 + width(2) + 1 + width(3) + 1
        /\ width(1) = q + (IF 1 <= r THEN 1 ELSE 0) /\ width(2) = q + (IF 2 <= r THEN 1 ELSE 0)
        /\ width(3) = q + (IF 3 <= r THEN 1 ELSE 0) /\ width(4) = q
    BY <1>5, <1>10, <1>11, <1>16
  <2>3. \A k \in 1 .. Columns : k = 1 \/ k = 2 \/ k = 3 \/ k = 4
    BY <1>16
  <2> QED
    BY <1>5, <2>1, <2>2, <2>3
<1> QED
  BY <1>1, <1>13, <1>14, <1>15, <1>16

(* The cell of each check of the page.                                     *)
LEMMA CellsFit ==
  ASSUME NEW i \in Nat \ {0}
  PROVE  /\ CellOf(i).row \in Nat /\ CellOf(i).col \in 1 .. Columns
         /\ \A j \in Nat \ {0} : CellOf(i) = CellOf(j) => i = j
         /\ \A n \in Nat : i <= n * Columns => CellOf(i).row < n
<1>1. Columns \in Nat \ {0}
  BY ColumnsSplit
<1>2. ASSUME NEW j \in Nat \ {0}
      PROVE  /\ CellOf(j).row \in Nat /\ CellOf(j).col \in 1 .. Columns
             /\ j - 1 = Columns * CellOf(j).row + (CellOf(j).col - 1)
  <2> DEFINE k == j - 1   q == k \div Columns   r == k % Columns
  <2>1. k \in Nat
    OBVIOUS
  <2> HIDE DEF k
  <2>2. q \in Nat /\ r \in 0 .. Columns - 1 /\ k = Columns * q + r
    BY <1>1, <2>1, PartsOf
  <2>3. CellOf(j).row = q /\ CellOf(j).col = r + 1
    BY DEF CellOf, k
  <2> HIDE DEF q, r
  <2> DEFINE cq == Columns * q
  <2>4. r + 1 \in 1 .. Columns /\ r + 1 - 1 = r
    BY <1>1, <2>2
  <2> QED
    BY <2>2, <2>3, <2>4 DEF k
<1>3. ASSUME NEW j \in Nat \ {0}, CellOf(i) = CellOf(j) PROVE i = j
  <2>1. i - 1 = j - 1
    BY <1>2, <1>3
  <2> QED
    BY <2>1
<1>4. ASSUME NEW n \in Nat, i <= n * Columns PROVE CellOf(i).row < n
  <2> DEFINE q == CellOf(i).row   c == CellOf(i).col
  <2>1. q \in Nat /\ c \in 1 .. Columns /\ i - 1 = Columns * q + (c - 1)
    BY <1>2
  <2> HIDE DEF q, c
  <2>2. SUFFICES ASSUME q >= n PROVE FALSE
    BY <2>1 DEF q
  <2>3. \A a, b \in Nat : a >= b => Columns * a >= Columns * b
    BY <1>1
  <2>4. Columns * q >= Columns * n /\ n * Columns = Columns * n /\ Columns * q \in Nat /\ Columns * n \in Nat
    BY <1>1, <2>1, <2>2, <2>3
  <2> DEFINE cq == Columns * q   cn == Columns * n
  <2>5. cq >= cn /\ i <= cn /\ cq \in Nat /\ cn \in Nat /\ i - 1 = cq + (c - 1)
    BY <1>4, <2>1, <2>4
  <2> HIDE DEF cq, cn
  <2> QED
    BY <1>1, <2>1, <2>5
<1> QED
  BY <1>2, <1>3, <1>4

LEMMA PageIsFinite == ASSUME NEW page, NEW most, IsPage(page, most) PROVE IsFiniteSet(DOMAIN page)
<1>1. PICK m \in Nat : DOMAIN page = 1 .. m
  BY DEF IsPage
<1>2. 1 \in Int /\ m \in Int
  OBVIOUS
<1> QED
  BY <1>1, <1>2, FS_Interval

CellSpan(i) == Span(CellOf(i).row, ColumnStart(CellOf(i).col), ColumnStart(CellOf(i).col) + ColumnWidths[CellOf(i).col])
ShownOf(page, pageSize) == {i \in DOMAIN page : CellOf(i).row < pageSize}
CellsAt(page, pageSize, r, x) ==
  {i \in ShownOf(page, pageSize) :
     CellOf(i).row = r
     /\ x \in ColumnStart(CellOf(i).col) .. ColumnStart(CellOf(i).col) + ColumnWidths[CellOf(i).col] - 1}
CompactRow(page, status, pageSize, r) ==
  [x \in 0 .. RowWidth - 1 |->
     IF CellsAt(page, pageSize, r, x) = {} THEN " "
     ELSE LET i == CHOOSE j \in CellsAt(page, pageSize, r, x) : TRUE
          IN  CompactSymbol(status[page[i]], x - ColumnStart(CellOf(i).col), ColumnWidths[CellOf(i).col])]
CompactRows(page, status, pageSize) == [r \in 0 .. pageSize - 1 |-> CompactRow(page, status, pageSize, r)]

LEMMA CompactInParts ==
  ASSUME NEW page, NEW status, NEW selected, NEW n
  PROVE  CompactOverview(page, status, selected, n)
           = Frame(CompactRows(page, status, n), None,
                   {CellSpan(i) : i \in {j \in ShownOf(page, n) : page[j] = selected}},
                   {CellSpan(i) : i \in {j \in ShownOf(page, n) : status[page[j]] = "FAIL"}})
BY DEF CompactOverview, CompactRows, CompactRow, CellsAt, ShownOf, CellSpan

LEMMA CompactIsFramed ==
  ASSUME NEW page, NEW most, IsPage(page, most), NEW status, NEW selected, NEW n \in Nat \ {0}
  PROVE  WellFormed(CompactOverview(page, status, selected, n))
<1> DEFINE I == DOMAIN page   f == [i \in I |-> CellSpan(i)]
           inverted == {CellSpan(i) : i \in {j \in ShownOf(page, n) : page[j] = selected}}
           failed == {CellSpan(i) : i \in {j \in ShownOf(page, n) : status[page[j]] = "FAIL"}}
           rows == CompactRows(page, status, n)
<1>1. CompactOverview(page, status, selected, n) = Frame(rows, None, inverted, failed)
  BY CompactInParts
<1>2. DOMAIN rows = 0 .. n - 1
  BY DEF CompactRows
<1>3. IsFiniteSet(I)
  BY PageIsFinite
<1>4. (\A s \in inverted : \E i \in I : f[i] = s) /\ (\A s \in failed : \E i \in I : f[i] = s)
  BY DEF ShownOf
<1>5. ASSUME NEW i \in I PROVE f[i].from \in Nat /\ f[i].to \in Int
  <2>1. i \in Nat \ {0}
    BY DEF IsPage
  <2>2. CellOf(i).col \in 1 .. Columns
    BY <2>1, CellsFit
  <2> DEFINE c == CellOf(i).col
  <2>3. ColumnStart(c) \in Nat /\ ColumnWidths[c] \in Nat
    BY <2>2, ColumnsSplit
  <2>4. f[i].from = ColumnStart(c) /\ f[i].to = ColumnStart(c) + ColumnWidths[c]
    BY DEF CellSpan, Span
  <2> HIDE DEF f, c
  <2> QED
    BY <2>3, <2>4
<1> HIDE DEF I, f, inverted, failed, rows
<1>6. WellSpanned(inverted) /\ WellSpanned(failed)
  BY <1>3, <1>4, <1>5, SpansOf
<1> QED
  BY <1>1, <1>2, <1>6, PlainFrame

-----------------------------------------------------------------------------
(* The matrix.                                                             *)

CellStart(k) == LabelWidth + CellWidth * (k - 1)
CellsOver(x) == {k \in DOMAIN MatrixColumns : x \in {CellStart(k), CellStart(k) + 1}}
MatrixShown(pageSize) == SubSeq(Targets, 1, Min({pageSize - 1, Len(Targets)}))
MatrixHeader == [x \in 0 .. RowWidth - 1 |-> IF \E k \in CellsOver(x) : x = CellStart(k) + 1 THEN "n" ELSE " "]
MatrixLine(status, t) ==
  [x \in 0 .. RowWidth - 1 |->
    IF x < LabelWidth THEN "n"
    ELSE IF \E k \in CellsOver(x) : x = CellStart(k) + 1 /\ MatrixCheck(t, k) # None
    THEN MatrixGlyph(status[MatrixCheck(t, CHOOSE k \in CellsOver(x) : TRUE)]) ELSE " "]
MatrixRows(status, pageSize) ==
  <<MatrixHeader>> \o [i \in DOMAIN MatrixShown(pageSize) |-> MatrixLine(status, MatrixShown(pageSize)[i])]
MatrixLayout(status, pageSize, height, reserved) == RowLayout(Len(MatrixRows(status, pageSize)), height, reserved, FontH)
MatrixSpan(p) == Span(p[1], CellStart(p[2]), CellStart(p[2]) + CellWidth)
IsFailed(status, targets, q) ==
  LET c == MatrixCheck(targets[q[1]], q[2]) IN c # None /\ status[c] = "FAIL"
MatrixFailed(status, pageSize) ==
  {MatrixSpan(p) : p \in {q \in (DOMAIN MatrixShown(pageSize)) \X (DOMAIN MatrixColumns) :
                            IsFailed(status, MatrixShown(pageSize), q)}}

LEMMA MatrixInParts ==
  ASSUME NEW status, NEW n, NEW height, NEW reserved
  PROVE  MatrixOverview(status, n, height, reserved, FontH)
           = [Frame(Filled(MatrixRows(status, n),
                           IF MatrixLayout(status, n, height, reserved) = None THEN n ELSE Len(MatrixRows(status, n))),
                    None, {}, MatrixFailed(status, n))
              EXCEPT !.layout = MatrixLayout(status, n, height, reserved)]
BY DEF MatrixOverview, MatrixRows, MatrixLayout, MatrixFailed, MatrixSpan, MatrixShown, MatrixHeader, MatrixLine,
       CellsOver, CellStart, IsFailed

LEMMA ColumnsOfMatrix ==
  /\ Len(MatrixColumns) \in Nat /\ DOMAIN MatrixColumns = 1 .. Len(MatrixColumns) /\ IsFiniteSet(DOMAIN MatrixColumns)
  /\ LabelWidth \in Int /\ LabelWidth + 2 * Len(MatrixColumns) = RowWidth /\ RowWidth \in Nat
<1> DEFINE q == MatrixColumns   S == ToSet(q)   n == Len(q)
<1>1. q \in Seq(S) /\ RowWidth \in Nat
  BY RowsAssumption
<1> HIDE DEF q, S
<1>2. n \in Nat /\ DOMAIN q = 1 .. n
  BY <1>1
<1>3. IsFiniteSet(1 .. n)
  <2>1. 1 \in Int /\ n \in Int
    BY <1>2
  <2> HIDE DEF n
  <2> QED
    BY <2>1, FS_Interval
<1>4. LabelWidth = RowWidth - 2 * n
  BY DEF LabelWidth, CellWidth, q
<1> HIDE DEF n
<1>5. LabelWidth \in Int /\ LabelWidth + 2 * n = RowWidth
  BY <1>1, <1>2, <1>4
<1> QED
  BY <1>1, <1>2, <1>3, <1>5 DEF q, n

FirstOfTarget(t) == Min({i \in DOMAIN Checks : Checks[i] \in InMatrix /\ TargetOf[Checks[i]] = t})
IsSingle(t) == Cardinality({k \in DOMAIN MatrixColumns : MatrixCheck(t, k) # None}) <= 1
TargetAt(k) ==
  CHOOSE x \in {TargetOf[c] : c \in InMatrix} :
    Cardinality({y \in {TargetOf[c] : c \in InMatrix} :
                   IF IsSingle(y) # IsSingle(x) THEN IsSingle(x) ELSE FirstOfTarget(y) < FirstOfTarget(x)}) = k - 1

LEMMA TargetsAreRanked == Targets = [k \in 1 .. Cardinality({TargetOf[c] : c \in InMatrix}) |-> TargetAt(k)]
BY DEF Targets, Ranked, TargetAt, IsSingle, FirstOfTarget

LEMMA TargetsAreCounted ==
  ASSUME NEW n \in Nat \ {0}
  PROVE  \E m \in Nat : \E S : m < n /\ MatrixShown(n) \in Seq(S) /\ Len(MatrixShown(n)) = m /\ DOMAIN MatrixShown(n) = 1 .. m
<1> DEFINE S == {TargetOf[c] : c \in InMatrix}   count == Cardinality(S)   T == {Targets[k] : k \in 1 .. count}
<1>1. IsFiniteSet(DOMAIN Checks)
  <2> DEFINE R == ToSet(Checks)   l == Len(Checks)
  <2>1. Checks \in Seq(R)
    BY RowsAssumption
  <2> HIDE DEF R
  <2>2. l \in Nat /\ DOMAIN Checks = 1 .. l
    BY <2>1
  <2>3. 1 \in Int /\ l \in Int
    BY <2>2
  <2> HIDE DEF l
  <2> QED
    BY <2>2, <2>3, FS_Interval
<1>2. IsFiniteSet(S)
  <2> DEFINE I == DOMAIN Checks   f == [i \in I |-> TargetOf[Checks[i]]]
  <2>1. \A s \in S : \E i \in I : f[i] = s
    BY DEF InMatrix, ToSet
  <2>2. IsFiniteSet(I)
    BY <1>1
  <2> HIDE DEF S, I, f
  <2> QED
    BY <2>1, <2>2, NamedIsFinite
<1>3. count \in Nat
  <2> HIDE DEF S
  <2> QED
    BY <1>2, FS_CardinalityType
<1>4. DOMAIN Targets = 1 .. count /\ Targets = [k \in 1 .. count |-> Targets[k]]
  <2>1. Targets = [k \in 1 .. count |-> TargetAt(k)]
    BY TargetsAreRanked
  <2> HIDE DEF count
  <2> DEFINE q == Targets
  <2>2. q = [k \in 1 .. count |-> TargetAt(k)]
    BY <2>1
  <2> HIDE DEF q
  <2>3. DOMAIN q = 1 .. count /\ q = [k \in 1 .. count |-> q[k]]
    BY <2>2
  <2> QED
    BY <2>3 DEF q
<1>5. Targets \in Seq(T) /\ Len(Targets) = count
  <2>1. \A k \in 1 .. count : Targets[k] \in T
    OBVIOUS
  <2> DEFINE q == Targets
  <2>2. q = [k \in 1 .. count |-> q[k]] /\ \A k \in 1 .. count : q[k] \in T
    BY <1>4, <2>1
  <2> HIDE DEF q, T, count
  <2>3. q \in Seq(T) /\ Len(q) = count
    BY <1>3, <2>2
  <2> QED
    BY <2>3 DEF q
<1> HIDE DEF T, count
<1> DEFINE m == Min({n - 1, count})
<1>6. m \in {n - 1, count} /\ m <= n - 1 /\ m <= count
  <2> DEFINE d == n - 1
  <2>1. d \in Int /\ count \in Int
    BY <1>3
  <2> HIDE DEF d
  <2>2. Min({d, count}) \in {d, count} /\ Min({d, count}) <= d /\ Min({d, count}) <= count
    BY <2>1, OneOfTwo
  <2> QED
    BY <2>2 DEF d
<1>7. MatrixShown(n) = SubSeq(Targets, 1, m)
  BY <1>5 DEF MatrixShown
<1> HIDE DEF m
<1>8. m \in Nat /\ m < n
  BY <1>3, <1>6
<1> DEFINE q == Targets
<1>9. q \in Seq(T) /\ Len(q) = count /\ MatrixShown(n) = SubSeq(q, 1, m)
  BY <1>5, <1>7
<1> HIDE DEF q
<1>10. SubSeq(q, 1, m) \in Seq(T) /\ Len(SubSeq(q, 1, m)) = m /\ DOMAIN SubSeq(q, 1, m) = 1 .. m
  BY <1>3, <1>6, <1>8, <1>9
<1> QED
  BY <1>8, <1>9, <1>10

LEMMA CellStartsRight ==
  ASSUME LabelWidth >= 1, NEW k \in DOMAIN MatrixColumns
  PROVE  /\ CellStart(k) \in Nat /\ CellStart(k) >= LabelWidth /\ CellStart(k) + 1 < RowWidth
         /\ \A j \in DOMAIN MatrixColumns : CellStart(j) # CellStart(k) + 1 /\ (CellStart(j) = CellStart(k) => j = k)
<1> DEFINE n == Len(MatrixColumns)   w == LabelWidth
<1>1. n \in Nat /\ DOMAIN MatrixColumns = 1 .. n /\ w \in Int /\ w + 2 * n = RowWidth /\ RowWidth \in Nat /\ w >= 1
  BY ColumnsOfMatrix
<1>2. \A j : CellStart(j) = w + 2 * (j - 1)
  BY DEF CellStart, CellWidth
<1> HIDE DEF n, w
<1>3. k \in 1 .. n /\ CellStart(k) = w + 2 * (k - 1)
  BY <1>1, <1>2
<1>4. CellStart(k) \in Nat /\ CellStart(k) >= w /\ CellStart(k) + 1 < RowWidth
  BY <1>1, <1>3
<1>5. ASSUME NEW j \in DOMAIN MatrixColumns PROVE CellStart(j) # CellStart(k) + 1 /\ (CellStart(j) = CellStart(k) => j = k)
  BY <1>1, <1>2, <1>3
<1> QED
  BY <1>4, <1>5 DEF w

IsOneLonger(r, s, m) == Len(r) = m + 1 /\ DOMAIN r = 1 .. m + 1 /\ \A t \in 1 .. m : r[t + 1] = s[t]

LEMMA OneBefore ==
  ASSUME NEW T, NEW h \in Seq(T), NEW s \in Seq(T), NEW m \in Nat, Len(h) = 1, Len(s) = m
  PROVE  IsOneLonger(h \o s, s, m)
<1> SUFFICES ASSUME NEW T1, NEW h1 \in Seq(T1), NEW s1 \in Seq(T1) 
             PROVE  \A m1 \in Nat : Len(h1) = 1 /\ Len(s1) = m1 => IsOneLonger(h1 \o s1, s1, m1)
  OBVIOUS
<1>1. h1 \o s1 \in Seq(T1) /\ Len(h1 \o s1) = Len(h1) + Len(s1) /\ \A i \in 1 .. Len(s1) : (h1 \o s1)[Len(h1) + i] = s1[i]
  BY JoinOf
<1> DEFINE r == h1 \o s1
<1>2. r \in Seq(T1) /\ Len(r) = Len(h1) + Len(s1) /\ \A t \in 1 .. Len(s1) : r[Len(h1) + t] = s1[t]
  BY <1>1
<1> HIDE DEF r
<1> SUFFICES ASSUME NEW m1 \in Nat, Len(h1) = 1, Len(s1) = m1
             PROVE  IsOneLonger(r, s1, m1)
  BY DEF r
<1>3. Len(r) = m1 + 1 /\ \A t \in 1 .. m1 : 1 + t = t + 1
  BY <1>2
<1> QED
  BY <1>2, <1>3 DEF IsOneLonger

LEMMA MatrixRowsAre ==
  ASSUME NEW n \in Nat \ {0}, NEW status
  PROVE  \E m \in Nat : /\ m < n /\ DOMAIN MatrixShown(n) = 1 .. m /\ Len(MatrixShown(n)) = m
                        /\ Len(MatrixRows(status, n)) = m + 1 /\ DOMAIN MatrixRows(status, n) = 1 .. m + 1
                        /\ \A t \in 1 .. m : MatrixRows(status, n)[t + 1] = MatrixLine(status, MatrixShown(n)[t])
<1>1. PICK m \in Nat : m < n /\ Len(MatrixShown(n)) = m /\ DOMAIN MatrixShown(n) = 1 .. m
  BY TargetsAreCounted
<1> DEFINE q == MatrixShown(n)   f(i) == MatrixLine(status, q[i])   T == {MatrixHeader} \cup {f(i) : i \in 1 .. m}
           s == [i \in DOMAIN q |-> f(i)]   h == <<MatrixHeader>>
<1>2. MatrixRows(status, n) = h \o s
  BY DEF MatrixRows
<1>3. s = [i \in 1 .. m |-> f(i)] /\ \A i \in 1 .. m : f(i) \in T
  BY <1>1
<1>4. MatrixHeader \in T
  OBVIOUS
<1>5. h \in Seq(T) /\ Len(h) = 1
  <2> HIDE DEF T
  <2> QED
    BY <1>4
<1> HIDE DEF T, f, h
<1>6. s \in Seq(T) /\ Len(s) = m
  BY <1>3
<1>7. \A i \in 1 .. m : s[i] = f(i)
  BY <1>3
<1> HIDE DEF s
<1>8. IsOneLonger(h \o s, s, m)
  BY <1>5, <1>6, OneBefore
<1> DEFINE r == h \o s
<1>9. Len(r) = m + 1 /\ DOMAIN r = 1 .. m + 1 /\ \A t \in 1 .. m : r[t + 1] = s[t]
  BY <1>8 DEF IsOneLonger
<1> HIDE DEF r
<1>10. \A t \in 1 .. m : r[t + 1] = MatrixLine(status, q[t])
  BY <1>7, <1>9 DEF f
<1> QED
  BY <1>1, <1>2, <1>9, <1>10 DEF r

IsEven(layout, count) == \E pitch \in Nat \ {0} : layout = [r \in 0 .. count - 1 |-> [y |-> r * pitch, tall |-> pitch]]

LEMMA LayoutIsEven ==
  ASSUME NEW count \in Nat \ {0}, NEW height \in Int, NEW reserved \in Int
  PROVE  RowLayout(count, height, reserved, FontH) # None => IsEven(RowLayout(count, height, reserved, FontH), count)
<1> DEFINE d == height - reserved   usable == Max({FontH, d})   pitch == usable \div count
<1>1. FontH \in Nat \ {0}
  BY PanelsAssumption
<1>2. FontH \in Int /\ d \in Int
  BY <1>1
<1> HIDE DEF d
<1>3. usable \in {FontH, d}
  BY <1>2, OneOfTwo
<1> HIDE DEF usable
<1>4. usable \in Int
  BY <1>2, <1>3
<1>5. pitch \in Int
  BY <1>4
<1> DEFINE even == [r \in 0 .. count - 1 |-> [y |-> r * pitch, tall |-> pitch]]
<1>6. RowLayout(count, height, reserved, FontH) = IF pitch <= FontH THEN None ELSE even
  BY DEF RowLayout, usable, d
<1> HIDE DEF pitch
<1>7. CASE pitch <= FontH
  BY <1>6, <1>7
<1>8. CASE ~ (pitch <= FontH)
  <2>1. pitch \in Nat \ {0}
    BY <1>1, <1>5, <1>8
  <2>2. IsEven(even, count)
    BY <2>1 DEF IsEven
  <2> QED
    BY <1>6, <1>8, <2>2
<1> QED
  BY <1>7, <1>8

LEMMA FailedIsSpanned ==
  ASSUME LabelWidth >= 1, NEW n \in Nat \ {0}, NEW status
  PROVE  WellSpanned(MatrixFailed(status, n))
<1> DEFINE A == DOMAIN MatrixShown(n)   B == DOMAIN MatrixColumns   I == A \X B
           f == [p \in I |-> MatrixSpan(p)]
<1>1. IsFiniteSet(B)
  BY ColumnsOfMatrix
<1>2. IsFiniteSet(A)
  <2>1. PICK m \in Nat : A = 1 .. m
    BY MatrixRowsAre
  <2> HIDE DEF A
  <2>2. 1 \in Int /\ m \in Int
    OBVIOUS
  <2> QED
    BY <2>1, <2>2, FS_Interval
<1>3. ASSUME NEW p \in I PROVE f[p].from \in Nat /\ f[p].to \in Int
  <2>1. p[2] \in DOMAIN MatrixColumns
    OBVIOUS
  <2>2. CellStart(p[2]) \in Nat
    BY <2>1, CellStartsRight
  <2>3. f[p].from = CellStart(p[2]) /\ f[p].to = CellStart(p[2]) + 2
    BY DEF MatrixSpan, Span, CellWidth
  <2> HIDE DEF f
  <2> QED
    BY <2>2, <2>3
<1>4. \A s \in MatrixFailed(status, n) : \E p \in I : f[p] = s
  BY DEF MatrixFailed
<1> HIDE DEF A, B, f
<1>5. IsFiniteSet(I)
  BY <1>1, <1>2, FS_Product
<1> HIDE DEF I
<1> QED
  BY <1>3, <1>4, <1>5, SpansOf

LEMMA MatrixIsFramed ==
  ASSUME LabelWidth >= 1, NEW n \in Nat \ {0}, NEW status, NEW height \in Int, NEW reserved \in Int
  PROVE  WellFormed(MatrixOverview(status, n, height, reserved, FontH))
<1> DEFINE rows == MatrixRows(status, n)   count == Len(rows)   layout == MatrixLayout(status, n, height, reserved)
           lines == Filled(rows, IF layout = None THEN n ELSE count)   failed == MatrixFailed(status, n)
           f == MatrixOverview(status, n, height, reserved, FontH)
<1>1. f = [Frame(lines, None, {}, failed) EXCEPT !.layout = layout]
  BY MatrixInParts
<1>2. WellSpanned({}) /\ WellSpanned(failed)
  BY FailedIsSpanned, NoSpans
<1>3. count \in Nat \ {0}
  <2>1. PICK m \in Nat : count = m + 1
    BY MatrixRowsAre
  <2> HIDE DEF count
  <2> QED
    BY <2>1
<1>4. layout # None => IsEven(layout, count)
  <2>1. layout = RowLayout(count, height, reserved, FontH)
    BY DEF MatrixLayout
  <2> HIDE DEF count, layout
  <2> QED
    BY <1>3, <2>1, LayoutIsEven
<1>5. DOMAIN lines = 0 .. (IF layout = None THEN n ELSE count) - 1
  BY DEF Filled
<1>6. FontH \in Nat \ {0}
  BY PanelsAssumption
<1> HIDE DEF rows, count, layout, lines, failed
<1>7. f.rows = lines /\ f.inverted = {} /\ f.failed = failed /\ f.layout = layout
  BY <1>1 DEF Frame
<1> SUFFICES WellFormed(f)
  OBVIOUS
<1> HIDE DEF f
<1>8. WellSpanned(f.inverted) /\ WellSpanned(f.failed)
  BY <1>2, <1>7, Zenon
<1>9. ASSUME NEW k, NEW tall, EvenRows(f, k, tall) PROVE WellFormed(f)
  BY <1>8, <1>9 DEF WellFormed
<1>10. CASE layout = None
  <2>1. \A r : RowPlace(f, r) = [y |-> r * FontH, tall |-> FontH]
    BY <1>7, <1>10 DEF RowPlace
  <2>2. DOMAIN lines = 0 .. n - 1
    BY <1>5, <1>10
  <2>3. EvenRows(f, n, FontH)
    BY <1>6, <1>7, <2>1, <2>2 DEF EvenRows
  <2> QED
    BY <1>9, <2>3
<1>11. CASE layout # None
  <2>1. PICK pitch \in Nat \ {0} : layout = [r \in 0 .. count - 1 |-> [y |-> r * pitch, tall |-> pitch]]
    BY <1>4, <1>11 DEF IsEven
  <2>2. ASSUME NEW r \in 0 .. count - 1 PROVE RowPlace(f, r) = [y |-> r * pitch, tall |-> pitch]
    <3>1. r \in DOMAIN layout /\ layout[r] = [y |-> r * pitch, tall |-> pitch]
      BY <2>1
    <3> QED
      BY <1>7, <1>11, <3>1 DEF RowPlace
  <2>3. DOMAIN lines = 0 .. count - 1
    BY <1>5, <1>11
  <2>4. EvenRows(f, count, pitch)
    BY <1>3, <1>7, <2>2, <2>3 DEF EvenRows
  <2> QED
    BY <1>9, <2>4
<1> QED
  BY <1>10, <1>11

(* The page of a display.                                                  *)
PerPage(a) == PageSize * (IF a.mode = "compact" THEN Columns ELSE 1)
PageFor(a) == PageOf(a.mode, a.status, PerPage(a))

LEMMA FrameByMode ==
  ASSUME NEW a
  PROVE  FrameOf(a) = IF a.mode = "detail" THEN DetailFrame(a.status, a.selected, PageSize)
                      ELSE IF a.mode = "text" THEN TextFrame(PageSize)
                      ELSE IF a.mode = "matrix" /\ FitsMatrix THEN MatrixOverview(a.status, PageSize, Height, Reserved, FontH)
                      ELSE IF PageFor(a) = <<>> THEN IdleFrame(PageSize)
                      ELSE IF a.mode = "compact" THEN CompactOverview(PageFor(a), a.status, a.selected, PageSize)
                      ELSE LegacyOverview(PageFor(a), a.status, a.selected, PageSize)
BY DEF FrameOf, RenderFrame, PageFor, PerPage

LEMMA PageForIsPage ==
  ASSUME kind \in Kinds, NEW a
  PROVE  PerPage(a) \in Nat /\ IsPage(PageFor(a), PerPage(a))
<1>1. PageSize \in Nat \ {0} /\ Columns \in Nat
  BY PageHasRows, RowsAssumption
<1> DEFINE m == PerPage(a)
<1>2. m \in Nat
  <2> DEFINE k == PageSize
  <2>1. k \in Nat /\ m = k * (IF a.mode = "compact" THEN Columns ELSE 1)
    BY <1>1 DEF PerPage
  <2> HIDE DEF k, m
  <2> QED
    BY <1>1, <2>1
<1>3. IsPage(PageOf(a.mode, a.status, m), m)
  <2> HIDE DEF m
  <2> QED
    BY <1>2, PageIsShort
<1> QED
  BY <1>2, <1>3 DEF PageFor

LEMMA FrameIsWellFormed == ASSUME kind \in Kinds, NEW a PROVE WellFormed(FrameOf(a))
<1> DEFINE n == PageSize   h == Height   v == Reserved   page == PageFor(a)
<1>1. n \in Nat \ {0} /\ IsPage(page, PerPage(a))
  BY PageHasRows, PageForIsPage
<1>2. h \in Int /\ v \in Int
  BY AddressFits, PanelsAssumption DEF Reserved
<1>3. FrameOf(a) = IF a.mode = "detail" THEN DetailFrame(a.status, a.selected, n)
                   ELSE IF a.mode = "text" THEN TextFrame(n)
                   ELSE IF a.mode = "matrix" /\ FitsMatrix THEN MatrixOverview(a.status, n, h, v, FontH)
                   ELSE IF page = <<>> THEN IdleFrame(n)
                   ELSE IF a.mode = "compact" THEN CompactOverview(page, a.status, a.selected, n)
                   ELSE LegacyOverview(page, a.status, a.selected, n)
  BY FrameByMode
<1> HIDE DEF n, h, v, page
<1>4. WellFormed(DetailFrame(a.status, a.selected, n))
  BY <1>1, DetailIsFramed
<1>5. WellFormed(TextFrame(n)) /\ WellFormed(IdleFrame(n))
  BY <1>1, TextIsFramed
<1>6. FitsMatrix => WellFormed(MatrixOverview(a.status, n, h, v, FontH))
  BY <1>1, <1>2, MatrixIsFramed DEF FitsMatrix
<1>7. WellFormed(CompactOverview(page, a.status, a.selected, n))
  BY <1>1, CompactIsFramed
<1>8. WellFormed(LegacyOverview(page, a.status, a.selected, n))
  BY <1>1, LegacyIsFramed
<1> QED
  BY <1>3, <1>4, <1>5, <1>6, <1>7, <1>8

LEMMA CanvasHasWanted ==
  ASSUME kind \in Kinds, NEW a \in Apps, NEW p \in Pixels
  PROVE  Turned(p) \in Pixels /\ Canvas(a)[Turned(p)] = Wanted(a, p)
<1>1. WellFormed(FrameOf(a))
  BY FrameIsWellFormed
<1> QED
  BY <1>1, CanvasIsWanted

LEMMA WantedColor ==
  ASSUME NEW a, NEW p
  PROVE  Wanted(a, p) \in {"bg", "fg", "accent"} /\ (Wanted(a, p) = "accent" => HasAccent(kind))
BY DEF Wanted, InFrame, InRows

LEMMA TurnedTwice ==
  ASSUME kind \in Kinds, NEW p \in Pixels
  PROVE  Turned(p) \in Pixels /\ Turned(Turned(p)) = p
<1> DEFINE H == Height
<1>1. H \in Nat /\ Width \in Nat /\ p \in (0 .. Width - 1) \X (0 .. H - 1)
  BY AddressFits, PanelsAssumption DEF Pixels
<1>2. \A q : Turned(q) = IF rotation = 180 THEN <<Width - 1 - q[1], H - 1 - q[2]>> ELSE q
  BY DEF Turned
<1>3. Pixels = (0 .. Width - 1) \X (0 .. H - 1)
  BY DEF Pixels
<1> HIDE DEF H
<1>4. p = <<p[1], p[2]>> /\ p[1] \in 0 .. Width - 1 /\ p[2] \in 0 .. H - 1
  BY <1>1
<1>5. CASE rotation = 180
  <2> DEFINE x == Width - 1 - p[1]   y == H - 1 - p[2]
  <2>1. Turned(p) = <<x, y>> /\ x \in 0 .. Width - 1 /\ y \in 0 .. H - 1
    BY <1>1, <1>2, <1>4, <1>5
  <2>2. Turned(<<x, y>>) = <<Width - 1 - x, H - 1 - y>>
    BY <1>2, <1>5
  <2>3. Width - 1 - x = p[1] /\ H - 1 - y = p[2]
    BY <1>1, <1>4
  <2> HIDE DEF x, y
  <2> QED
    BY <1>3, <1>4, <2>1, <2>2, <2>3
<1>6. CASE rotation # 180
  BY <1>2, <1>6
<1> QED
  BY <1>5, <1>6

LEMMA CanvasColors == ASSUME kind \in Kinds, NEW a \in Apps PROVE Colors(Canvas(a))
<1>1. ASSUME NEW p \in Pixels
      PROVE  Canvas(a)[p] \in {"bg", "fg", "accent"} /\ (Canvas(a)[p] = "accent" => HasAccent(kind))
  <2> DEFINE q == Turned(p)
  <2>1. q \in Pixels /\ Turned(q) = p
    BY TurnedTwice
  <2>2. Canvas(a)[Turned(q)] = Wanted(a, q)
    BY <2>1, CanvasHasWanted
  <2> QED
    BY <2>1, <2>2, WantedColor
<1> QED
  BY <1>1 DEF Colors

-----------------------------------------------------------------------------
(* A draw starts, goes on and ends; the invariant holds in every state.    *)

LEMMA DrawGoes ==
  ASSUME kind \in Kinds, Suits, Intact(ctl, ram, busy), NEW a \in Apps, NEW g
  PROVE  GoesOn(ctl, ram, g, busy, FALSE, OpsOf(a), a)
<1>1. ctl \in Controllers /\ IsMemory(ram) /\ StaysLit(ctl, busy)
  BY DEF Intact
<1>2. Promises(ctl, ram, OpsOf(a), a)
  BY <1>1, CanvasColors, EveryDrawLeads DEF Promises, StaysLit
<1>3. CASE kind \in SelfLit
  BY <1>2, <1>3, SelfLitStreams DEF GoesOn, Underway
<1>4. CASE kind \notin SelfLit
  <2>1. kind \in EPaper
    BY <1>4, PanelsAssumption
  <2>2. Starts(ctl, ram, OpsOf(a), a)
    BY <1>2, <2>1, EPaperDraws DEF Starts
  <2> QED
    BY <1>4, <2>2 DEF GoesOn, Underway, OnPaper
<1> QED
  BY <1>3, <1>4

LEMMA AtTheEnd ==
  ASSUME NEW c, NEW m, NEW g, NEW b, NEW u, NEW a, GoesOn(c, m, g, b, u, <<>>, a)
  PROVE  IsPicture(m, Canvas(a)) /\ (kind \in SelfLit \/ u \/ g = Seen(m))
<1>1. CASE kind \in SelfLit
  <2>1. Promises(c, m, <<>>, a)
    BY <1>1 DEF GoesOn, Underway
  <2>2. IsPicture(State(c, m).ram, Canvas(a))
    BY <2>1, NothingLeads DEF Promises
  <2> QED
    BY <1>1, <2>2 DEF State
<1>2. CASE kind \notin SelfLit
  <2>1. OnPaper(c, m, g, b, u, <<>>, a)
    BY <1>2 DEF GoesOn, Underway
  <2>2. ASSUME NEW f, Prepared(f) PROVE <<>> # f \o EndOf
    <3>1. CASE f = <<>>
      BY <2>2, <3>1, EmptyFront, EndRest
    <3>2. CASE f # <<>>
      <4>1. EndOf \in Seq(EndOps)
        BY EndRest
      <4> QED
        BY <2>2, <3>2, <4>1, PreparedRest
    <3> QED
      BY <3>1, <3>2
  <2>3. ~ Starts(c, m, <<>>, a) /\ ~ Loads(c, m, b, <<>>, a)
    BY <2>2 DEF Starts, Loads, Afresh
  <2>4. Ended(m, g, u, <<>>, a)
    BY <2>1, <2>3, EndRest DEF OnPaper, Refreshes, Ends
  <2> QED
    BY <2>4 DEF Ended
<1> QED
  BY <1>1, <1>2

LEMMA SoundHere ==
  ASSUME Sound, Suits
  PROVE  /\ Intact(ctl, ram, busy) /\ PanelTypeOK
         /\ phase = "draw" => shown = None /\ GoesOn(ctl, ram, glass, busy, cut, ops, app)
<1>1. DrawIsSound /\ PanelIsSound /\ PanelTypeOK
  BY DEF Sound
<1>2. Intact(ctl, ram, busy)
  BY <1>1 DEF PanelIsSound, Intact
<1>3. phase = "draw" => shown = None /\ Underway(ctl, ram, glass, busy, cut, ops, app)
  BY <1>1 DEF DrawIsSound, Now
<1> QED
  BY <1>1, <1>2, <1>3 DEF GoesOn

(* A step that leaves a draw on its way.                                   *)
LEMMA StillUnderway ==
  ASSUME kind' = kind, rotation' = rotation, phase' = "draw", shown' = None,
         GoesOn(ctl', ram', glass', busy', cut', ops', app')
  PROVE  DrawIsSound' /\ PanelIsSound' /\ GlassIsPicture'
<1>1. GlassIsPicture'
  BY DEF GlassIsPicture
<1>2. PICK c, m, g, b, u, p, a : c = ctl' /\ m = ram' /\ g = glass' /\ b = busy' /\ u = cut' /\ p = ops' /\ a = app'
  OBVIOUS
<1>3. GoesOn(c, m, g, b, u, p, a)
  BY <1>2
<1>4. Underway(c, m, g, b, u, p, a) /\ c \in Controllers /\ IsMemory(m) /\ StaysLit(c, b)
  BY <1>3 DEF GoesOn, Intact
<1>5. Underway(c, m, g, b, u, p, a)'
  BY <1>4, SameUnderway
<1>6. DrawIsSound'
  BY <1>2, <1>5 DEF DrawIsSound, Now
<1>7. PanelIsSound'
  BY <1>2, <1>4, SameKind DEF PanelIsSound
<1> QED
  BY <1>1, <1>6, <1>7

LEMMA StillSound ==
  ASSUME kind' = kind, rotation' = rotation, phase' # "draw",
         Intact(ctl', ram', busy')
  PROVE  DrawIsSound' /\ PanelIsSound'
<1>1. DrawIsSound'
  BY DEF DrawIsSound
<1>2. PICK c, m, b : c = ctl' /\ m = ram' /\ b = busy'
  OBVIOUS
<1>3. Intact(c, m, b)
  BY <1>2
<1>4. PanelIsSound'
  BY <1>2, <1>3, SameKind DEF PanelIsSound, Intact
<1> QED
  BY <1>1, <1>4

LEMMA DrawnShows ==
  ASSUME Sound, Suits, Drawn
  PROVE  GlassIsPicture'
<1>1. /\ phase = "draw" /\ ops = <<>> /\ shown' = app /\ ram' = ram /\ glass' = glass /\ cut' = cut
      /\ kind' = kind /\ rotation' = rotation
  BY DEF Drawn, device
<1>2. GoesOn(ctl, ram, glass, busy, cut, <<>>, app)
  BY <1>1, SoundHere
<1>3. IsPicture(ram, Canvas(app)) /\ (kind \in SelfLit \/ cut \/ glass = Seen(ram))
  BY <1>2, AtTheEnd
<1>4. SUFFICES ASSUME ~ cut', NEW m, NEW g, NEW a, m = ram', g = glass', a = shown', NEW p \in Pixels'
      PROVE (IF kind' \in SelfLit THEN Seen(m)' ELSE g)[p] = Canvas(a)'[p]
  BY DEF GlassIsPicture
<1>5. Seen(m)' = Seen(m) /\ Canvas(a)' = Canvas(a) /\ p \in Pixels
  BY <1>1, SameKind, SameCanvas, SameShape
<1>6. m = ram /\ g = glass /\ a = app /\ ~ cut
  BY <1>1, <1>4
<1>7. SeenAt(m, p) = Canvas(a)[p]
  BY <1>3, <1>5, <1>6 DEF IsPicture
<1>8. Seen(m)[p] = Canvas(a)[p]
  BY <1>5, <1>7 DEF Seen
<1>9. kind \in SelfLit \/ g = Seen(m)
  BY <1>3, <1>6
<1> QED
  BY <1>1, <1>5, <1>8, <1>9

LEMMA WithinWatchdog ==
  ASSUME unfed \in Nat, NEW n \in Nat, Unfed(n)
  PROVE  unfed' \in 0 .. Watchdog + 1
<1>1. Watchdog + 1 \in Int /\ unfed + n \in Int /\ Watchdog \in Nat /\ unfed + n >= 0
  BY SettingsOfPanels
<1> DEFINE h == unfed + n
<1>2. Min({h, Watchdog + 1}) \in {h, Watchdog + 1}
  BY <1>1, AtMostThat
<1>3. Min({Watchdog + 1, h}) <= Watchdog + 1
  BY <1>1, AtMostThat
<1>4. {h, Watchdog + 1} = {Watchdog + 1, h}
  OBVIOUS
<1>5. unfed' = Min({h, Watchdog + 1})
  BY DEF Unfed
<1>6. unfed' \in {h, Watchdog + 1} /\ unfed' <= Watchdog + 1
  BY <1>2, <1>3, <1>4, <1>5
<1> QED
  BY <1>1, <1>6

LEMMA TypesKept ==
  ASSUME PanelTypeOK, [PanelNext]_panelVars, ctl' = ctl \/ ctl' \in Controllers,
         PausePasses => Head(ops).slices = SleepT
  PROVE  PanelTypeOK'
<1>1. /\ {RefreshT, TimeoutT} \subseteq Nat \ {0} /\ {SleepT, Watchdog, MaxDraws} \subseteq Nat
  BY PanelsAssumption
<1>2. kind' = kind /\ rotation' = rotation
  BY DEF PanelNext, panelVars, Draw, SetUp, Transfer, ResetPanel, StartRefresh, WaitSlice, EndWait, FeedWatchdog,
         GoToSleep, PausePasses, BusFails, Drawn, Kept
<1>3. DOMAIN ctl' = DOMAIN WideOpen'
  <2>1. \A c \in Controllers : DOMAIN c = DOMAIN WideOpen
    BY DEF Controllers, WideOpen
  <2>2. DOMAIN WideOpen' = DOMAIN WideOpen
    BY DEF WideOpen
  <2> QED
    BY <2>1, <2>2 DEF PanelTypeOK
<1>4. app' \in Apps \cup {None} /\ shown' \in Apps \cup {None} /\ phase' \in {"idle", "draw", "raised"}
  BY DEF PanelTypeOK, PanelNext, panelVars, Draw, SetUp, Transfer, ResetPanel, StartRefresh, WaitSlice, EndWait, FeedWatchdog,
         GoToSleep, PausePasses, BusFails, Drawn, Kept
<1>5. draws' \in 0 .. MaxDraws
  BY <1>1 DEF PanelTypeOK, PanelNext, panelVars, Draw, SetUp, Transfer, ResetPanel, StartRefresh, WaitSlice, EndWait, FeedWatchdog,
         GoToSleep, PausePasses, BusFails, Drawn, Kept
<1>6. waited' \in 0 .. TimeoutT
  BY <1>1 DEF PanelTypeOK, PanelNext, panelVars, Draw, SetUp, Transfer, ResetPanel, StartRefresh, WaitSlice, EndWait, FeedWatchdog,
         GoToSleep, PausePasses, BusFails, Drawn, Kept
<1>7. busy' \in 0 .. RefreshT
  <2>1. busy \in 0 .. RefreshT
    BY DEF PanelTypeOK
  <2>2. busy' \in {busy, 0} \cup 1 .. RefreshT \/ (busy > 0 /\ busy' = busy - 1)
    BY DEF PanelNext, panelVars, Draw, SetUp, Transfer, ResetPanel, StartRefresh, WaitSlice, EndWait, FeedWatchdog,
           GoToSleep, PausePasses, BusFails, Drawn, device
  <2> QED
    BY <1>1, <2>1, <2>2
<1>8. unfed' \in 0 .. Watchdog + 1
  <2>1. unfed \in 0 .. Watchdog + 1 /\ unfed \in Nat
    BY DEF PanelTypeOK
  <2>2. unfed' \in {unfed, 0} \/ Unfed(1) \/ Unfed(SleepT)
    BY DEF PanelNext, panelVars, Draw, SetUp, Transfer, ResetPanel, StartRefresh, WaitSlice, EndWait, FeedWatchdog,
           GoToSleep, PausePasses, BusFails, Drawn, SlicePasses, Fed
  <2>3. 1 \in Nat /\ SleepT \in Nat
    BY <1>1
  <2>4. CASE unfed' \in {unfed, 0}
    BY <1>1, <2>1, <2>4
  <2> QED
    BY <2>1, <2>2, <2>3, <2>4, WithinWatchdog
<1>9. kind \in Kinds /\ rotation \in {0, 180}
  BY DEF PanelTypeOK
<1> QED
  BY <1>2, <1>3, <1>4, <1>5, <1>6, <1>7, <1>8, <1>9 DEF PanelTypeOK

LEMMA SoundAtFirst == PanelInit => Sound
<1> SUFFICES ASSUME PanelInit PROVE Sound
  OBVIOUS
<1>1. kind \in Kinds
  BY DEF PanelInit
<1>2. PanelTypeOK
  <2>1. {RefreshT, TimeoutT} \subseteq Nat /\ {Watchdog, MaxDraws} \subseteq Nat
    BY PanelsAssumption
  <2> HIDE DEF WideOpen
  <2> QED
    BY <2>1 DEF PanelInit, PanelTypeOK
<1>3. DrawIsSound /\ GlassIsPicture
  BY DEF PanelInit, DrawIsSound, GlassIsPicture
<1>4. PanelIsSound
  <2>1. ctl = WideOpen /\ busy = 0
    BY DEF PanelInit
  <2>2. IsMemory(ram)
    BY DEF PanelInit, IsMemory
  <2>3. WideOpen \in Controllers /\ WideOpen.awake /\ WideOpen.plane = "black" /\ (kind \in Oled => IsWide(WideOpen)) /\ WideOpen.first = "b"
    <3>1. WideOpen \in Controllers
      BY <1>1, WideIsFresh DEF Fresh
    <3> QED
      BY <3>1 DEF WideOpen, IsWide, LastColumn, Oled
  <2> HIDE DEF WideOpen
  <2> QED
    BY <2>1, <2>2, <2>3 DEF PanelIsSound, StaysLit, Steady
<1> QED
  BY <1>1, <1>2, <1>3, <1>4 DEF Sound

OpStep == SetUp \/ Transfer \/ ResetPanel \/ StartRefresh \/ WaitSlice \/ EndWait \/ FeedWatchdog \/ GoToSleep \/ PausePasses

LEMMA OpStepGoes ==
  ASSUME Sound, Suits, OpStep
  PROVE  /\ GoesOn(ctl', ram', glass', busy', cut', ops', app')
         /\ PausePasses => Head(ops).slices = SleepT
         /\ kind' = kind /\ rotation' = rotation /\ phase' = "draw" /\ shown' = None
<1>1. phase = "draw" /\ Kept
  BY DEF OpStep, SetUp, Transfer, ResetPanel, StartRefresh, WaitSlice, EndWait, FeedWatchdog, GoToSleep, PausePasses, Does
<1>2. GoesOn(ctl, ram, glass, busy, cut, ops, app) /\ shown = None /\ PanelTypeOK
  BY <1>1, SoundHere
<1>3. kind \in Kinds /\ busy \in Nat
  BY <1>2 DEF PanelTypeOK
<1>4. PausePasses => Head(ops).slices = SleepT
  BY <1>2, <1>3, PauseGoes
<1>5. GoesOn(ctl', ram', glass', busy', cut', ops', app')
  BY <1>2, <1>3, SetUpGoes, TransferGoes, ResetGoes, RefreshGoes, WaitSliceGoes, EndWaitGoes, FeedGoes, SleepGoes, PauseGoes
     DEF OpStep
<1> QED
  BY <1>1, <1>2, <1>4, <1>5 DEF Kept

LEMMA SoundKept == Sound /\ [PanelNext]_panelVars => Sound'
<1> SUFFICES ASSUME Sound, [PanelNext]_panelVars PROVE Sound'
  OBVIOUS
<1>1. kind' = kind /\ rotation' = rotation
  BY DEF PanelNext, panelVars, Draw, SetUp, Transfer, ResetPanel, StartRefresh, WaitSlice, EndWait, FeedWatchdog,
         GoToSleep, PausePasses, BusFails, Drawn, Kept
<1>2. kind \in Kinds
  BY DEF Sound
<1>3. SUFFICES ASSUME Suits PROVE PanelTypeOK' /\ DrawIsSound' /\ PanelIsSound' /\ GlassIsPicture'
  BY <1>1, <1>2, SameKind DEF Sound
<1>4. Intact(ctl, ram, busy) /\ PanelTypeOK
  BY <1>3, SoundHere
<1>5. CASE OpStep
  <2>1. /\ GoesOn(ctl', ram', glass', busy', cut', ops', app')
        /\ PausePasses => Head(ops).slices = SleepT
        /\ phase' = "draw" /\ shown' = None
    BY <1>3, <1>5, OpStepGoes
  <2>2. ctl' \in Controllers
    BY <2>1 DEF GoesOn, Intact
  <2> QED
    BY <1>1, <1>4, <2>1, <2>2, TypesKept, StillUnderway
<1>6. CASE \E a \in Apps : Draw(a)
  <2>1. PICK a \in Apps : Draw(a)
    BY <1>6
  <2>2. ctl' = ctl /\ ram' = ram /\ busy' = busy /\ glass' = glass /\ cut' = FALSE /\ shown' = None /\ app' = a /\ phase # "draw"
    BY <2>1 DEF Draw, device
  <2>3. PanelTypeOK'
    <3>1. ~ PausePasses
      BY <2>2 DEF PausePasses, Does
    <3> QED
      BY <1>4, <2>2, <3>1, TypesKept
  <2>4. CASE Raises(a)
    <3>1. phase' = "raised"
      BY <2>1, <2>4 DEF Draw
    <3>2. GlassIsPicture'
      BY <3>1 DEF GlassIsPicture
    <3>3. Intact(ctl', ram', busy')
      BY <1>4, <2>2
    <3> QED
      BY <1>1, <2>3, <3>1, <3>2, <3>3, StillSound
  <2>5. CASE ~ Raises(a)
    <3>1. phase' = "draw" /\ ops' = OpsOf(a)
      BY <2>1, <2>5 DEF Draw
    <3>2. PICK g : g = glass
      OBVIOUS
    <3>3. GoesOn(ctl, ram, g, busy, FALSE, OpsOf(a), a)
      BY <1>2, <1>3, <1>4, DrawGoes
    <3>4. GoesOn(ctl', ram', glass', busy', cut', ops', app')
      BY <2>2, <3>1, <3>2, <3>3
    <3> QED
      BY <1>1, <2>2, <2>3, <3>1, <3>4, StillUnderway
  <2> QED
    BY <2>4, <2>5
<1>7. CASE BusFails \/ Drawn
  <2>1. ctl' = ctl /\ ram' = ram /\ busy' = busy /\ phase' = "idle" /\ phase = "draw"
    BY <1>7 DEF BusFails, Drawn, Does, device
  <2>2. ~ PausePasses
    BY <2>1 DEF PausePasses, Kept
  <2>3. Intact(ctl', ram', busy')
    BY <1>4, <2>1
  <2>4. PanelTypeOK'
    BY <1>4, <2>1, <2>2, TypesKept
  <2>5. GlassIsPicture'
    <3>1. CASE BusFails
      <4>1. shown' = None
        BY <1>3, <2>1, <3>1, SoundHere DEF BusFails
      <4> QED
        BY <4>1 DEF GlassIsPicture
    <3>2. CASE Drawn
      BY <1>3, <3>2, DrawnShows
    <3> QED
      BY <1>7, <3>1, <3>2
  <2> QED
    BY <1>1, <2>1, <2>3, <2>4, <2>5, StillSound
<1>8. CASE UNCHANGED panelVars
  <2>1. /\ ctl' = ctl /\ ram' = ram /\ busy' = busy /\ phase' = phase /\ shown' = shown /\ ops' = ops /\ cut' = cut
        /\ glass' = glass /\ app' = app
    BY <1>8 DEF panelVars
  <2>2. PanelTypeOK'
    <3>1. WideOpen' = WideOpen
      BY <1>1 DEF WideOpen, LastAddress, LastColumn, Height, Pages
    <3> HIDE DEF WideOpen
    <3> QED
      BY <1>4, <1>8, <3>1 DEF PanelTypeOK, panelVars
  <2>3. CASE phase = "draw"
    <3>1. shown = None /\ GoesOn(ctl, ram, glass, busy, cut, ops, app)
      BY <1>3, <2>3, SoundHere
    <3>2. GoesOn(ctl', ram', glass', busy', cut', ops', app')
      BY <2>1, <3>1
    <3> QED
      BY <1>1, <2>1, <2>2, <2>3, <3>1, <3>2, StillUnderway
  <2>4. CASE phase # "draw"
    <3>1. Intact(ctl', ram', busy')
      BY <1>4, <2>1
    <3>2. GlassIsPicture'
      <4>1. SUFFICES ASSUME phase' = "idle", shown' # None, ~ cut', NEW m, NEW g, NEW a, m = ram', g = glass', a = shown', NEW p \in Pixels'
            PROVE (IF kind' \in SelfLit THEN Seen(m)' ELSE g)[p] = Canvas(a)'[p]
        BY DEF GlassIsPicture
      <4>2. Seen(m)' = Seen(m) /\ Canvas(a)' = Canvas(a) /\ p \in Pixels
        BY <1>1, SameKind, SameCanvas, SameShape
      <4>3. GlassIsPicture
        BY <1>3 DEF Sound
      <4>4. (IF kind \in SelfLit THEN Seen(m) ELSE g)[p] = Canvas(a)[p]
        BY <2>1, <4>1, <4>2, <4>3 DEF GlassIsPicture
      <4> QED
        BY <1>1, <4>2, <4>4
    <3> QED
      BY <1>1, <2>1, <2>2, <2>4, <3>1, <3>2, StillSound
  <2> QED
    BY <2>3, <2>4
<1> QED
  BY <1>5, <1>6, <1>7, <1>8 DEF PanelNext, OpStep

(* After a draw that ended the glass of every panel whose height its       *)
(* surface can keep is the picture that was painted, pixel by pixel.       *)
GlassIsCanvas ==
  phase = "idle" /\ shown # None /\ ~ cut => \A p \in Pixels : Glass[p] = Canvas(shown)[p]

THEOREM TransfersKeepPictures == PanelSpec => [](Suits => PanelTypeOK /\ GlassIsCanvas)
<1>1. Sound => (Suits => PanelTypeOK /\ GlassIsCanvas)
  <2> SUFFICES ASSUME Sound, Suits PROVE PanelTypeOK /\ GlassIsCanvas
    OBVIOUS
  <2>1. PanelTypeOK /\ GlassIsPicture
    BY DEF Sound
  <2>2. GlassIsCanvas
    BY <2>1 DEF GlassIsPicture, GlassIsCanvas, Glass
  <2> QED
    BY <2>1, <2>2
<1> QED
  BY <1>1, SoundAtFirst, SoundKept, PTL DEF PanelSpec

-----------------------------------------------------------------------------

(* Where a check's status stands: one mode after the other.                *)

PlaceOn(page, c) == CHOOSE j \in DOMAIN page : page[j] = c
MatrixCells(c) ==
  {<<t, CellStart(k) + 1>> : t \in {j \in DOMAIN MatrixShown(PageSize) : MatrixShown(PageSize)[j] = TargetOf[c]},
                             k \in {j \in DOMAIN MatrixColumns : MatrixCheck(TargetOf[c], j) = c}}
CompactCell(i) == <<CellOf(i).row, ColumnStart(CellOf(i).col) + ColumnWidths[CellOf(i).col] - 1>>
IsListed(frame, cell, symbol) == In(frame.failed, cell[1], cell[2]) /\ frame.rows[cell[1]][cell[2]] = symbol

LEMMA CellsByMode ==
  ASSUME NEW a, NEW c
  PROVE  StatusCells(a, c) = IF a.mode = "detail" THEN (IF c = a.selected /\ PageSize > 1 THEN {<<1, DetailLabel>>} ELSE {})
                             ELSE IF a.mode = "text" \/ a.mode = "logo" THEN {}
                             ELSE IF a.mode = "matrix" /\ FitsMatrix THEN MatrixCells(c)
                             ELSE IF c \notin ToSet(PageFor(a)) THEN {}
                             ELSE IF a.mode = "compact" THEN {CompactCell(PlaceOn(PageFor(a), c))}
                             ELSE {<<PlaceOn(PageFor(a), c) - 1, StatusStart>>}
<1> DEFINE page == PageOf(a.mode, a.status, PageSize * (IF a.mode = "compact" THEN Columns ELSE 1))
           i == CHOOSE j \in DOMAIN page : page[j] = c
           targets == SubSeq(Targets, 1, Min({PageSize - 1, Len(Targets)}))
           matrix == {<<t, LabelWidth + CellWidth * (k - 1) + 1>> :
                        t \in {j \in DOMAIN targets : targets[j] = TargetOf[c]},
                        k \in {j \in DOMAIN MatrixColumns : MatrixCheck(TargetOf[c], j) = c}}
           detail == IF c = a.selected /\ PageSize > 1 THEN {<<1, DetailLabel>>} ELSE {}
           compact == {<<CellOf(i).row, ColumnStart(CellOf(i).col) + ColumnWidths[CellOf(i).col] - 1>>}
           legacy == {<<i - 1, StatusStart>>}
<1>1. StatusCells(a, c) = CASE a.mode = "detail" -> detail
                            [] a.mode \in {"text", "logo"} -> {}
                            [] a.mode = "matrix" /\ FitsMatrix -> matrix
                            [] OTHER -> IF c \notin ToSet(page) THEN {} ELSE IF a.mode = "compact" THEN compact ELSE legacy
  BY DEF StatusCells
<1>2. matrix = MatrixCells(c)
  BY DEF MatrixCells, MatrixShown, CellStart
<1>3. page = PageFor(a)
  BY DEF PageFor, PerPage
<1>4. i = PlaceOn(PageFor(a), c)
  BY <1>3, Zenon DEF PlaceOn
<1>5. compact = {CompactCell(PlaceOn(PageFor(a), c))} /\ legacy = {<<PlaceOn(PageFor(a), c) - 1, StatusStart>>}
  <2> HIDE DEF i
  <2> QED
    BY <1>4 DEF CompactCell
<1> HIDE DEF page, i, matrix, detail, compact, legacy
<1>6. StatusCells(a, c) = IF a.mode = "detail" THEN detail
                          ELSE IF a.mode = "text" \/ a.mode = "logo" THEN {}
                          ELSE IF a.mode = "matrix" /\ FitsMatrix THEN matrix
                          ELSE IF c \notin ToSet(page) THEN {} ELSE IF a.mode = "compact" THEN compact ELSE legacy
  BY <1>1
<1> QED
  BY <1>2, <1>3, <1>5, <1>6 DEF detail

LEMMA PlaceIsOnPage ==
  ASSUME NEW page, NEW most, IsPage(page, most), NEW c \in ToSet(page)
  PROVE  /\ PlaceOn(page, c) \in DOMAIN page /\ page[PlaceOn(page, c)] = c
         /\ PlaceOn(page, c) \in Nat \ {0} /\ (most \in Nat => PlaceOn(page, c) <= most)
<1>1. \E j \in DOMAIN page : page[j] = c
  BY DEF ToSet
<1>2. PlaceOn(page, c) \in DOMAIN page /\ page[PlaceOn(page, c)] = c
  BY <1>1 DEF PlaceOn
<1>3. PICK m \in Nat : m <= most /\ DOMAIN page = 1 .. m
  BY DEF IsPage
<1> QED
  BY <1>2, <1>3

LEMMA StatusFits ==
  /\ RowWidth \in Nat /\ StatusWidth \in Nat \ {0} /\ 1 < RowWidth
  /\ StatusStart \in 0 .. RowWidth - 1 /\ StatusStart < RowWidth
BY RowsAssumption DEF StatusStart

LEMMA InSpan ==
  ASSUME NEW spans, NEW s \in spans, NEW r, NEW x \in Int, NEW from \in Int, NEW to \in Int,
         s = Span(r, from, to), from <= x, x < to
  PROVE  In(spans, r, x)
BY DEF In, Span

LEMMA DetailIsListed ==
  ASSUME NEW status, NEW c, NEW n \in Nat, n > 1, status[c] = "FAIL"
  PROVE  IsListed(DetailFrame(status, c, n), <<1, DetailLabel>>, status[c])
<1> DEFINE second == [x \in 0 .. RowWidth - 1 |-> IF x < DetailLabel THEN "n" ELSE IF x = DetailLabel THEN status[c] ELSE " "]
           first == Row(0 .. RowWidth - 1, "n")   two == <<first, second>>   rows == Filled(two, n)
           failed == {Span(1, DetailLabel, DetailLabel + 1)}   f == DetailFrame(status, c, n)
<1>1. f.rows = rows /\ f.failed = failed
  BY DEF DetailFrame, Frame
<1>2. 2 \in DOMAIN two /\ two[2] = second
  OBVIOUS
<1>3. second[1] = status[c]
  <2>1. 1 \in 0 .. RowWidth - 1
    BY StatusFits
  <2> QED
    BY <2>1 DEF DetailLabel
<1> HIDE DEF second, two
<1>4. rows[1] = second
  <2>1. 1 \in 0 .. n - 1 /\ 1 + 1 = 2
    OBVIOUS
  <2> QED
    BY <1>2, <2>1 DEF Filled
<1>5. In(failed, 1, 1)
  <2>1. Span(1, 1, 2) \in failed
    BY DEF DetailLabel
  <2> HIDE DEF failed
  <2> QED
    BY <2>1, InSpan
<1> HIDE DEF rows, failed, f
<1> DEFINE cell == <<1, DetailLabel>>
<1>6. cell[1] = 1 /\ cell[2] = 1
  BY DEF DetailLabel
<1> HIDE DEF cell
<1>7. IsListed(f, cell, status[c])
  BY <1>1, <1>3, <1>4, <1>5, <1>6 DEF IsListed
<1> QED
  BY <1>7 DEF f, cell

LEMMA LegacyIsListed ==
  ASSUME NEW n \in Nat, NEW page, IsPage(page, n), NEW status, NEW selected, NEW c \in ToSet(page), status[c] = "FAIL"
  PROVE  IsListed(LegacyOverview(page, status, selected, n), <<PlaceOn(page, c) - 1, StatusStart>>, status[c])
<1> DEFINE i == PlaceOn(page, c)   g == [j \in DOMAIN page |-> OverviewRow(status[page[j]])]   rows == Filled(g, n)
           failed == {Span(j - 1, StatusStart, RowWidth) : j \in {k \in DOMAIN page : status[page[k]] = "FAIL"}}
           f == LegacyOverview(page, status, selected, n)   cell == <<i - 1, StatusStart>>
<1>1. f.rows = rows /\ f.failed = failed
  BY DEF LegacyOverview, Frame
<1>2. i \in DOMAIN page /\ page[i] = c /\ i \in Nat \ {0} /\ i <= n
  BY PlaceIsOnPage
<1> HIDE DEF i
<1>3. rows[i - 1] = OverviewRow(status[c])
  <2>1. i - 1 \in 0 .. n - 1 /\ (i - 1) + 1 = i
    BY <1>2
  <2>2. i \in DOMAIN g /\ g[i] = OverviewRow(status[c])
    BY <1>2
  <2> HIDE DEF g
  <2> QED
    BY <2>1, <2>2 DEF Filled
<1>4. OverviewRow(status[c])[StatusStart] = status[c]
  <2> DEFINE st == StatusStart
  <2>1. st \in 0 .. RowWidth - 1 /\ st \in Int
    BY StatusFits
  <2>2. OverviewRow(status[c]) = [x \in 0 .. RowWidth - 1 |-> IF x < st - 1 THEN "n" ELSE IF x = st - 1 THEN " " ELSE status[c]]
    BY DEF OverviewRow
  <2> HIDE DEF st
  <2>3. ~ (st < st - 1) /\ st # st - 1
    BY <2>1
  <2>4. OverviewRow(status[c])[st] = status[c]
    BY <2>1, <2>2, <2>3
  <2> QED
    BY <2>4 DEF st
<1>5. In(failed, i - 1, StatusStart)
  <2> DEFINE s == Span(i - 1, StatusStart, RowWidth)
  <2>1. s \in failed
    BY <1>2
  <2>2. StatusStart \in Int /\ RowWidth \in Int /\ StatusStart < RowWidth
    BY StatusFits
  <2> HIDE DEF failed
  <2> QED
    BY <2>1, <2>2, InSpan
<1>6. cell[1] = i - 1 /\ cell[2] = StatusStart
  OBVIOUS
<1> HIDE DEF rows, failed, f, cell
<1>7. IsListed(f, cell, status[c])
  BY <1>1, <1>3, <1>4, <1>5, <1>6 DEF IsListed
<1> QED
  BY <1>7 DEF f, cell, i

LEMMA ColumnsApart ==
  ASSUME NEW j \in 1 .. Columns, NEW k \in 1 .. Columns, NEW x \in Int,
         ColumnStart(j) <= x, x < ColumnStart(j) + ColumnWidths[j],
         ColumnStart(k) <= x, x < ColumnStart(k) + ColumnWidths[k]
  PROVE  j = k
<1>1. /\ ColumnStart(j) \in Nat /\ ColumnStart(k) \in Nat /\ ColumnWidths[j] \in Nat /\ ColumnWidths[k] \in Nat
      /\ j \in Int /\ k \in Int
  BY ColumnsSplit
<1>2. ASSUME NEW l \in 1 .. Columns, NEW h \in 1 .. Columns, l < h PROVE ColumnStart(l) + ColumnWidths[l] <= ColumnStart(h)
  <2>1. l \in 1 .. h - 1
    BY <1>2, ColumnsSplit
  <2> QED
    BY <2>1, ColumnsSplit
<1>3. CASE j < k
  BY <1>1, <1>2, <1>3
<1>4. CASE k < j
  BY <1>1, <1>2, <1>4
<1> QED
  BY <1>1, <1>3, <1>4

LEMMA CompactIsListed ==
  ASSUME NEW n \in Nat \ {0}, NEW page, IsPage(page, n * Columns), NEW status, NEW selected, NEW c \in ToSet(page), status[c] = "FAIL"
  PROVE  IsListed(CompactOverview(page, status, selected, n), CompactCell(PlaceOn(page, c)), status[c])
<1> DEFINE i == PlaceOn(page, c)   r == CellOf(i).row   k == CellOf(i).col   w == ColumnWidths[k]   x == ColumnStart(k) + w - 1
           f == CompactOverview(page, status, selected, n)   rows == CompactRows(page, status, n)   cell == CompactCell(i)
           failed == {CellSpan(h) : h \in {j \in ShownOf(page, n) : status[page[j]] = "FAIL"}}
<1>1. f.rows = rows /\ f.failed = failed
  BY CompactInParts DEF Frame
<1>2. i \in DOMAIN page /\ page[i] = c /\ i \in Nat \ {0} /\ i <= n * Columns
  <2>1. n * Columns \in Nat
    BY ColumnsSplit
  <2> QED
    BY <2>1, PlaceIsOnPage
<1>3. r \in Nat /\ k \in 1 .. Columns /\ r < n
  BY <1>2, CellsFit
<1>4. w \in Nat \ {0} /\ ColumnStart(k) \in Nat /\ ColumnStart(k) + w <= RowWidth
  BY <1>3, ColumnsSplit
<1>5. cell[1] = r /\ cell[2] = x
  BY DEF CompactCell
<1>6. i \in ShownOf(page, n)
  BY <1>2, <1>3 DEF ShownOf
<1> HIDE DEF i
<1>7. CellSpan(i) \in failed /\ CellSpan(i) = Span(r, ColumnStart(k), ColumnStart(k) + w)
  BY <1>2, <1>6 DEF CellSpan
<1>8. CellsAt(page, n, r, x) = {i}
  <2>1. i \in CellsAt(page, n, r, x)
    <3>1. x \in ColumnStart(k) .. ColumnStart(k) + w - 1
      BY <1>4
    <3> QED
      BY <1>6, <3>1 DEF CellsAt
  <2>2. ASSUME NEW j \in CellsAt(page, n, r, x) PROVE j = i
    <3> DEFINE h == CellOf(j).col
    <3>1. j \in DOMAIN page /\ CellOf(j).row = r /\ x \in ColumnStart(h) .. ColumnStart(h) + ColumnWidths[h] - 1
      BY DEF CellsAt, ShownOf
    <3>2. j \in Nat \ {0}
      BY <3>1 DEF IsPage
    <3>3. h \in 1 .. Columns
      BY <3>2, CellsFit
    <3>4. ColumnStart(h) \in Nat /\ ColumnWidths[h] \in Nat \ {0}
      BY <3>3, ColumnsSplit
    <3> DEFINE sh == ColumnStart(h)   wh == ColumnWidths[h]   sk == ColumnStart(k)
    <3>5. x \in Int /\ sh <= x /\ x < sh + wh /\ sk <= x /\ x < sk + w
      <4> DEFINE y == x
      <4>1. sh \in Nat /\ wh \in Nat /\ sk \in Nat /\ w \in Nat \ {0} /\ y = sk + w - 1 /\ y \in sh .. sh + wh - 1
        BY <1>4, <3>1, <3>4
      <4> HIDE DEF sh, wh, sk, w, y
      <4>2. y \in Int /\ sh <= y /\ y < sh + wh /\ sk <= y /\ y < sk + w
        BY <4>1
      <4> QED
        BY <4>2 DEF y
    <3>6. h = k
      BY <1>3, <3>3, <3>5, ColumnsApart
    <3>7. CellOf(j) = CellOf(i)
      BY <3>1, <3>6 DEF CellOf
    <3> QED
      BY <1>2, <3>2, <3>7, CellsFit
  <2> QED
    BY <2>1, <2>2
<1>9. rows[r][x] = status[c]
  <2>1. r \in 0 .. n - 1
    BY <1>3
  <2>2. x \in 0 .. RowWidth - 1 /\ x - ColumnStart(k) = w - 1
    <3> DEFINE sk == ColumnStart(k)
    <3> HIDE DEF w, sk
    <3>1. RowWidth \in Nat
      BY RowsAssumption
    <3> QED
      BY <1>4, <3>1 DEF sk
  <2>3. rows[r] = CompactRow(page, status, n, r)
    BY <2>1 DEF CompactRows
  <2> DEFINE y == x
  <2>4. (CHOOSE j \in {i} : TRUE) = i
    OBVIOUS
  <2>5. CompactRow(page, status, n, r)[y] = CompactSymbol(status[page[i]], y - ColumnStart(k), w)
    <3>1. CompactRow(page, status, n, r)[y] =
            IF CellsAt(page, n, r, y) = {} THEN " "
            ELSE LET h == CHOOSE j \in CellsAt(page, n, r, y) : TRUE
                 IN  CompactSymbol(status[page[h]], y - ColumnStart(CellOf(h).col), ColumnWidths[CellOf(h).col])
      BY <2>2 DEF CompactRow
    <3>2. CellsAt(page, n, r, y) = {i} /\ {i} # {}
      BY <1>8
    <3> HIDE DEF y, r
    <3> QED
      BY <2>4, <3>1, <3>2
  <2>6. CompactSymbol(status[page[i]], y - ColumnStart(k), w) = status[c]
    BY <1>2, <2>2 DEF CompactSymbol
  <2> QED
    BY <2>3, <2>5, <2>6
<1>10. In(failed, r, x)
  <2> DEFINE from == ColumnStart(k)   to == from + w   s == CellSpan(i)   y == x
  <2>1. from \in Int /\ to \in Int /\ y \in Int /\ from <= y /\ y < to /\ s = Span(r, from, to) /\ s \in failed
    <3> HIDE DEF s, failed, r
    <3>1. from \in Nat /\ w \in Nat \ {0}
      BY <1>4
    <3>2. s = Span(r, from, to) /\ s \in failed
      BY <1>7 DEF s
    <3>3. y = from + w - 1 /\ to = from + w
      OBVIOUS
    <3> HIDE DEF from, w, y, to
    <3> QED
      BY <3>1, <3>2, <3>3
  <2> HIDE DEF from, to, s, y, failed, r
  <2>2. In(failed, r, y)
    BY <2>1, InSpan
  <2> QED
    BY <2>2 DEF y
<1> HIDE DEF rows, failed, f, cell, r, x
<1>11. IsListed(f, cell, status[c])
  BY <1>1, <1>5, <1>9, <1>10 DEF IsListed
<1> QED
  BY <1>11 DEF f, cell, i

LEMMA OneColumnHere ==
  ASSUME LabelWidth >= 1, NEW k \in DOMAIN MatrixColumns
  PROVE  CellsOver(CellStart(k) + 1) = {k}
<1> DEFINE x == CellStart(k) + 1
<1>1. CellStart(k) \in Nat
  BY CellStartsRight
<1>2. ASSUME NEW j \in CellsOver(x) PROVE j = k
  <2>1. j \in DOMAIN MatrixColumns /\ (x = CellStart(j) \/ x = CellStart(j) + 1)
    BY DEF CellsOver
  <2>2. CellStart(j) \in Nat /\ CellStart(j) # CellStart(k) + 1 /\ (CellStart(j) = CellStart(k) => j = k)
    BY <2>1, CellStartsRight
  <2> QED
    BY <1>1, <2>1, <2>2
<1>3. k \in CellsOver(x)
  BY DEF CellsOver
<1> HIDE DEF x
<1>4. CellsOver(x) = {k}
  BY <1>2, <1>3
<1> QED
  BY <1>4 DEF x

LEMMA MatrixIsListed ==
  ASSUME kind \in Kinds, LabelWidth >= 1, NEW c \in ToSet(Checks), NEW status, status[c] = "FAIL", NEW cell \in MatrixCells(c),
         NEW height \in Int, NEW reserved \in Int
  PROVE  IsListed(MatrixOverview(status, PageSize, height, reserved, FontH), cell, MatrixGlyph(status[c]))
<1> DEFINE n == PageSize   shownTargets == MatrixShown(n)   rows == MatrixRows(status, n)
           layout == MatrixLayout(status, n, height, reserved)   lines == Filled(rows, IF layout = None THEN n ELSE Len(rows))
           failed == MatrixFailed(status, n)   f == MatrixOverview(status, n, height, reserved, FontH)
<1>1. f.rows = lines /\ f.failed = failed
  <2>1. f = [Frame(lines, None, {}, failed) EXCEPT !.layout = layout]
    BY MatrixInParts
  <2> HIDE DEF f, lines, failed, layout
  <2> QED
    BY <2>1 DEF Frame
<1>2. n \in Nat \ {0}
  BY PageHasRows
<1>3. PICK t \in DOMAIN shownTargets, k \in DOMAIN MatrixColumns :
        shownTargets[t] = TargetOf[c] /\ MatrixCheck(TargetOf[c], k) = c /\ cell = <<t, CellStart(k) + 1>>
  BY DEF MatrixCells
<1> DEFINE x == CellStart(k) + 1
<1>4. cell[1] = t /\ cell[2] = x /\ MatrixCheck(shownTargets[t], k) = c
  BY <1>3
<1>5. c # None
  BY RowsAssumption
<1>6. CellStart(k) \in Nat /\ CellStart(k) >= LabelWidth /\ x < RowWidth /\ LabelWidth \in Int /\ RowWidth \in Nat
  BY CellStartsRight, ColumnsOfMatrix
<1>7. CellsOver(x) = {k}
  BY OneColumnHere
<1>8. PICK m \in Nat : /\ m < n /\ DOMAIN shownTargets = 1 .. m
                       /\ Len(rows) = m + 1 /\ DOMAIN rows = 1 .. m + 1
                       /\ \A i \in 1 .. m : rows[i + 1] = MatrixLine(status, shownTargets[i])
  <2> HIDE DEF n
  <2> QED
    BY <1>2, MatrixRowsAre
<1>9. t \in 1 .. m
  BY <1>8
<1> HIDE DEF n, shownTargets, rows, layout, x
<1>10. lines[t] = MatrixLine(status, shownTargets[t])
  <2> DEFINE size == IF layout = None THEN n ELSE Len(rows)
  <2>1. t \in 0 .. size - 1 /\ t + 1 \in 1 .. m + 1
    BY <1>2, <1>8, <1>9
  <2>2. lines[t] = IF t + 1 \in DOMAIN rows THEN rows[t + 1] ELSE BlankRow
    <3> HIDE DEF size
    <3>1. Filled(rows, size)[t] = IF t + 1 \in DOMAIN rows THEN rows[t + 1] ELSE BlankRow
      BY <2>1 DEF Filled
    <3> QED
      BY <3>1 DEF size
  <2> HIDE DEF lines
  <2> QED
    BY <1>8, <1>9, <2>1, <2>2
<1>11. MatrixLine(status, shownTargets[t])[x] = MatrixGlyph(status[c])
  <2>1. x \in 0 .. RowWidth - 1 /\ ~ (x < LabelWidth)
    BY <1>6 DEF x
  <2> DEFINE u == shownTargets[t]
  <2>2. MatrixLine(status, u)[x] =
          IF x < LabelWidth THEN "n"
          ELSE IF \E j \in CellsOver(x) : x = CellStart(j) + 1 /\ MatrixCheck(u, j) # None
          THEN MatrixGlyph(status[MatrixCheck(u, CHOOSE j \in CellsOver(x) : TRUE)]) ELSE " "
    BY <2>1 DEF MatrixLine
  <2>3. (CHOOSE j \in CellsOver(x) : TRUE) = k
    BY <1>7
  <2>4. x = CellStart(k) + 1 /\ MatrixCheck(u, k) # None /\ k \in CellsOver(x)
    BY <1>4, <1>5, <1>7 DEF x
  <2>5. MatrixCheck(u, k) = c
    BY <1>4
  <2> HIDE DEF u
  <2>6. MatrixLine(status, u)[x] = MatrixGlyph(status[MatrixCheck(u, k)])
    BY <2>1, <2>2, <2>3, <2>4
  <2> QED
    BY <2>5, <2>6 DEF u
<1>12. In(failed, t, x)
  <2> DEFINE p == <<t, k>>   s == MatrixSpan(p)   from == CellStart(k)   to == from + CellWidth
  <2>1. IsFailed(status, shownTargets, p)
    BY <1>4, <1>5 DEF IsFailed
  <2>2. p \in (DOMAIN shownTargets) \X (DOMAIN MatrixColumns)
    OBVIOUS
  <2>3. s \in failed
    BY <2>1, <2>2 DEF MatrixFailed, shownTargets
  <2>4. s = Span(t, from, to)
    BY DEF MatrixSpan
  <2>5. from \in Int /\ to \in Int /\ x \in Int /\ from <= x /\ x < to
    BY <1>6 DEF x, CellWidth
  <2> HIDE DEF failed, s, from, to
  <2> QED
    BY <2>3, <2>4, <2>5, InSpan
<1> HIDE DEF lines, failed, f
<1>13. IsListed(f, cell, MatrixGlyph(status[c]))
  BY <1>1, <1>4, <1>10, <1>11, <1>12 DEF IsListed
<1> QED
  BY <1>13 DEF f, n

LEMMA StatusIsListed ==
  ASSUME kind \in Kinds, NEW a, NEW c \in ToSet(Checks), a.status[c] = "FAIL", NEW cell \in StatusCells(a, c)
  PROVE  IsListed(FrameOf(a), cell, Symbol(a, c))
<1> DEFINE n == PageSize   h == Height   v == Reserved   page == PageFor(a)   f == FrameOf(a)   place == PlaceOn(page, c)
           detail == DetailFrame(a.status, a.selected, n)   matrix == MatrixOverview(a.status, n, h, v, FontH)
           compact == CompactOverview(page, a.status, a.selected, n)   legacy == LegacyOverview(page, a.status, a.selected, n)
<1>1. cell \in (IF a.mode = "detail" THEN (IF c = a.selected /\ n > 1 THEN {<<1, DetailLabel>>} ELSE {})
                ELSE IF a.mode = "text" \/ a.mode = "logo" THEN {}
                ELSE IF a.mode = "matrix" /\ FitsMatrix THEN MatrixCells(c)
                ELSE IF c \notin ToSet(page) THEN {}
                ELSE IF a.mode = "compact" THEN {CompactCell(place)} ELSE {<<place - 1, StatusStart>>})
  BY CellsByMode
<1>2. f = IF a.mode = "detail" THEN detail
          ELSE IF a.mode = "text" THEN TextFrame(n)
          ELSE IF a.mode = "matrix" /\ FitsMatrix THEN matrix
          ELSE IF page = <<>> THEN IdleFrame(n)
          ELSE IF a.mode = "compact" THEN compact ELSE legacy
  BY FrameByMode
<1>3. Symbol(a, c) = IF a.mode = "matrix" /\ FitsMatrix THEN MatrixGlyph(a.status[c]) ELSE a.status[c]
  BY DEF Symbol
<1>4. n \in Nat \ {0} /\ h \in Int /\ v \in Int
  BY PageHasRows, AddressFits, PanelsAssumption DEF Reserved
<1>5. IsPage(page, PerPage(a)) /\ PerPage(a) = n * (IF a.mode = "compact" THEN Columns ELSE 1)
  BY PageForIsPage DEF PerPage
<1>6. c \in ToSet(page) => page # <<>>
  BY DEF ToSet
<1>7. ASSUME a.mode = "matrix" /\ FitsMatrix PROVE IsListed(f, cell, Symbol(a, c))
  <2>1. cell \in MatrixCells(c) /\ LabelWidth >= 1
    BY <1>1, <1>7 DEF FitsMatrix
  <2>2. IsListed(matrix, cell, MatrixGlyph(a.status[c]))
    <3> HIDE DEF h, v
    <3> QED
      BY <1>4, <2>1, MatrixIsListed
  <2>3. f = matrix /\ Symbol(a, c) = MatrixGlyph(a.status[c])
    BY <1>2, <1>3, <1>7
  <2> QED
    BY <2>2, <2>3
<1> SUFFICES IsListed(f, cell, Symbol(a, c))
  OBVIOUS
<1> HIDE DEF n, h, v, page, f, place
<1>8. CASE a.mode = "detail"
  <2>1. c = a.selected /\ n > 1 /\ cell = <<1, DetailLabel>>
    BY <1>1, <1>8
  <2>2. IsListed(DetailFrame(a.status, c, n), <<1, DetailLabel>>, a.status[c])
    BY <1>4, <2>1, DetailIsListed
  <2>3. f = DetailFrame(a.status, c, n) /\ Symbol(a, c) = a.status[c]
    BY <1>2, <1>3, <1>8, <2>1
  <2> QED
    BY <2>1, <2>2, <2>3
<1>9. CASE a.mode # "detail" /\ ~ (a.mode = "matrix" /\ FitsMatrix)
  <2>1. a.mode # "text" /\ c \in ToSet(page) /\ page # <<>> /\ Symbol(a, c) = a.status[c]
    BY <1>1, <1>3, <1>6, <1>9
  <2>2. CASE a.mode = "compact"
    <3>1. IsPage(page, n * Columns)
      BY <1>5, <2>2
    <3>2. IsListed(compact, CompactCell(PlaceOn(page, c)), a.status[c])
      BY <1>4, <2>1, <3>1, CompactIsListed
    <3>3. f = compact /\ cell = CompactCell(place)
      BY <1>1, <1>2, <1>9, <2>1, <2>2
    <3> QED
      BY <2>1, <3>2, <3>3 DEF place
  <2>3. CASE a.mode # "compact"
    <3>1. IsPage(page, n) /\ n \in Nat
      BY <1>4, <1>5, <2>3
    <3>2. IsListed(legacy, <<PlaceOn(page, c) - 1, StatusStart>>, a.status[c])
      BY <2>1, <3>1, LegacyIsListed
    <3>3. f = legacy /\ cell = <<place - 1, StatusStart>>
      BY <1>1, <1>2, <1>9, <2>1, <2>3
    <3> QED
      BY <2>1, <3>2, <3>3 DEF place
  <2> QED
    BY <2>2, <2>3
<1> QED
  BY <1>7, <1>8, <1>9

(* GlassShowsState, for every panel whose height its surface can keep: the *)
(* picture on the glass of a panel that a draw has ended on is the one its *)
(* frame asks for, pixel by pixel, and a failing check of the page stands  *)
(* in it with its status, emphasised, where the mode puts it               *)
(* (render_to_surface, the surfaces, the drivers' _show, core/render.py).  *)
THEOREM StateIsShown == PanelSpec => [](Suits => GlassShowsState)
<1>1. Sound => (Suits => GlassShowsState)
  <2> SUFFICES ASSUME Sound, Suits PROVE GlassShowsState
    OBVIOUS
  <2>1. PanelTypeOK /\ GlassIsPicture /\ kind \in Kinds
    BY DEF Sound, PanelTypeOK
  <2> SUFFICES ASSUME phase = "idle", shown # None
               PROVE  /\ ~ cut => \A p \in Pixels : Glass[Turned(p)] = Wanted(shown, p)
                      /\ \A c \in {d \in ToSet(Checks) : shown.status[d] = "FAIL"} : \A cell \in StatusCells(shown, c) :
                           /\ In(FrameOf(shown).failed, cell[1], cell[2])
                           /\ FrameOf(shown).rows[cell[1]][cell[2]] = Symbol(shown, c)
    BY <2>1 DEF GlassShowsState, PictureIsShown
  <2>2. shown \in Apps
    BY <2>1 DEF PanelTypeOK
  <2>3. ASSUME ~ cut, NEW p \in Pixels PROVE Glass[Turned(p)] = Wanted(shown, p)
    <3>1. Turned(p) \in Pixels /\ Canvas(shown)[Turned(p)] = Wanted(shown, p)
      BY <2>1, <2>2, CanvasHasWanted
    <3>2. Glass[Turned(p)] = Canvas(shown)[Turned(p)]
      BY <2>1, <2>3, <3>1 DEF GlassIsPicture, Glass
    <3> QED
      BY <3>1, <3>2
  <2>4. ASSUME NEW c \in ToSet(Checks), shown.status[c] = "FAIL", NEW cell \in StatusCells(shown, c)
        PROVE  /\ In(FrameOf(shown).failed, cell[1], cell[2])
               /\ FrameOf(shown).rows[cell[1]][cell[2]] = Symbol(shown, c)
    BY <2>1, <2>4, StatusIsListed DEF IsListed
  <2> QED
    BY <2>3, <2>4
<1> QED
  BY <1>1, SoundAtFirst, SoundKept, PTL DEF PanelSpec

=============================================================================
