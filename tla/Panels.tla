--------------------------------- MODULE Panels --------------------------------
(***************************************************************************)
(* From a frame to the glass (firmware/displays): a frame is painted into  *)
(* a surface, packed into the buffers of the panel's kind, sent to its     *)
(* controller and, on e-paper, shown by a refresh that takes its time.  A  *)
(* transfer may fail at any of its parts; DisplayLoop then draws again.    *)
(*                                                                         *)
(* A byte has Bits bits and is the set of those that are one.  A write to  *)
(* the bus takes no time, a sleep or a poll of BUSY one slice or more.     *)
(* The controllers and the wiring of the panels are external.              *)
(***************************************************************************)
EXTENDS Frames

CONSTANTS
  Kinds,        \* the kinds of panel
  Width,        \* width_px
  HeightOf,     \* height_px of each kind
  FontW, FontH, \* the font of the configuration
  Shape,        \* pixels of each character in the built-in font
  Base,         \* BASE_GLYPH_SIZE
  Bits,         \* bits of a byte
  Offset,       \* column_offset, the window of an LCD
  Mark,         \* width, height, gap and position of the heartbeat's mark
  Logo,         \* of the boot logo: least, most, pad, gap, title and version
  Apps,         \* what there is to draw: mode, status, selected, tick, bucket
  RefreshT,     \* longest refresh of an e-paper (environment)
  TimeoutT,     \* timeout_ms of _wait_until_idle
  SleepT,       \* the pause of the 2.13-inch driver's _sleep
  Watchdog,     \* WATCHDOG_MAX_TIMEOUT_MS
  MaxDraws      \* bound

Oled == {"sh1107", "ssd1305"}
SelfLit == Oled \cup {"st77xx"}
Vertical == {"2in13", "2in7v2", "3in7", "2in7"}   \* "2in13" for V3 and V4, and for the 2.9
Horizontal == {"4in2", "4in2v2"}
EPaper == {"213b", "tricolor"} \cup Vertical \cup Horizontal

(* Panels whose driver gives one command two meanings: 0x24 loads a table  *)
(* of the 2.7 and then sends its picture; 0x12 resets the second 4.2 and   *)
(* then refreshes it, with the picture in 0x13, the first one's command.   *)
(* A controller has one of the two meanings, that of the models it shares  *)
(* its set-up with, and the panel does not get its picture.                *)
Misread == {"2in7", "4in2v2"}

(* Panels that can_render_color(failure_color); drivers with a             *)
(* _watchdog_feed for the runtime to set.                                  *)
HasAccent(kind) == kind \in {"st77xx", "213b", "tricolor"}
Feeds(kind) == kind = "213b"

ASSUME PanelsAssumption ==
  /\ Kinds \subseteq SelfLit \cup EPaper
  /\ {Width, FontW, FontH, Base, Bits, RefreshT, TimeoutT} \subseteq Nat \ {0}
  /\ {Offset, SleepT, Watchdog, MaxDraws} \subseteq Nat
  /\ RowWidth = Width \div FontW /\ Width % Bits = 0 /\ HeightOf \in [Kinds -> Nat \ {0}]
  /\ SleepT <= Watchdog   \* 2000 ms and 8388 ms
  /\ {Mark.width, Mark.tall, Mark.gap} \subseteq Nat /\ Mark.position \in {"left", "center", "right"}
  /\ {Logo.least, Logo.most, Logo.pad, Logo.gap} \subseteq Nat /\ {Logo.title, Logo.version} \subseteq Nat \ {0}
  /\ \A a \in Apps : {a.tick, a.bucket} \subseteq Nat

VARIABLES
  kind, rotation,  \* the configuration
  app,             \* what is being drawn
  phase,           \* "idle", "draw" or "raised"
  ops,             \* what the driver has still to do
  ctl,             \* the controller: awake, address order, window, pointer, plane
  ram,             \* its memory
  glass,           \* what an e-paper shows
  busy,            \* slices left of a refresh
  waited,          \* waited_ms
  cut,             \* history: the wait gave up on a busy panel
  shown,           \* history: what the last complete draw drew
  unfed,           \* time since the watchdog was fed
  draws

panelVars == <<kind, rotation, app, phase, ops, ctl, ram, glass, busy, waited, cut, shown, unfed, draws>>

-----------------------------------------------------------------------------
(* Glyphs: a character of the built-in font scaled to a cell, by the share *)
(* of a pixel that its ink covers (_scale_glyph_pixels).                   *)

Overlap(i, s, size) ==
  LET from == Max({i * Base, s * size})
      to == Min({(i + 1) * Base, (s + 1) * size})
  IN  Max({0, to - from})

Sampled(i, size) == Min({Base - 1, ((2 * i + 1) * Base) \div (2 * size)})

Coverage(shape, x, y, w, h) ==
  MapThenSumSet(LAMBDA s : Overlap(x, s[1], w) * Overlap(y, s[2], h), shape)

Scaled(shape, w, h) ==
  {p \in (0 .. w - 1) \X (0 .. h - 1) :
     LET covered == 8 * Coverage(shape, p[1], p[2], w, h)
     IN  \/ covered >= 3 * Base * Base
         \/ covered >= Base * Base /\ <<Sampled(p[1], w), Sampled(p[2], h)>> \in shape}

Glyph(ch, tall) == IF ch = " " THEN {} ELSE Scaled(Shape[ch], FontW, tall)

-----------------------------------------------------------------------------
(* Painting: render_to_surface as a sequence of strokes, each a set of     *)
(* pixels in one colour, that the surface applies in order.                *)

Height == HeightOf[kind]
Pixels == (0 .. Width - 1) \X (0 .. Height - 1)
Reserved == IF kind \in EPaper THEN Mark.tall + Mark.gap ELSE 0
PageSize == Max({1, (Height - Reserved) \div FontH})
FrameOf(a) == RenderFrame(a, PageSize, Height, Reserved, FontH)

(* _RotatedSurface turns a rectangle by its corner and a pixel by itself;  *)
(* the mutant turns the corner as it does a pixel.                         *)
RectTurnedByPixel(x, y, w, h) ==
  LET x0 == IF rotation = 180 THEN Width - 1 - x ELSE x
      y0 == IF rotation = 180 THEN Height - 1 - y ELSE y
  IN  (x0 .. x0 + w - 1) \X (y0 .. y0 + h - 1)

Rect(x, y, w, h) ==
  LET x0 == IF rotation = 180 THEN Width - x - w ELSE x
      y0 == IF rotation = 180 THEN Height - y - h ELSE y
  IN  (x0 .. x0 + w - 1) \X (y0 .. y0 + h - 1)

Turned(p) == IF rotation = 180 THEN <<Width - 1 - p[1], Height - 1 - p[2]>> ELSE p

Stroke(pixels, color) == [pixels |-> pixels, color |-> color]

RowPlace(frame, r) ==
  IF frame.layout # None /\ r \in DOMAIN frame.layout THEN frame.layout[r]
  ELSE [y |-> r * FontH, tall |-> FontH]

In(spans, r, x) == \E s \in spans : s.row = r /\ s.from <= x /\ x < s.to

(* Spans that are inverted: the failed ones too where there is no colour   *)
(* for them.                                                               *)
Emphasised(frame, r) ==
  frame.inverted \cup (IF HasAccent(kind) \/ frame.invertedRow = r THEN {} ELSE frame.failed)

TextColor(frame, r, x) ==
  IF frame.invertedRow = r \/ In(Emphasised(frame, r), r, x) THEN "bg"
  ELSE IF HasAccent(kind) /\ In(frame.failed, r, x) THEN "accent" ELSE "fg"

RowStrokes(frame, r, shift) ==
  LET place == RowPlace(frame, r)
      y == place.y + shift[2]
      spans == {s \in Emphasised(frame, r) : s.row = r}
      ink(x) == {Turned(<<shift[1] + x * FontW + d[1], y + d[2]>>) : d \in Glyph(frame.rows[r][x], place.tall)}
  IN  (IF frame.invertedRow = r THEN <<Stroke(Rect(0, y, Width, place.tall), "fg")>> ELSE <<>>)
      \o SetToSeq({Stroke(Rect(shift[1] + s.from * FontW, y, (s.to - s.from) * FontW, place.tall), "fg") : s \in spans})
      \o [i \in 1 .. RowWidth |-> Stroke(ink(i - 1), TextColor(frame, r, i - 1))]

MarkY == Max({0, Height - Mark.tall - Mark.gap})
Marks(a) == HeartbeatPixels(Width, 1, Mark.width, Mark.position, a.bucket)

MarkStrokes(a) == SetToSeq({Stroke(Rect(x, MarkY, Mark.width, Mark.tall), "fg") : x \in Marks(a)})

FrameStrokes(a) ==
  LET frame == FrameOf(a)
      rows == [r \in 1 .. Cardinality(DOMAIN frame.rows) |-> RowStrokes(frame, r - 1, ShiftOffset(a.tick))]
  IN  FlattenSeq(rows) \o MarkStrokes(a)

(* The boot logo: the title and the version below it, in the largest fonts *)
(* that fit (render_boot_logo_to_surface).                                 *)
Clamped(size) == Max({Logo.least, Min({Logo.most, size})})

LogoSpacing(size) == Max({1, size \div 8})
LogoTextWidth(length, size) == length * size + (length - 1) * LogoSpacing(size)

LogoFont(length, limit) ==
  LET room == Max({Logo.least, Width - 2 * Max({Logo.pad, Width \div 16})})
      candidate == Clamped(Min({room \div length, limit}))
  IN  Max({Logo.least} \cup {f \in 1 .. candidate : LogoTextWidth(length, f) <= room})

LogoLetters ==
  LET title == LogoFont(Logo.title, (Height * 55) \div 100)
      version == LogoFont(Logo.version, Min({((Height - title) * 60) \div 100, (title * 2) \div 3}))
      gap == Max({Logo.gap, Height \div 16})
      top == Max({0, (Height - (title + gap + version)) \div 2})
      text(length, size, y) ==
        LET left == Max({0, (Width - LogoTextWidth(length, size)) \div 2})
        IN  [i \in 1 .. length |-> [x |-> left + (i - 1) * (size + LogoSpacing(size)), y |-> y, size |-> size]]
  IN  text(Logo.title, title, top) \o text(Logo.version, version, top + title + gap)

InkOf(letter) == {<<letter.x + d[1], letter.y + d[2]>> : d \in Scaled(Shape["n"], letter.size, letter.size)}

LogoStrokes == [i \in DOMAIN LogoLetters |-> Stroke({Turned(p) : p \in InkOf(LogoLetters[i])}, "fg")]

Strokes(a) == IF a.mode = "logo" THEN LogoStrokes ELSE FrameStrokes(a)

Apply(canvas, stroke) == [p \in Pixels |-> IF p \in stroke.pixels THEN stroke.color ELSE canvas[p]]

Canvas(a) == FoldLeft(Apply, [p \in Pixels |-> "bg"], Strokes(a))

-----------------------------------------------------------------------------
(* Packing: the surfaces' buffers.                                         *)

(* Bytes of eight rows each, or of eight columns each.                     *)
Tall(k) == k \in Oled \cup {"213b"} \cup Vertical
Pages == (Height + Bits - 1) \div Bits
RowBytes == (Width + Bits - 1) \div Bits

BufferLength ==
  CASE kind = "213b" -> Width * Pages
    [] kind \in Oled \cup Vertical -> (Width * Height) \div Bits
    [] OTHER -> RowBytes * Height

IndexOf(p) == IF Tall(kind) THEN p[1] + (p[2] \div Bits) * Width ELSE p[2] * RowBytes + (p[1] \div Bits)

(* set_pixel's IndexError. *)
Raises(a) ==
  kind # "st77xx" /\ \E s \in ToSet(Strokes(a)) : \E p \in s.pixels \cap Pixels : IndexOf(p) >= BufferLength

(* The bit a surface stores for a colour.                                  *)
PlaneBit(plane, color) ==
  IF kind \in Oled \cup Vertical THEN color = "fg"
  ELSE color # (IF plane = "black" THEN "fg" ELSE "accent")

BitSet(canvas, plane, p) == PlaneBit(plane, IF p \in Pixels THEN canvas[p] ELSE "bg")

ByteAt(canvas, plane, i) ==
  {b \in 0 .. Bits - 1 :
     BitSet(canvas, plane,
            IF Tall(kind) THEN <<i % Width, (i \div Width) * Bits + b>>
            ELSE <<(i % RowBytes) * Bits + (Bits - 1 - b), i \div RowBytes>>)}

Buffer(canvas, plane) == [i \in 0 .. BufferLength - 1 |-> ByteAt(canvas, plane, i)]

Inverted(byte) == (0 .. Bits - 1) \ byte

(* _rotate_buffer_clockwise. *)
Rotated(buffer) ==
  [n \in 0 .. Height * (Width \div Bits) - 1 |->
     {b \in 0 .. Bits - 1 :
        LET x == (n \div Height) * Bits + b
            y == Height - 1 - (n % Height)
        IN  (y % Bits) \in buffer[x + (y \div Bits) * Width]}]

-----------------------------------------------------------------------------
(* Sending: what each driver does for a frame.                             *)

Op(name) == [op |-> name]
At(a, b) == [op |-> "at", a |-> a, b |-> b]
Window(a0, a1, b0, b1) == [op |-> "window", a0 |-> a0, a1 |-> a1, b0 |-> b0, b1 |-> b1]
RowWindow(b0, b1) == [op |-> "rows", b0 |-> b0, b1 |-> b1]
Order(first) == [op |-> "order", first |-> first]
Plane(plane) == [op |-> "plane", plane |-> plane]
Data(bytes) == [op |-> "data", bytes |-> bytes]
Pause(slices) == [op |-> "pause", slices |-> slices]

Slice(buffer, from, n) == [i \in 1 .. n |-> buffer[from + i - 1]]

(* A driver that sends a page at a time.                                   *)
PageOps(buffer, pages, columns) ==
  FlattenSeq([k \in 1 .. pages |-> <<At(k - 1, Offset), Data(Slice(buffer, (k - 1) * columns, columns))>>])

Sh1107Ops(canvas) == PageOps(Rotated(Buffer(canvas, "black")), Width \div Bits, Height)
Ssd1305Ops(canvas) == PageOps(Buffer(canvas, "black"), Height \div Bits, Width)

LcdOps(canvas) ==
  <<Window(Offset, Offset + Height - 1, Offset, Offset + Width - 1), At(Offset, Offset),
    Data([i \in 1 .. Width * Height |-> canvas[<<(i - 1) % Width, (i - 1) \div Width>>]])>>

Reset == <<Op("reset"), Op("wait"), Op("reset"), Op("wait")>>
End == <<Op("refresh"), Op("wait"), Op("sleep")>>

(* The 2.13-inch three-colour driver: in landscape order, its window given *)
(* in pages, with a feed for each page and a pause after the sleep command.*)
LandscapeSetUp == Reset \o <<Order("b"), Window(0, Pages - 1, 0, Width - 1), At(0, 0), Op("wait")>>

LandscapePlane(plane, buffer) ==
  <<Plane(plane)>>
  \o FlattenSeq([k \in 1 .. Pages |-> <<Op("feed"), Data(Slice(buffer, (Pages - k) * Width, Width))>>])
  \o <<Op("feed")>>

LandscapeOps(canvas) ==
  LandscapeSetUp \o LandscapePlane("black", Buffer(canvas, "black"))
  \o LandscapePlane("accent", Buffer(canvas, "accent")) \o <<Op("feed")>> \o End \o <<Pause(SleepT)>>

(* The mono panels with a vertical surface.  The 2.7 V2 keeps the columns  *)
(* of its reset and sets its rows, the 3.7 keeps the pointer of its reset, *)
(* and the 2.7 is set up by its registers.                                 *)
VerticalSetUp ==
  CASE kind = "2in13" -> Reset \o <<Order("a"), Window(0, Pages - 1, 0, Width - 1), At(0, 0), Op("wait")>>
    [] kind = "2in7v2" -> <<Op("reset"), Op("reset"), Op("wait"), RowWindow(0, Width - 1), Order("a"), Op("wait")>>
    [] kind = "3in7" -> <<Op("reset"), Op("reset"), Op("wait"), Op("wait"), Order("a"), Window(0, Pages - 1, 0, Width - 1)>>
    [] kind = "2in7" -> <<Op("reset"), Op("wait")>>

(* What the command for the picture is to the controller, and what the     *)
(* command for the refresh is.                                             *)
Picture == Plane(IF kind \in Misread THEN "other" ELSE "black")
Refresh == IF kind = "4in2v2" THEN Op("reset") ELSE Op("refresh")

(* All bytes of the buffer, in columns of Height \div Bits: each from its  *)
(* last byte up.                                                           *)
VerticalOps(canvas) ==
  LET buffer == Buffer(canvas, "black")
      count == Max({1, Height \div Bits})
      columns == (BufferLength + count - 1) \div count
      column(c) == [v \in 1 .. Min({count, BufferLength - (c - 1) * count}) |->
                      Inverted(buffer[Width * (count - v) + c - 1])]
  IN  VerticalSetUp \o <<Picture>> \o [c \in 1 .. columns |-> Data(column(c))] \o End

(* The mono panels with a horizontal surface: a row at a time.  The first  *)
(* 4.2 has its order from its panel setting and its window from its        *)
(* resolution, and starts a picture at its origin.                         *)
HorizontalSetUp ==
  IF kind = "4in2"
  THEN <<Op("reset"), Op("wait"), Order("a"), Window(0, RowBytes - 1, 0, Height - 1), At(0, 0)>>
  ELSE Reset \o <<Order("a"), Window(0, RowBytes - 1, 0, Height - 1), At(0, 0), Op("wait")>>

HorizontalOps(canvas) ==
  LET buffer == Buffer(canvas, "black")
      row(y) == [i \in 1 .. Width \div Bits |-> Inverted(buffer[y * (Width \div Bits) + i - 1])]
  IN  HorizontalSetUp \o <<Picture>> \o [y \in 1 .. Height |-> Data(row(y - 1))]
      \o <<Refresh, Op("wait"), Op("sleep")>>

(* The three-colour panel: its controller starts each plane at its origin. *)
TriColorSetUp == <<Op("reset"), Op("wait"), Order("a"), Window(0, RowBytes - 1, 0, Height - 1)>>

TriColorPlane(plane, buffer) ==
  <<At(0, 0), Plane(plane), Data(Slice(buffer, 0, BufferLength))>>

TriColorOps(canvas) ==
  LET black == Buffer(canvas, "black")
  IN  TriColorSetUp \o TriColorPlane("black", [i \in DOMAIN black |-> Inverted(black[i])])
      \o TriColorPlane("accent", Buffer(canvas, "accent")) \o End

OpsFor(canvas) ==
  CASE kind = "sh1107" -> Sh1107Ops(canvas)
    [] kind = "ssd1305" -> Ssd1305Ops(canvas)
    [] kind = "st77xx" -> LcdOps(canvas)
    [] kind = "213b" -> LandscapeOps(canvas)
    [] kind \in Vertical -> VerticalOps(canvas)
    [] kind \in Horizontal -> HorizontalOps(canvas)
    [] kind = "tricolor" -> TriColorOps(canvas)

OpsOf(a) == OpsFor(Canvas(a))

-----------------------------------------------------------------------------
(* The controllers and the wiring of the panels.                           *)

Junk == IF kind = "st77xx" THEN "junk" ELSE {Bits}   \* memory nobody has written
Planes == {"black", "accent", "other"}   \* no panel shows "other"
LastAddress == Max({Width, Height}) - 1 + Offset
Addresses == (0 .. LastAddress) \X (0 .. LastAddress)

(* The pointer after a byte: along one axis to the window's end, then one  *)
(* further on the other.                                                   *)
Next1(i, from, to) == IF i >= to THEN from ELSE i + 1

Advance(c) ==
  IF c.first = "b"
  THEN [c EXCEPT !.b = Next1(c.b, c.b0, c.b1), !.a = IF c.b >= c.b1 THEN Next1(c.a, c.a0, c.a1) ELSE c.a]
  ELSE [c EXCEPT !.a = Next1(c.a, c.a0, c.a1), !.b = IF c.a >= c.a1 THEN Next1(c.b, c.b0, c.b1) ELSE c.b]

Stored(s, byte) == [c |-> Advance(s.c), ram |-> [s.ram EXCEPT ![s.c.plane][<<s.c.a, s.c.b>>] = byte]]
Written(c, memory, bytes) == FoldLeft(Stored, [c |-> c, ram |-> memory], bytes)

(* After a reset the window is the controller's memory; the 2.7 V2's has   *)
(* the columns of its panel.                                               *)
LastColumn == IF kind = "2in7v2" THEN Pages - 1 ELSE LastAddress

WideOpen == [awake |-> TRUE, first |-> "b", a0 |-> 0, a1 |-> LastColumn,
             b0 |-> 0, b1 |-> LastAddress, a |-> 0, b |-> 0, plane |-> "black"]

(* What the glass makes of the memory. *)
Lit(byte, b, color) == IF Bits \in byte THEN "junk" ELSE IF b \in byte THEN color ELSE "bg"
Dark(byte, b, color) == IF Bits \in byte THEN "junk" ELSE IF b \in byte THEN "bg" ELSE color

SeenAt(memory, p) ==
  LET x == p[1]
      y == p[2]
      nx == Bits * Pages - 1 - y
      tall(plane) == memory[plane][<<nx \div Bits, x>>]
      flat(plane) == memory[plane][<<x \div Bits, y>>]
      tb == Bits - 1 - (nx % Bits)
      fb == Bits - 1 - (x % Bits)
  IN  CASE kind = "sh1107" -> Lit(memory["black"][<<x \div Bits, Offset + Height - 1 - y>>], x % Bits, "fg")
        [] kind = "ssd1305" -> Lit(memory["black"][<<y \div Bits, Offset + x>>], y % Bits, "fg")
        [] kind = "st77xx" -> memory["black"][<<Offset + y, Offset + x>>]
        [] kind = "213b" -> IF Dark(tall("accent"), tb, "accent") # "bg" THEN Dark(tall("accent"), tb, "accent")
                            ELSE Dark(tall("black"), tb, "fg")
        [] kind \in Vertical -> Dark(tall("black"), tb, "fg")
        [] kind \in Horizontal -> Lit(flat("black"), fb, "fg")
        [] kind = "tricolor" -> IF Dark(flat("accent"), fb, "accent") # "bg" THEN Dark(flat("accent"), fb, "accent")
                                ELSE Lit(flat("black"), fb, "fg")

Seen(memory) == [p \in Pixels |-> SeenAt(memory, p)]
Glass == IF kind \in SelfLit THEN Seen(ram) ELSE glass

-----------------------------------------------------------------------------

(* The glass before a first refresh, or after one that was cut short. *)
NoPicture == [p \in Pixels |-> None]

PanelInit ==
  /\ kind \in Kinds /\ rotation \in {0, 180} /\ app = None
  /\ phase = "idle" /\ ops = <<>> /\ ctl = WideOpen
  /\ ram = [plane \in Planes |-> [x \in Addresses |-> Junk]]
  /\ glass = NoPicture /\ busy = 0 /\ waited = 0 /\ cut = FALSE /\ shown = None
  /\ unfed = 0 /\ draws = 0

device == <<ctl, ram, glass, busy>>

(* draw_frame and show_boot_logo.  Of a picture that raises, the set-up     *)
(* before it is left out.                                                  *)
Draw(a) ==
  /\ phase # "draw" /\ draws < MaxDraws
  /\ app' = a /\ draws' = draws + 1 /\ cut' = FALSE /\ unfed' = 0 /\ waited' = 0
  /\ IF Raises(a)
     THEN phase' = "raised" /\ UNCHANGED ops
     ELSE phase' = "draw" /\ ops' = OpsOf(a)
  /\ shown' = None
  /\ UNCHANGED <<kind, rotation, device>>

Does(name) == phase = "draw" /\ ops # <<>> /\ Head(ops).op = name
Goes == ops' = Tail(ops)
Kept == UNCHANGED <<kind, rotation, app, phase, shown, draws>>

(* A command to a controller that sleeps, or whose e-paper is refreshing,  *)
(* has no effect.                                                          *)
Heard == ctl.awake /\ busy = 0

SetUp ==
  /\ \E name \in {"at", "window", "rows", "order", "plane"} : Does(name)
  /\ LET o == Head(ops)
     IN  ctl' = IF ~ Heard THEN ctl
                ELSE CASE o.op = "at" -> [ctl EXCEPT !.a = o.a, !.b = o.b]
                       [] o.op = "window" -> [ctl EXCEPT !.a0 = o.a0, !.a1 = o.a1, !.b0 = o.b0, !.b1 = o.b1]
                       [] o.op = "rows" -> [ctl EXCEPT !.b0 = o.b0, !.b1 = o.b1, !.b = o.b0]
                       [] o.op = "order" -> [ctl EXCEPT !.first = o.first]
                       [] o.op = "plane" -> [ctl EXCEPT !.plane = o.plane]
  /\ Goes /\ Kept /\ UNCHANGED <<ram, glass, busy, waited, cut, unfed>>

Transfer ==
  /\ Does("data")
  /\ IF Heard
     THEN LET after == Written(ctl, ram, Head(ops).bytes) IN ctl' = after.c /\ ram' = after.ram
     ELSE UNCHANGED <<ctl, ram>>
  /\ Goes /\ Kept /\ UNCHANGED <<glass, busy, waited, cut, unfed>>

(* The reset line, or the software reset. *)
ResetPanel ==
  /\ Does("reset")
  /\ ctl' = WideOpen /\ busy' = 0
  /\ glass' = IF busy > 0 THEN NoPicture ELSE glass
  /\ Goes /\ Kept /\ UNCHANGED <<ram, waited, cut, unfed>>

StartRefresh ==
  /\ Does("refresh")
  /\ IF Heard THEN busy' \in 1 .. RefreshT ELSE UNCHANGED busy
  /\ Goes /\ Kept /\ UNCHANGED <<ctl, ram, glass, waited, cut, unfed>>

Fed == unfed' = 0
Unfed(n) == unfed' = Min({unfed + n, Watchdog + 1})

(* A slice of _wait_until_idle; the mutant is the wait of the other        *)
(* e-paper drivers.                                                        *)
SliceUnfed == Unfed(1)
SlicePasses == IF Feeds(kind) THEN Fed ELSE Unfed(1)

WaitSlice ==
  /\ Does("wait") /\ busy > 0 /\ waited < TimeoutT
  /\ busy' = busy - 1 /\ waited' = waited + 1
  /\ glass' = IF busy = 1 THEN Seen(ram) ELSE glass
  /\ SlicePasses
  /\ UNCHANGED ops /\ Kept /\ UNCHANGED <<ctl, ram, cut>>

EndWait ==
  /\ Does("wait") /\ (busy = 0 \/ waited = TimeoutT)
  /\ waited' = 0 /\ cut' = (cut \/ busy > 0)
  /\ IF Feeds(kind) THEN Fed ELSE UNCHANGED unfed
  /\ Goes /\ Kept /\ UNCHANGED device

FeedWatchdog ==
  /\ Does("feed") /\ Fed
  /\ Goes /\ Kept /\ UNCHANGED <<device, waited, cut>>

(* Deep sleep and the reset line low; a refresh that still runs is lost.   *)
GoToSleep ==
  /\ Does("sleep")
  /\ ctl' = [ctl EXCEPT !.awake = FALSE] /\ busy' = 0
  /\ glass' = IF busy > 0 THEN NoPicture ELSE glass
  /\ Goes /\ Kept /\ UNCHANGED <<ram, waited, cut, unfed>>

PausePasses ==
  /\ Does("pause") /\ Unfed(Head(ops).slices)
  /\ Goes /\ Kept /\ UNCHANGED <<device, waited, cut>>

(* The bus raises; the display loop counts it and draws again later.       *)
BusFails ==
  /\ \E name \in {"at", "window", "rows", "order", "data", "plane", "refresh", "sleep"} : Does(name)
  /\ phase' = "idle" /\ ops' = <<>> /\ waited' = 0
  /\ UNCHANGED <<kind, rotation, app, device, cut, shown, unfed, draws>>

Drawn ==
  /\ phase = "draw" /\ ops = <<>>
  /\ phase' = "idle" /\ shown' = app
  /\ UNCHANGED <<kind, rotation, app, ops, device, waited, cut, unfed, draws>>

PanelNext ==
  \/ \E a \in Apps : Draw(a)
  \/ SetUp \/ Transfer \/ ResetPanel \/ StartRefresh \/ WaitSlice \/ EndWait
  \/ FeedWatchdog \/ GoToSleep \/ PausePasses \/ BusFails \/ Drawn

PanelSpec == PanelInit /\ [][PanelNext]_panelVars

-----------------------------------------------------------------------------

PanelTypeOK ==
  /\ kind \in Kinds /\ rotation \in {0, 180} /\ app \in Apps \cup {None}
  /\ phase \in {"idle", "draw", "raised"} /\ shown \in Apps \cup {None}
  /\ DOMAIN ctl = DOMAIN WideOpen /\ busy \in 0 .. RefreshT /\ waited \in 0 .. TimeoutT
  /\ unfed \in 0 .. Watchdog + 1 /\ draws \in 0 .. MaxDraws

(* The colour a frame gives a pixel of the unrotated picture.              *)
InRows(frame, a, p) ==
  LET shift == ShiftOffset(a.tick)
      x == p[1] - shift[1]
      y == p[2] - shift[2]
      here == {r \in DOMAIN frame.rows : RowPlace(frame, r).y <= y /\ y < RowPlace(frame, r).y + RowPlace(frame, r).tall}
      r == CHOOSE i \in here : TRUE
      col == IF x < 0 THEN -1 ELSE x \div FontW
      ink == /\ col \in 0 .. RowWidth - 1
             /\ <<x % FontW, y - RowPlace(frame, r).y>> \in Glyph(frame.rows[r][col], RowPlace(frame, r).tall)
      failed == In(frame.failed, r, col)
      strong == frame.invertedRow = r \/ In(frame.inverted, r, col) \/ (failed /\ ~ HasAccent(kind))
  IN  IF p[2] \in MarkY .. MarkY + Mark.tall - 1 /\ \E m \in Marks(a) : p[1] \in m .. m + Mark.width - 1 THEN "fg"
      ELSE IF here = {} THEN "bg"
      ELSE IF ink THEN (IF strong THEN "bg" ELSE IF failed THEN "accent" ELSE "fg")
      ELSE IF strong THEN "fg" ELSE "bg"

InFrame(a, p) == InRows(FrameOf(a), a, p)

Wanted(a, p) ==
  IF a.mode # "logo" THEN InFrame(a, p)
  ELSE IF \E i \in DOMAIN LogoLetters : p \in InkOf(LogoLetters[i]) THEN "fg" ELSE "bg"

(* The cells where a mode puts the status of a check of the page. *)
StatusCells(a, c) ==
  LET perPage == PageSize * (IF a.mode = "compact" THEN Columns ELSE 1)
      page == PageOf(a.mode, a.status, perPage)
      i == CHOOSE j \in DOMAIN page : page[j] = c
      shownTargets == SubSeq(Targets, 1, Min({PageSize - 1, Len(Targets)}))
  IN  CASE a.mode = "detail" -> IF c = a.selected /\ PageSize > 1 THEN {<<1, DetailLabel>>} ELSE {}
        [] a.mode \in {"text", "logo"} -> {}
        [] a.mode = "matrix" /\ FitsMatrix ->
             {<<t, LabelWidth + CellWidth * (k - 1) + 1>> :
                t \in {j \in DOMAIN shownTargets : shownTargets[j] = TargetOf[c]},
                k \in {j \in DOMAIN MatrixColumns : MatrixCheck(TargetOf[c], j) = c}}
        [] OTHER ->
             IF c \notin ToSet(page) THEN {}
             ELSE IF a.mode = "compact"
             THEN {<<CellOf(i).row, ColumnStart(CellOf(i).col) + ColumnWidths[CellOf(i).col] - 1>>}
             ELSE {<<i - 1, StatusStart>>}

Symbol(a, c) == IF a.mode = "matrix" /\ FitsMatrix THEN MatrixGlyph(a.status[c]) ELSE a.status[c]

(* After a draw that ended the glass is the picture of its frame, pixel by *)
(* pixel (render_to_surface, the surfaces, the drivers' _show): docs/      *)
(* spec.md:25 names the panels that are to show it.  A panel that is still *)
(* busy at the end of the wait is left out: its picture is lost.           *)
PictureIsShown ==
  phase = "idle" /\ shown # None /\ ~ cut => \A p \in Pixels : Glass[Turned(p)] = Wanted(shown, p)

(* The glass is that picture whatever an earlier, failed or interrupted    *)
(* transfer left in the controller, and in it a failing check of the page  *)
(* has its status where the mode puts it, emphasised.  The two panels      *)
(* whose driver gives a command two meanings are left out.                 *)
GlassShowsState ==
  /\ PanelTypeOK
  /\ kind \notin Misread => PictureIsShown
  /\ phase = "idle" /\ shown # None =>
       \A c \in {d \in ToSet(Checks) : shown.status[d] = "FAIL"} : \A cell \in StatusCells(shown, c) :
         /\ In(FrameOf(shown).failed, cell[1], cell[2])
         /\ FrameOf(shown).rows[cell[1]][cell[2]] = Symbol(shown, c)

(* The 2.13-inch driver, the one that has a feed, keeps the watchdog fed   *)
(* through its resets, its transfer, the refresh and the pause after it.   *)
WatchdogIsFed == Feeds(kind) => unfed <= Watchdog

(* Every pixel of a frame has its place in the buffer: no draw raises.     *)
FrameFits == phase # "raised"
=============================================================================
