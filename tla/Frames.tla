--------------------------------- MODULE Frames --------------------------------
(***************************************************************************)
(* What the display is to show (src/vivipi/core/render.py, text.py,        *)
(* shift.py, liveness.py): a frame of text rows with the spans that are    *)
(* emphasised, made from the checks of the current page.  Which checks the *)
(* page holds, and when a frame is made, is in Navigation and DisplayLoop. *)
(*                                                                         *)
(* Rows and columns count from 0 as in the code.  A character is one of a  *)
(* few symbols: what matters of a text is where it stands and whether a    *)
(* cell of it has ink.                                                     *)
(***************************************************************************)
EXTENDS Integers, Sequences, FiniteSets, SequencesExt, FiniteSetsExt

CONSTANTS
  Checks,        \* the checks of the page in their order, a sequence
  TargetOf,      \* matrix row of each check, by its name
  ColumnOf,      \* matrix column of each check, by its last word
  MatrixColumns, \* MATRIX_DEFAULT_COLUMNS, a sequence
  RowWidth,      \* characters of a row
  StatusWidth,   \* status_width, characters of a status
  Columns,       \* overview_columns of the compact mode
  None           \* Python's None

Statuses == {"OK", "DEG", "FAIL", "?"}
Modes == {"standard", "compact", "matrix", "detail", "text"}

ASSUME RowsAssumption ==
  /\ StatusWidth \in Nat \ {0} /\ RowWidth \in Nat /\ RowWidth > StatusWidth + 1
  /\ Columns \in 1 .. 4 /\ RowWidth - (Columns - 1) >= Columns
  /\ Checks \in Seq(ToSet(Checks)) /\ None \notin ToSet(Checks)
  /\ \A i, j \in DOMAIN Checks : Checks[i] = Checks[j] => i = j
  /\ MatrixColumns \in Seq(ToSet(MatrixColumns))

Row(S, ch) == [x \in 0 .. RowWidth - 1 |-> IF x \in S THEN ch ELSE " "]
BlankRow == Row({}, " ")
Span(row, from, to) == [row |-> row, from |-> from, to |-> to]

(* The members of a set in an order, by how many come before each.         *)
Ranked(S, before(_, _)) ==
  [k \in 1 .. Cardinality(S) |-> CHOOSE x \in S : Cardinality({y \in S : before(y, x)}) = k - 1]

(* The rows of the page, blank below the text. *)
Filled(rows, pageSize) == [r \in 0 .. pageSize - 1 |-> IF r + 1 \in DOMAIN rows THEN rows[r + 1] ELSE BlankRow]

Frame(rows, row, selected, failed) ==
  [rows |-> rows, invertedRow |-> row, inverted |-> selected, failed |-> failed, layout |-> None]

-----------------------------------------------------------------------------
(* One check per row, its status at the right: _legacy_overview_frame with *)
(* overview_row_layout.                                                    *)

StatusStart == RowWidth - StatusWidth
StatusColumns == StatusStart .. RowWidth - 1

(* Symbols: n is a letter of a name, the status is its first letter. *)
OverviewRow(status) ==
  [x \in 0 .. RowWidth - 1 |->
     IF x < StatusStart - 1 THEN "n" ELSE IF x = StatusStart - 1 THEN " " ELSE status]

LegacyOverview(page, status, selected, pageSize) ==
  Frame(Filled([i \in DOMAIN page |-> OverviewRow(status[page[i]])], pageSize),
        IF selected \in ToSet(page) THEN (CHOOSE i \in DOMAIN page : page[i] = selected) - 1 ELSE None,
        {},
        {Span(i - 1, StatusStart, RowWidth) : i \in {j \in DOMAIN page : status[page[j]] = "FAIL"}})

-----------------------------------------------------------------------------
(* Several checks per row, a suffix for what is not OK:                    *)
(* _compact_overview_frame with column_widths and compact_overview_cell.   *)

ColumnWidths ==
  LET available == RowWidth - (Columns - 1)
  IN  [k \in 1 .. Columns |-> (available \div Columns) + (IF k <= available % Columns THEN 1 ELSE 0)]

ColumnStart(k) == MapThenSumSet(LAMBDA j : ColumnWidths[j] + 1, 1 .. k - 1)

(* The cells of a check, and the width of its text in them: a name as long *)
(* as the cell allows, the suffix last.                                    *)
CellOf(i) == [row |-> (i - 1) \div Columns, col |-> ((i - 1) % Columns) + 1]

CompactSymbol(status, x, width) == IF status # "OK" /\ x = width - 1 THEN status ELSE "n"

CompactOverview(page, status, selected, pageSize) ==
  LET shown == {i \in DOMAIN page : CellOf(i).row < pageSize}
      from(i) == ColumnStart(CellOf(i).col)
      width(i) == ColumnWidths[CellOf(i).col]
      whole(i) == Span(CellOf(i).row, from(i), from(i) + width(i))
      at(r, x) == {i \in shown : CellOf(i).row = r /\ x \in from(i) .. from(i) + width(i) - 1}
  IN  Frame([r \in 0 .. pageSize - 1 |-> [x \in 0 .. RowWidth - 1 |->
               IF at(r, x) = {} THEN " "
               ELSE LET i == CHOOSE j \in at(r, x) : TRUE
                    IN  CompactSymbol(status[page[i]], x - from(i), width(i))]],
            None,
            {whole(i) : i \in {j \in shown : page[j] = selected}},
            {whole(i) : i \in {j \in shown : status[page[j]] = "FAIL"}})

-----------------------------------------------------------------------------
(* A row per target and a column per probe: _matrix_overview_frame.        *)

CellWidth == 2
LabelWidth == RowWidth - CellWidth * Len(MatrixColumns)

MatrixGlyph(status) == CASE status = "FAIL" -> "X" [] status = "DEG" -> "x" [] status = "OK" -> "." [] OTHER -> "?"

(* Of two checks with the same place the first one counts. *)
MatrixCheck(target, k) ==
  LET here == SelectSeq(Checks, LAMBDA c : TargetOf[c] = target /\ ColumnOf[c] = MatrixColumns[k])
  IN  IF here = <<>> THEN None ELSE Head(here)

InMatrix == {c \in ToSet(Checks) : TargetOf[c] # None /\ ColumnOf[c] \in ToSet(MatrixColumns)}

(* Targets with several probes first, then by name, which here is their    *)
(* first check's place.                                                    *)
Targets ==
  LET first(t) == Min({i \in DOMAIN Checks : Checks[i] \in InMatrix /\ TargetOf[Checks[i]] = t})
      single(t) == Cardinality({k \in DOMAIN MatrixColumns : MatrixCheck(t, k) # None}) <= 1
  IN  Ranked({TargetOf[c] : c \in InMatrix},
        LAMBDA s, t : IF single(s) # single(t) THEN single(t) ELSE first(s) < first(t))

FitsMatrix == LabelWidth >= 1 /\ InMatrix # {}

(* matrix_row_layout: taller rows when few of them share the screen.       *)
RowLayout(count, height, reserved, fontHeight) ==
  LET usable == Max({fontHeight, height - reserved})
      pitch == usable \div count
  IN  IF pitch <= fontHeight THEN None
      ELSE [r \in 0 .. count - 1 |-> [y |-> r * pitch, tall |-> pitch]]

MatrixOverview(status, pageSize, height, reserved, fontHeight) ==
  LET shown == SubSeq(Targets, 1, Min({pageSize - 1, Len(Targets)}))
      start(k) == LabelWidth + CellWidth * (k - 1)
      at(x) == {k \in DOMAIN MatrixColumns : x \in {start(k), start(k) + 1}}
      header == [x \in 0 .. RowWidth - 1 |-> IF \E k \in at(x) : x = start(k) + 1 THEN "n" ELSE " "]
      line(t) == [x \in 0 .. RowWidth - 1 |->
        IF x < LabelWidth THEN "n"
        ELSE IF \E k \in at(x) : x = start(k) + 1 /\ MatrixCheck(t, k) # None
        THEN MatrixGlyph(status[MatrixCheck(t, CHOOSE k \in at(x) : TRUE)]) ELSE " "]
      rows == <<header>> \o [i \in DOMAIN shown |-> line(shown[i])]
      layout == RowLayout(Len(rows), height, reserved, fontHeight)
  IN  [Frame(Filled(rows, IF layout = None THEN pageSize ELSE Len(rows)), None, {},
             {Span(p[1], start(p[2]), start(p[2]) + CellWidth) :
                p \in {q \in (DOMAIN shown) \X (DOMAIN MatrixColumns) :
                         LET c == MatrixCheck(shown[q[1]], q[2]) IN c # None /\ status[c] = "FAIL"}})
       EXCEPT !.layout = layout]

-----------------------------------------------------------------------------
(* One check in detail, and the screens that are text only: _detail_rows,  *)
(* _diagnostic_rows, _about_rows, the centred IDLE.                        *)

DetailLabel == 1   \* len("STATUS: "), in characters of this model

DetailFrame(status, selected, pageSize) ==
  LET second == [x \in 0 .. RowWidth - 1 |-> IF x < DetailLabel THEN "n" ELSE IF x = DetailLabel THEN status[selected] ELSE " "]
      rows == <<Row(0 .. RowWidth - 1, "n"), second>>
  IN  Frame(Filled(rows, pageSize), None, {},
            IF status[selected] = "FAIL" THEN {Span(1, DetailLabel, DetailLabel + 1)} ELSE {})

TextFrame(pageSize) == Frame(Filled(<<Row(0 .. RowWidth - 1, "n")>>, pageSize), None, {}, {})
IdleFrame(pageSize) == Frame([r \in 0 .. pageSize - 1 |-> IF r = (pageSize - 1) \div 2 THEN Row({RowWidth \div 2}, "n") ELSE BlankRow], None, {}, {})

-----------------------------------------------------------------------------
(* overview_checks and the first page of them. *)
PageOf(mode, status, perPage) ==
  LET places == Ranked({i \in DOMAIN Checks : status[Checks[i]] # "OK"}, LAMBDA i, j : i < j)
      unhealthy == [k \in DOMAIN places |-> Checks[places[k]]]
      checks == IF mode = "compact" /\ unhealthy # <<>> THEN unhealthy ELSE Checks
  IN  SubSeq(checks, 1, Min({perPage, Len(checks)}))

(* render_frame, with the display's geometry for the matrix. *)
RenderFrame(app, pageSize, height, reserved, fontHeight) ==
  LET columns == IF app.mode = "compact" THEN Columns ELSE 1
      page == PageOf(app.mode, app.status, pageSize * columns)
  IN  CASE app.mode = "detail" -> DetailFrame(app.status, app.selected, pageSize)
        [] app.mode = "text" -> TextFrame(pageSize)
        [] app.mode = "matrix" /\ FitsMatrix -> MatrixOverview(app.status, pageSize, height, reserved, fontHeight)
        [] OTHER -> IF page = <<>> THEN IdleFrame(pageSize)
                    ELSE IF app.mode = "compact" THEN CompactOverview(page, app.status, app.selected, pageSize)
                    ELSE LegacyOverview(page, app.status, app.selected, pageSize)

(* PixelShiftController.offset_for_tick. *)
ShiftOffset(tick) == <<<<0, 0>>, <<1, 0>>, <<1, 1>>, <<0, 1>>>>[(tick % 4) + 1]

(* bottom_heartbeat_pixels: the left edges of the marks, which wander five *)
(* places to and fro from their anchor.                                    *)
HeartbeatPixels(width, count, markWidth, position, bucket) ==
  LET maxStart == Max({0, width - count * markWidth})
      anchor == CASE position = "left" -> 0
                  [] position = "center" -> Max({0, (width - count * markWidth) \div 2})
                  [] position = "right" -> maxStart
      path == <<0, 1, 2, 3, 4, 3, 2, 1>>
      start == Min({maxStart, anchor + path[(bucket % 8) + 1] * markWidth})
  IN  {Max({0, Min({width - markWidth, start + k * markWidth})}) : k \in 0 .. count - 1}
=============================================================================
