-------------------------------- MODULE MCPanels -------------------------------
(* Panels of six columns and a few rows, a font of two by two pixels and   *)
(* bytes of two bits: a name, a status and a heartbeat are a pixel or two. *)
EXTENDS Panels

MCChecks == <<"A", "B">>
MCTargetOf == [c \in {"A", "B"} |-> c]
MCColumnOf == [c \in {"A", "B"} |-> "P"]
MCMatrixColumns == <<"P">>
MCHeightOf == [k \in Kinds |-> CASE k = "213b" -> 5 [] k = "st77xx" -> 9 [] OTHER -> 6]
OddHeightOf == [k \in Kinds |-> 5]
MCMark == [width |-> 1, tall |-> 1, gap |-> 0, position |-> "center"]
GeometryMark == [width |-> 1, tall |-> 1, gap |-> 1, position |-> "center"]
MCLogo == [least |-> 1, most |-> 4, pad |-> 0, gap |-> 1, title |-> 2, version |-> 2]

MCShape ==
  [n |-> {<<0, 1>>, <<1, 1>>}, OK |-> {<<0, 0>>}, DEG |-> {<<1, 0>>, <<0, 1>>}, FAIL |-> {<<0, 0>>, <<1, 1>>}]
  @@ ("?" :> {<<1, 0>>}) @@ ("X" :> {<<0, 0>>, <<1, 0>>, <<0, 1>>}) @@ ("x" :> {<<1, 0>>, <<1, 1>>}) @@ ("." :> {<<0, 1>>})

App(mode, a, b, selected, tick) ==
  [mode |-> mode, status |-> [c \in {"A", "B"} |-> IF c = "A" THEN a ELSE b],
   selected |-> selected, tick |-> tick, bucket |-> 3 * tick]

MCApps ==
  {App("standard", "FAIL", "DEG", "A", 0), App("standard", "OK", "FAIL", "A", 2),
   App("compact", "FAIL", "OK", "A", 1), App("compact", "DEG", "FAIL", "A", 3), App("compact", "OK", "OK", "B", 0),
   App("matrix", "OK", "FAIL", "A", 2), App("matrix", "FAIL", "?", "A", 1),
   App("detail", "FAIL", "OK", "A", 1), App("text", "OK", "OK", "A", 3), App("logo", "?", "?", "A", 0)}
=============================================================================
