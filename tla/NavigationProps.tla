--------------------------- MODULE NavigationProps ---------------------------
(* What selection and paging guarantee when a frame is shown. *)
EXTENDS Navigation

TypeOK ==
  /\ healthy \subseteq present /\ present \subseteq Checks
  /\ selected \in Checks \cup {None}
  /\ mode \in {"overview", "detail", "diagnostics", "about"}
  /\ page \in Nat /\ (page * PerPage < Cardinality(Checks) \/ page = 0)
  /\ phase \in {"buttons", "results", "shown"}
  /\ presses \in 0..MaxPresses /\ slot \in 0..(Slots - 1)
  /\ want \in Checks \cup {None} /\ steady \in BOOLEAN /\ tour \subseteq Checks

Shown == phase = "shown"

(* docs/spec.md:414 "Exactly one check is selected at all times (if checks  *)
(* exist)". A shown frame has a selection, one that the overview displays,  *)
(* and a page that exists, whatever rows came and went before it.           *)
FrameIsConsistent ==
  /\ TypeOK
  /\ Shown =>
       /\ IF Displayed = {} THEN selected = None ELSE selected \in Displayed
       /\ page * PerPage < Cardinality(Displayed) \/ page = 0

(* docs/spec.md:416 "Selected check must always be visible". The overview   *)
(* shows the page of the selected check, whatever presses, page turns and   *)
(* results follow each other, while the set of displayed checks stays.      *)
SelectionOnPage ==
  mode = "overview" /\ displayMode # "matrix" /\ Displayed # {}
    => selected \in Visible(page)

SelectedIsVisible == Shown /\ steady => SelectionOnPage

(* docs/spec.md:440 "Wrap cyclically across all checks". Without automatic  *)
(* page turns, what button A selected is still selected when the frame of   *)
(* its step is shown, unless a result took it off the display.              *)
PressIsKept == Shown /\ ~paging /\ want # None => selected = want

(* docs/spec.md:314 "Selection MUST track check identity, not index". The   *)
(* detail screen shows the same check until a button is pressed, as long as *)
(* the check exists; compact mode, which filters, is left out.              *)
DetailKeepsCheck ==
  [][mode = "detail" /\ phase # "buttons" /\ selected \in present'
       /\ displayMode # "compact" => selected' = selected]_vars

(* docs/spec.md:601 "After cycling past the last check in detail view, the  *)
(* system MUST show an About page": a tour of the details returns to the    *)
(* About page exactly when every displayed check has had its turn.          *)
TourIsComplete ==
  [][tour # {} /\ presses' > presses /\ mode' # "overview"
       => (mode' = "about" <=> tour = Displayed)]_vars
=============================================================================
