----------------------------- MODULE Navigation -----------------------------
(***************************************************************************)
(* Selection, pages and screens (src/vivipi/core/state.py, core/input.py   *)
(* and RuntimeApp.step in runtime/app.py).                                 *)
(*                                                                         *)
(* A step applies the button presses, integrates the results that arrived, *)
(* turns the page when its slot of the clock says so, and shows the frame. *)
(* Checks are numbered in the order of their sorted names, so the position *)
(* of a check on the overview is the number of displayed checks below it.  *)
(* A status is abstracted to whether compact mode would filter it out.     *)
(***************************************************************************)
EXTENDS Integers, FiniteSets

CONSTANTS
  Checks,        \* check ids, integers in the order of the names
  FromServices,  \* those that come and go with the polls of a service
  PerPage,       \* page_size * overview_columns
  None,          \* no selected_id
  MaxPresses,    \* bound: button events in one step
  Slots          \* bound: slots of the page clock, a multiple of all page counts

ASSUME ConstantsAssumption ==
  /\ Checks \subseteq Int /\ IsFiniteSet(Checks)
  /\ FromServices \subseteq Checks
  /\ PerPage \in Nat \ {0}
  /\ None \notin Checks
  /\ MaxPresses \in Nat
  /\ Slots \in Nat \ {0}

VARIABLES
  displayMode, \* DisplayMode, chosen by the configuration
  paging,    \* page_interval_s # 0, chosen by the configuration
  present,   \* AppState.checks
  healthy,   \* those of them with status OK
  selected,  \* selected_id
  mode,      \* AppMode
  page,      \* page_index
  phase,     \* where the step is
  presses,   \* button events applied in this step
  slot,      \* now_s // page_interval_s
  want,      \* history: the check the last press of this step selected
  steady,    \* history: nothing displayed changed since the selection was placed
  tour       \* history: checks shown since A opened the first one's details

settings == <<displayMode, paging>>
table == <<present, healthy>>
view == <<selected, mode, page>>
history == <<want, steady, tour>>
vars == <<settings, table, view, phase, presses, slot, history>>

Least(S) == CHOOSE c \in S : \A d \in S : c <= d

(* overview_checks: compact mode hides healthy checks unless all are.      *)
OverviewOf(there, fine) ==
  IF displayMode = "compact" /\ there \ fine # {} THEN there \ fine ELSE there

Displayed == OverviewOf(present, healthy)

Position(c, D) == Cardinality({d \in D : d < c})
PageOf(c, D) == Position(c, D) \div PerPage
PageCount(D) == (Cardinality(D) + PerPage - 1) \div PerPage

(* normalize_page_index for an index that is not negative. The mutant does  *)
(* not bring it into range.                                                 *)
Unclamped(p, D) == p
Clamped(p, D) == IF p < PageCount(D) THEN p
                 ELSE IF D = {} THEN 0 ELSE PageCount(D) - 1

(* normalize_selection; the mutant keeps a selection that is not displayed. *)
KeptSelection(sel, D) == IF D = {} THEN None ELSE IF sel = None THEN Least(D) ELSE sel
Normalized(sel, D) ==
  IF D = {} THEN None ELSE IF sel \in D THEN sel ELSE Least(D)

(* The check after c, cyclically. *)
Successor(c, D) ==
  LET after == {d \in D : d > c} IN IF after = {} THEN Least(D) ELSE Least(after)

(* would_wrap_selection for one step; the mutant misses the last check. *)
NeverWraps == Cardinality(Displayed) <= 1
WouldWrap ==
  \/ Cardinality(Displayed) <= 1
  \/ ~\E d \in Displayed : d > Normalized(selected, Displayed)

Visible(p) == {c \in Displayed : PageOf(c, Displayed) = Clamped(p, Displayed)}

Init ==
  /\ displayMode \in {"standard", "compact", "matrix"} /\ paging \in BOOLEAN
  /\ present = Checks \ FromServices /\ healthy = {}
  /\ selected = None /\ mode = "overview" /\ page = 0
  /\ phase = "buttons" /\ presses = 0 /\ slot = 0
  /\ want = None /\ steady = TRUE /\ tour = {}

-----------------------------------------------------------------------------
(* InputController.apply. Every event the button reader emits is one step. *)

(* move_selection. The mutant leaves the page where it is.                  *)
MoveWithoutPage ==
  LET next == Successor(Normalized(selected, Displayed), Displayed) IN
  IF Displayed = {} THEN selected' = None /\ page' = 0
  ELSE selected' = next /\ page' = page

MoveSelection ==
  LET next == Successor(Normalized(selected, Displayed), Displayed) IN
  IF Displayed = {} THEN selected' = None /\ page' = 0
  ELSE selected' = next /\ page' = PageOf(next, Displayed)

(* From the About page to the first check. *)
FirstCheck == Normalized(None, Displayed)

(* A tour of the details starts at the About page and ends there.          *)
TourAfter(first) ==
  IF first THEN {selected'} \ {None}
  ELSE IF mode = "detail" /\ mode' = "detail" /\ tour # {} THEN tour \cup {selected'}
  ELSE {}

PressA ==
  /\ phase = "buttons" /\ presses < MaxPresses
  /\ presses' = presses + 1
  /\ \/ /\ mode = "about" /\ mode' = "detail"
        /\ selected' = FirstCheck
        /\ page' = 0
        /\ steady' = TRUE
     \/ /\ mode = "detail" /\ WouldWrap /\ mode' = "about"
        /\ UNCHANGED <<selected, page, steady>>
     \/ /\ mode \in {"overview", "diagnostics"} \/ (mode = "detail" /\ ~WouldWrap)
        /\ MoveSelection
        /\ steady' = TRUE
        /\ UNCHANGED mode
  /\ want' = selected'
  /\ tour' = TourAfter(mode = "about")
  /\ UNCHANGED <<settings, table, phase, slot>>

EnterDetail == mode' = "detail" /\ selected' = Normalized(selected, Displayed)
ExitDetail  == mode' = "overview" /\ UNCHANGED selected

PressB ==
  /\ phase = "buttons" /\ presses < MaxPresses
  /\ presses' = presses + 1
  /\ IF mode = "overview" THEN EnterDetail ELSE ExitDetail
  /\ want' = None /\ tour' = {}
  /\ UNCHANGED <<settings, table, page, phase, slot, steady>>

EndButtons ==
  /\ phase = "buttons" /\ phase' = "results"
  /\ UNCHANGED <<settings, table, view, presses, slot, history>>

-----------------------------------------------------------------------------
(* with_checks: a result changes the rows, then selection and page are     *)
(* brought back into range.                                                *)
Integrate(there, fine) ==
  /\ phase = "results"
  /\ present' = there /\ healthy' = fine
  /\ LET D == OverviewOf(there, fine) IN
       /\ selected' = Normalized(selected, D)
       /\ page' = Clamped(page, D)
       /\ want' = IF want \in D THEN want ELSE None
       /\ steady' = (steady /\ D = Displayed)
       /\ tour' = IF D = Displayed THEN tour ELSE {}
  /\ UNCHANGED <<settings, mode, phase, presses, slot>>

(* A direct probe changes the health of one check; a poll replaces the     *)
(* checks of a service.                                                    *)
ProbeResult(c) ==
  \/ Integrate(present, healthy \cup {c})
  \/ Integrate(present, healthy \ {c})

PollResult(reported, fine) ==
  Integrate((present \ FromServices) \cup reported,
            (healthy \ FromServices) \cup fine)

(* set_page_index with select_visible. *)
TurnTo(p) ==
  LET sel == Normalized(selected, Displayed) IN
  /\ page' = Clamped(p, Displayed)
  /\ selected' = IF sel \in Visible(p) THEN sel ELSE Least(Visible(p))

(* _apply_page_rotation. The mutants turn pages on every screen, or also    *)
(* when the interval is 0.                                                  *)
PagesEverywhere ==
  displayMode # "matrix" /\ PageCount(Displayed) > 1 /\ paging

PagesWhenOff ==
  mode = "overview" /\ displayMode # "matrix" /\ PageCount(Displayed) > 1

Pages ==
  /\ mode = "overview" /\ displayMode # "matrix"
  /\ PageCount(Displayed) > 1 /\ paging

DuePage == slot % PageCount(Displayed)

Rotate ==
  /\ phase = "results" /\ phase' = "shown"
  /\ IF Pages /\ DuePage # Clamped(page, Displayed)
     THEN TurnTo(DuePage) /\ steady' = TRUE
     ELSE /\ page' = Clamped(page, Displayed)
          /\ selected' = Normalized(selected, Displayed)
          /\ UNCHANGED steady
  /\ UNCHANGED <<settings, table, mode, presses, slot, want, tour>>

(* A display failure or a failed reconnect activates the diagnostics page. *)
Diagnose ==
  /\ phase = "shown" /\ mode' = "diagnostics" /\ tour' = {}
  /\ UNCHANGED <<settings, table, selected, page, phase, presses, slot, want, steady>>

NextStep ==
  /\ phase = "shown" /\ phase' = "buttons"
  /\ presses' = 0 /\ want' = None
  /\ slot' \in {slot, (slot + 1) % Slots}
  /\ UNCHANGED <<settings, table, view, steady, tour>>

StepNext == EndButtons \/ Rotate \/ NextStep

Results ==
  \/ \E c \in present \ FromServices : ProbeResult(c)
  \/ \E reported \in SUBSET FromServices :
       \E fine \in SUBSET reported : PollResult(reported, fine)

Next == PressA \/ PressB \/ StepNext \/ Results \/ Diagnose

Spec == Init /\ [][Next]_vars
=============================================================================
