-------------------------- MODULE NavigationProofs ---------------------------
(***************************************************************************)
(* What Navigation promises, for any finite set of checks, any number of   *)
(* checks on a page and any bounds on presses and slots. The position of a *)
(* check on the display is a cardinality: that it enumerates the display   *)
(* without gaps is what the page turns rely on.  At the end, the reader of  *)
(* the buttons, for any debounce and repeat time; MaxTime only bounds runs. *)
(***************************************************************************)
EXTENDS NavigationProps, ButtonReader, FiniteSetTheorems, NaturalsInduction, WellFoundedInduction, TLAPS

MoreTypes == displayMode \in {"standard", "compact", "matrix"} /\ paging \in BOOLEAN

(* A selection is displayed, and there is one when a frame is shown. *)
SelectionFits ==
  /\ selected # None => selected \in Displayed
  /\ Shown /\ Displayed # {} => selected # None

(* The page exists when a frame is shown. *)
PageFits == Shown => page * PerPage < Cardinality(Displayed) \/ page = 0

(* While what is displayed stays, the page is that of the selection, also  *)
(* on the screens that do not show it and before a selection is made.      *)
SteadyFits ==
  steady /\ Displayed # {}
    => PageOf(Normalized(selected, Displayed), Displayed) = Clamped(page, Displayed)

(* What the last press selected stays selected; only a page turn replaces  *)
(* it, in the last step before the frame.                                  *)
WantFits ==
  want # None => want \in Displayed /\ (selected = want \/ (Shown /\ paging))

(* A tour has been at every check up to the selected one. *)
TourFits ==
  tour # {} => /\ mode = "detail" /\ selected \in Displayed
               /\ tour = {d \in Displayed : d <= selected}

IInv ==
  /\ TypeOK /\ MoreTypes /\ SelectionFits /\ PageFits /\ SteadyFits /\ WantFits /\ TourFits

-----------------------------------------------------------------------------
(* Positions. *)

LEMMA SubsetsAreFinite ==
  ASSUME NEW D \in SUBSET Checks
  PROVE  /\ IsFiniteSet(D) /\ Cardinality(D) \in Nat /\ Cardinality(D) <= Cardinality(Checks)
         /\ (Cardinality(D) = 0) = (D = {}) /\ Cardinality(Checks) \in Nat
<1>1. IsFiniteSet(D) /\ Cardinality(D) <= Cardinality(Checks)
  BY ConstantsAssumption, FS_Subset
<1> QED
  BY <1>1, ConstantsAssumption, FS_CardinalityType, FS_EmptySet

LEMMA PositionFits ==
  ASSUME NEW D \in SUBSET Checks, NEW c \in D
  PROVE  Position(c, D) \in Nat /\ Position(c, D) < Cardinality(D)
<1> DEFINE B == {d \in D : d < c}
<1>0. c \in Int /\ ~(c < c)
  BY ConstantsAssumption
<1>1. B \in SUBSET Checks /\ B \in SUBSET D /\ B # D
  BY <1>0
<1>2. Cardinality(B) \in Nat /\ Cardinality(D) \in Nat /\ IsFiniteSet(D)
  BY <1>1, SubsetsAreFinite
<1>3. Cardinality(B) <= Cardinality(D) /\ Cardinality(B) # Cardinality(D)
  BY <1>1, <1>2, FS_Subset
<1> QED
  BY <1>2, <1>3 DEF Position

LEMMA PositionGrows ==
  ASSUME NEW D \in SUBSET Checks, NEW c \in D, NEW d \in D, d < c
  PROVE  Position(d, D) < Position(c, D)
<1> DEFINE B == {e \in D : e < c}
<1>1. B \in SUBSET Checks /\ d \in B
  BY ConstantsAssumption
<1>2. {e \in B : e < d} = {e \in D : e < d}
  <2>1. \A e \in D : e \in Int
    BY ConstantsAssumption
  <2>2. \A e \in D : e < d => e < c
    BY <2>1
  <2> QED
    BY <2>2
<1>3. Position(d, B) < Cardinality(B)
  BY <1>1, PositionFits
<1> QED
  BY <1>2, <1>3 DEF Position

(* No position is left out. *)
LEMMA PositionsCover ==
  ASSUME NEW D \in SUBSET Checks, NEW k \in Nat, k < Cardinality(D)
  PROVE  \E c \in D : Position(c, D) = k
<1> DEFINE n == Cardinality(D)
           f == [c \in D |-> Position(c, D)]
<1>1. n \in Nat
  BY SubsetsAreFinite
<1>2. f \in [D -> 0..(n - 1)]
  BY <1>1, PositionFits
<1>3. \A c, d \in D : f[c] = f[d] => c = d
  <2>1. SUFFICES ASSUME NEW c \in D, NEW d \in D, c # d
                 PROVE  Position(c, D) # Position(d, D)
    OBVIOUS
  <2>2. c < d \/ d < c
    BY <2>1, ConstantsAssumption
  <2> QED
    BY <2>2, PositionGrows, PositionFits
<1>4. f \in Injection(D, 0..(n - 1))
  BY <1>2, <1>3 DEF Injection, IsInjective
<1>5. IsFiniteSet(0..(n - 1)) /\ Cardinality(0..(n - 1)) = n
  <2> HIDE DEF n
  <2>1. 0 \in Int /\ n - 1 \in Int
    BY <1>1
  <2>2. /\ IsFiniteSet(0..(n - 1))
        /\ Cardinality(0..(n - 1)) = IF 0 > n - 1 THEN 0 ELSE (n - 1) - 0 + 1
    BY <2>1, FS_Interval
  <2> QED
    BY <1>1, <2>2
<1>6. f \in Surjection(D, 0..(n - 1))
  BY <1>4, <1>5, FS_Injection
<1>7. \A t \in 0..(n - 1) : \E c \in D : f[c] = t
  BY <1>6 DEF Surjection
<1>8. k \in 0..(n - 1)
  BY <1>1
<1> QED
  BY <1>7, <1>8

LEMMA LeastExists ==
  ASSUME NEW D \in SUBSET Checks, D # {}
  PROVE  Least(D) \in D /\ \A d \in D : Least(D) <= d
<1>1. Cardinality(D) \in Nat /\ 0 < Cardinality(D)
  BY SubsetsAreFinite
<1>2. PICK c \in D : Position(c, D) = 0
  BY <1>1, PositionsCover
<1>3. \A d \in D : ~(d < c)
  BY <1>2, PositionGrows, PositionFits
<1>4. \A d \in D : c <= d
  BY <1>3, ConstantsAssumption
<1> QED
  BY <1>4 DEF Least

LEMMA NormalizedFits ==
  ASSUME NEW D \in SUBSET Checks, NEW sel
  PROVE  /\ D # {} => Normalized(sel, D) \in D
         /\ D = {} => Normalized(sel, D) = None
         /\ sel \in D => Normalized(sel, D) = sel
         /\ Normalized(Normalized(sel, D), D) = Normalized(sel, D)
BY LeastExists DEF Normalized

LEMMA SuccessorFits ==
  ASSUME NEW D \in SUBSET Checks, D # {}, NEW c \in D
  PROVE  Successor(c, D) \in D
<1> DEFINE after == {d \in D : d > c}
<1>1. after \in SUBSET Checks /\ after \subseteq D
  OBVIOUS
<1> QED
  BY <1>1, LeastExists DEF Successor

(* The successor ends what comes after it, unless the selection wraps.     *)
LEMMA SuccessorIsNext ==
  ASSUME NEW D \in SUBSET Checks, NEW c \in D, \E d \in D : d > c
  PROVE  {d \in D : d <= Successor(c, D)} = {d \in D : d <= c} \cup {Successor(c, D)}
<1> DEFINE after == {d \in D : d > c}
<1>1. after \in SUBSET Checks /\ after \subseteq D /\ after # {}
  OBVIOUS
<1>2. PICK n \in after : n = Successor(c, D) /\ \A d \in after : n <= d
  BY <1>1, LeastExists DEF Successor
<1>3. n \in Int /\ c \in Int /\ \A d \in D : d \in Int
  BY <1>1, ConstantsAssumption
<1>4. \A d \in D : d <= n <=> (d <= c \/ d = n)
  <2>1. n > c /\ \A d \in D : d > c => n <= d
    BY <1>2
  <2>2. ASSUME NEW d \in D PROVE d <= n <=> (d <= c \/ d = n)
    <3>1. d \in Int /\ c \in Int /\ n \in Int
      BY <1>3
    <3>2. n > c /\ (d > c => n <= d)
      BY <2>1
    <3> QED
      BY ONLY <3>1, <3>2
  <2> QED
    BY <2>2
<1>5. n \in D /\ n = Successor(c, D)
  BY <1>1, <1>2
<1>6. {d \in D : d <= n} = {d \in D : d <= c} \cup {n}
  BY <1>4, <1>5
<1> QED
  BY <1>5, <1>6

-----------------------------------------------------------------------------
(* Pages. *)

LEMMA PageCountFits ==
  ASSUME NEW D \in SUBSET Checks
  PROVE  /\ PageCount(D) \in Nat
         /\ D # {} => PageCount(D) > 0
         /\ \A p \in Nat : p < PageCount(D) => p * PerPage < Cardinality(D)
         /\ \A a \in Nat : a < Cardinality(D) => a \div PerPage < PageCount(D)
<1>1. \A n \in Nat, s \in Nat \ {0} :
        /\ (n + s - 1) \div s \in Nat
        /\ n # 0 => (n + s - 1) \div s > 0
  OBVIOUS
<1>2. ASSUME NEW n \in Nat, NEW s \in Nat \ {0}, NEW p \in Nat, p < (n + s - 1) \div s
      PROVE  p * s < n
  BY <1>2
<1>3. ASSUME NEW n \in Nat, NEW s \in Nat \ {0}, NEW a \in Nat, a < n
      PROVE  a \div s < (n + s - 1) \div s
  BY <1>3
<1>4. Cardinality(D) \in Nat /\ PerPage \in Nat \ {0} /\ (D # {} => Cardinality(D) # 0)
  BY SubsetsAreFinite, ConstantsAssumption
<1>5. PageCount(D) \in Nat /\ (D # {} => PageCount(D) > 0)
  BY <1>1, <1>4 DEF PageCount
<1>6. \A p \in Nat : p < PageCount(D) => p * PerPage < Cardinality(D)
  BY <1>2, <1>4 DEF PageCount
<1>7. \A a \in Nat : a < Cardinality(D) => a \div PerPage < PageCount(D)
  BY <1>3, <1>4 DEF PageCount
<1> QED
  BY <1>5, <1>6, <1>7

LEMMA PageOfFits ==
  ASSUME NEW D \in SUBSET Checks, NEW c \in D
  PROVE  /\ PageOf(c, D) \in Nat /\ PageOf(c, D) < PageCount(D)
         /\ PageOf(c, D) * PerPage < Cardinality(D)
<1>1. Position(c, D) \in Nat /\ Position(c, D) < Cardinality(D)
  BY PositionFits
<1>2. PerPage \in Nat \ {0}
  BY ConstantsAssumption
<1>3. \A a \in Nat, s \in Nat \ {0} : a \div s \in Nat
  OBVIOUS
<1>4. PageOf(c, D) \in Nat
  BY <1>1, <1>2, <1>3 DEF PageOf
<1>5. PageOf(c, D) < PageCount(D)
  BY <1>1, PageCountFits DEF PageOf
<1> QED
  BY <1>4, <1>5, PageCountFits

LEMMA FirstPageFits ==
  ASSUME NEW D \in SUBSET Checks, D # {}
  PROVE  PageOf(Least(D), D) = 0
<1>1. 0 < Cardinality(D)
  BY SubsetsAreFinite
<1>2. PICK c \in D : Position(c, D) = 0
  BY <1>1, PositionsCover
<1>3. PICK m \in D : m = Least(D) /\ \A d \in D : m <= d
  BY LeastExists
<1>4. m = c
  <2>1. m <= c /\ m \in Int /\ c \in Int
    BY <1>3, ConstantsAssumption
  <2>2. ~(m < c)
    BY <1>2, PositionGrows, PositionFits
  <2> QED
    BY <2>1, <2>2
<1>5. 0 \div PerPage = 0
  BY ConstantsAssumption
<1> QED
  BY <1>2, <1>3, <1>4, <1>5 DEF PageOf

LEMMA ClampedFits ==
  ASSUME NEW D \in SUBSET Checks, NEW p \in Nat
  PROVE  /\ Clamped(p, D) \in Nat
         /\ D # {} => Clamped(p, D) < PageCount(D)
         /\ Clamped(p, D) * PerPage < Cardinality(D) \/ Clamped(p, D) = 0
         /\ p < PageCount(D) => Clamped(p, D) = p
         /\ Clamped(Clamped(p, D), D) = Clamped(p, D)
<1>1. PageCount(D) \in Nat /\ (D # {} => PageCount(D) > 0)
  BY PageCountFits
<1>2. Clamped(p, D) \in Nat
  BY <1>1 DEF Clamped
<1>3. D # {} => Clamped(p, D) < PageCount(D)
  BY <1>1 DEF Clamped
<1>4. Clamped(p, D) < PageCount(D) \/ Clamped(p, D) = 0
  BY <1>3 DEF Clamped
<1>5. p < PageCount(D) => Clamped(p, D) = p
  BY DEF Clamped
<1>6. Clamped(Clamped(p, D), D) = Clamped(p, D)
  BY <1>3, <1>4, <1>5 DEF Clamped
<1> QED
  BY <1>2, <1>3, <1>4, <1>5, <1>6, PageCountFits

(* Every page shows a check. *)
LEMMA PagesAreFull ==
  ASSUME TypeOK, MoreTypes, Displayed # {}, NEW p \in Nat
  PROVE  Visible(p) \in SUBSET Checks /\ Visible(p) # {} /\ Visible(p) \subseteq Displayed
<1> DEFINE q == Clamped(p, Displayed)
<1>1. Displayed \in SUBSET Checks
  BY DEF Displayed, OverviewOf, TypeOK
<1>2. q \in Nat /\ q < PageCount(Displayed)
  BY <1>1, ClampedFits
<1>3. q * PerPage < Cardinality(Displayed) /\ q * PerPage \in Nat
  BY <1>1, <1>2, PageCountFits, ConstantsAssumption
<1>4. PICK c \in Displayed : Position(c, Displayed) = q * PerPage
  BY <1>1, <1>3, PositionsCover
<1>5. \A a \in Nat, s \in Nat \ {0} : (a * s) \div s = a
  OBVIOUS
<1>6. PageOf(c, Displayed) = q
  BY <1>2, <1>4, <1>5, ConstantsAssumption DEF PageOf
<1> QED
  BY <1>1, <1>6 DEF Visible

-----------------------------------------------------------------------------
(* What the parts of the invariant are about. *)

LEMMA Typed ==
  ASSUME IInv
  PROVE  /\ Displayed \in SUBSET Checks /\ None \notin Displayed
         /\ page \in Nat /\ slot \in Nat /\ presses \in Nat /\ PerPage \in Nat \ {0}
         /\ selected \in Displayed \cup {None}
<1>1. Displayed \in SUBSET Checks
  BY DEF IInv, TypeOK, Displayed, OverviewOf
<1>2. page \in Nat /\ slot \in 0..(Slots - 1) /\ presses \in 0..MaxPresses
  BY DEF IInv, TypeOK
<1>3. selected \in Displayed \cup {None}
  BY DEF IInv, SelectionFits
<1>4. None \notin Displayed
  BY <1>1, ConstantsAssumption
<1>5. slot \in Nat /\ presses \in Nat
  BY <1>2, ConstantsAssumption
<1>6. PerPage \in Nat \ {0}
  BY ConstantsAssumption
<1> QED
  BY <1>1, <1>2, <1>3, <1>4, <1>5, <1>6

(* A page that exists on the display exists for all checks. *)
LEMMA PageIsTyped ==
  ASSUME NEW D \in SUBSET Checks, NEW p \in Nat, p * PerPage < Cardinality(D) \/ p = 0
  PROVE  p * PerPage < Cardinality(Checks) \/ p = 0
<1>1. Cardinality(D) \in Nat /\ Cardinality(Checks) \in Nat
      /\ Cardinality(D) <= Cardinality(Checks)
  BY SubsetsAreFinite
<1>2. p * PerPage \in Nat
  BY ConstantsAssumption
<1> QED
  BY <1>1, <1>2

LEMMA InitOK == Init => IInv
<1> SUFFICES ASSUME Init PROVE IInv
  OBVIOUS
<1>1. TypeOK
  BY ConstantsAssumption DEF Init, TypeOK
<1>2. MoreTypes
  BY DEF Init, MoreTypes
<1>3. Displayed \in SUBSET Checks
  BY DEF Init, Displayed, OverviewOf
<1>4. SelectionFits /\ PageFits /\ WantFits /\ TourFits
  BY DEF Init, SelectionFits, PageFits, WantFits, TourFits, Shown
<1>5. SteadyFits
  <2>1. SUFFICES ASSUME Displayed # {}
                 PROVE  PageOf(Normalized(None, Displayed), Displayed) = Clamped(0, Displayed)
    BY DEF Init, SteadyFits
  <2>2. None \notin Displayed
    BY <1>3, ConstantsAssumption
  <2>3. Normalized(None, Displayed) = Least(Displayed)
    BY <2>1, <2>2 DEF Normalized
  <2>4. Clamped(0, Displayed) = 0
    BY <1>3, <2>1, PageCountFits DEF Clamped
  <2> QED
    BY <1>3, <2>1, <2>3, <2>4, FirstPageFits
<1> QED
  BY <1>1, <1>2, <1>4, <1>5 DEF IInv

-----------------------------------------------------------------------------
(* Button A. *)

(* A selection and the page of it, as a press makes them. *)
LEMMA Placed ==
  ASSUME IInv, UNCHANGED <<settings, table>>, Displayed # {},
         selected' \in Displayed, page' = PageOf(selected', Displayed)
  PROVE  /\ Displayed' = Displayed /\ selected' \in Checks /\ page' \in Nat
         /\ page' * PerPage < Cardinality(Checks) \/ page' = 0
         /\ SteadyFits'
<1>1. Displayed' = Displayed /\ PageOf(selected, Displayed)' = PageOf(selected', Displayed)
      /\ Normalized(selected, Displayed)' = Normalized(selected', Displayed)
      /\ Clamped(page, Displayed)' = Clamped(page', Displayed)
  BY DEF settings, table, Displayed, OverviewOf, PageOf, Position, Normalized, Clamped, PageCount
<1>2. Displayed \in SUBSET Checks
  BY Typed
<1>3. page' \in Nat /\ page' < PageCount(Displayed) /\ page' * PerPage < Cardinality(Displayed)
  BY <1>2, PageOfFits
<1>4. page' * PerPage < Cardinality(Checks) \/ page' = 0
  BY <1>2, <1>3, PageIsTyped
<1>5. Normalized(selected', Displayed) = selected' /\ Clamped(page', Displayed) = page'
  BY <1>2, <1>3, NormalizedFits, ClampedFits
<1>6. SteadyFits'
  BY <1>1, <1>5 DEF SteadyFits
<1> QED
  BY <1>1, <1>2, <1>3, <1>4, <1>6

LEMMA PressAOK == ASSUME IInv, PressA PROVE IInv'
<1>1. /\ phase = "buttons" /\ presses < MaxPresses /\ presses' = presses + 1
      /\ want' = selected' /\ tour' = TourAfter(mode = "about")
      /\ UNCHANGED <<displayMode, paging, present, healthy, phase, slot>>
  BY DEF PressA, settings, table
<1>2. Displayed' = Displayed /\ Displayed \in SUBSET Checks
  BY <1>1, Typed DEF Displayed, OverviewOf
<1>3. UNCHANGED <<settings, table>>
  BY DEF PressA
<1>4. presses' \in 0..MaxPresses
  BY <1>1, ConstantsAssumption DEF IInv, TypeOK
<1>5. SUFFICES ASSUME /\ selected' \in Displayed \cup {None}
                      /\ mode' \in {"overview", "detail", "diagnostics", "about"}
                      /\ page' \in Nat /\ (page' * PerPage < Cardinality(Checks) \/ page' = 0)
                      /\ steady' \in BOOLEAN /\ SteadyFits' /\ TourFits'
               PROVE  IInv'
  <2>1. CASE mode = "about" /\ mode' = "detail" /\ selected' = FirstCheck /\ page' = 0
             /\ steady' = TRUE
    <3>1. tour' = {selected'} \ {None}
      BY <1>1, <2>1 DEF TourAfter
    <3>2. CASE Displayed = {}
      <4>1. selected' = None
        BY <1>2, <2>1, <3>2, NormalizedFits DEF FirstCheck
      <4>2. SteadyFits' /\ TourFits'
        BY <1>2, <3>1, <3>2, <4>1 DEF SteadyFits, TourFits
      <4> QED
        BY <1>5, <2>1, <4>1, <4>2
    <3>3. CASE Displayed # {}
      <4>1. None \notin Displayed /\ selected' = Least(Displayed)
        BY <2>1, <3>3, Typed DEF FirstCheck, Normalized
      <4>2. selected' \in Displayed /\ \A d \in Displayed : selected' <= d
        BY <1>2, <3>3, <4>1, LeastExists
      <4>3. page' = PageOf(selected', Displayed)
        BY <1>2, <2>1, <3>3, <4>1, FirstPageFits
      <4>4. /\ page' \in Nat /\ SteadyFits'
            /\ page' * PerPage < Cardinality(Checks) \/ page' = 0
        BY <1>3, <3>3, <4>2, <4>3, Placed
      <4>5. {d \in Displayed : d <= selected'} = {selected'}
        <5>1. \A d \in Displayed : d <= selected' <=> d = selected'
          BY <1>2, <4>2, ConstantsAssumption
        <5> QED
          BY <4>2, <5>1
      <4>6. TourFits'
        BY <1>2, <2>1, <3>1, <4>1, <4>2, <4>5 DEF TourFits
      <4> QED
        BY <1>5, <2>1, <4>2, <4>4, <4>6
    <3> QED
      BY <3>2, <3>3
  <2>2. CASE mode = "detail" /\ WouldWrap /\ mode' = "about" /\ UNCHANGED <<selected, page, steady>>
    <3>1. tour' = {}
      BY <1>1, <2>2 DEF TourAfter
    <3>2. SteadyFits'
      BY <1>2, <2>2 DEF IInv, SteadyFits, PageOf, Position, Normalized, Clamped, PageCount
    <3>3. TourFits'
      BY <3>1 DEF TourFits
    <3> QED
      BY <1>5, <2>2, <3>2, <3>3, Typed DEF IInv, TypeOK
  <2>3. CASE /\ mode \in {"overview", "diagnostics"} \/ (mode = "detail" /\ ~WouldWrap)
             /\ MoveSelection /\ steady' = TRUE /\ mode' = mode
    <3>1. tour' = IF mode = "detail" /\ tour # {} THEN tour \cup {selected'} ELSE {}
      BY <1>1, <2>3 DEF TourAfter
    <3>2. CASE Displayed = {}
      <4>1. selected' = None /\ page' = 0
        BY <2>3, <3>2 DEF MoveSelection
      <4>2. SteadyFits' /\ TourFits'
        BY <1>2, <3>1, <3>2, <4>1 DEF IInv, SteadyFits, TourFits
      <4> QED
        BY <1>5, <2>3, <4>1, <4>2
    <3>3. CASE Displayed # {}
      <4> DEFINE n == Normalized(selected, Displayed)
      <4>1. n \in Displayed
        BY <1>2, <3>3, NormalizedFits
      <4>2. selected' = Successor(n, Displayed) /\ page' = PageOf(selected', Displayed)
        BY <2>3, <3>3 DEF MoveSelection
      <4>3. selected' \in Displayed
        BY <1>2, <3>3, <4>1, <4>2, SuccessorFits
      <4>4. /\ page' \in Nat /\ SteadyFits'
            /\ page' * PerPage < Cardinality(Checks) \/ page' = 0
        BY <1>3, <3>3, <4>2, <4>3, Placed
      <4>5. TourFits'
        <5>1. SUFFICES ASSUME mode = "detail", tour # {}
                       PROVE  tour \cup {selected'} = {d \in Displayed : d <= selected'}
          BY <1>2, <2>3, <3>1, <4>3 DEF TourFits
        <5>2. selected \in Displayed /\ tour = {d \in Displayed : d <= selected}
          BY <5>1 DEF IInv, TourFits
        <5>3. n = selected
          BY <1>2, <5>2, NormalizedFits
        <5>4. \E d \in Displayed : d > selected
          BY <2>3, <5>1, <5>3 DEF WouldWrap
        <5> QED
          BY <1>2, <4>2, <5>2, <5>3, <5>4, SuccessorIsNext
      <4> QED
        BY <1>5, <2>3, <4>3, <4>4, <4>5
    <3> QED
      BY <3>2, <3>3
  <2> QED
    BY <2>1, <2>2, <2>3 DEF PressA
<1>6. TypeOK'
  <2>1. selected' \in Checks \cup {None}
    BY <1>2, <1>5
  <2>2. tour' \subseteq Checks
    BY <1>2, <1>5 DEF TourFits
  <2> QED
    BY <1>1, <1>4, <1>5, <2>1, <2>2 DEF IInv, TypeOK
<1>7. MoreTypes' /\ PageFits' /\ SelectionFits' /\ WantFits'
  BY <1>1, <1>2, <1>5 DEF IInv, MoreTypes, PageFits, SelectionFits, WantFits, Shown
<1> QED
  BY <1>5, <1>6, <1>7 DEF IInv

(* Steps that leave the table, the page and, up to its default, the        *)
(* selection.                                                              *)
LEMMA Unmoved ==
  ASSUME IInv, UNCHANGED <<settings, table, page, steady>>,
         selected' \in {selected, Normalized(selected, Displayed)}
  PROVE  Displayed' = Displayed /\ SteadyFits' /\ selected' \in Displayed \cup {None}
<1>1. Displayed' = Displayed /\ Displayed \in SUBSET Checks
      /\ selected \in Displayed \cup {None}
  BY Typed DEF settings, table, Displayed, OverviewOf
<1>2. Normalized(selected', Displayed) = Normalized(selected, Displayed)
  BY <1>1, NormalizedFits
<1>3. SteadyFits'
  BY <1>1, <1>2 DEF IInv, SteadyFits, PageOf, Position, Normalized, Clamped, PageCount
<1> QED
  BY <1>1, <1>3, NormalizedFits

LEMMA PressBOK == ASSUME IInv, PressB PROVE IInv'
<1>1. /\ phase = "buttons" /\ presses < MaxPresses /\ presses' = presses + 1
      /\ want' = None /\ tour' = {}
      /\ UNCHANGED <<displayMode, paging, present, healthy, page, phase, slot, steady>>
      /\ mode' \in {"detail", "overview"}
      /\ selected' \in {selected, Normalized(selected, Displayed)}
  BY DEF PressB, EnterDetail, ExitDetail, settings, table
<1>2. Displayed' = Displayed /\ SteadyFits' /\ selected' \in Displayed \cup {None}
      /\ Displayed \in SUBSET Checks
  BY <1>1, Unmoved, Typed DEF settings, table
<1>3. presses' \in 0..MaxPresses
  BY <1>1, ConstantsAssumption DEF IInv, TypeOK
<1>4. TypeOK'
  BY <1>1, <1>2, <1>3 DEF IInv, TypeOK
<1>5. MoreTypes' /\ PageFits' /\ SelectionFits' /\ WantFits' /\ TourFits'
  BY <1>1, <1>2 DEF IInv, MoreTypes, PageFits, SelectionFits, WantFits, TourFits, Shown
<1> QED
  BY <1>2, <1>4, <1>5 DEF IInv

LEMMA EndButtonsOK == ASSUME IInv, EndButtons PROVE IInv'
<1>1. /\ phase = "buttons" /\ phase' = "results"
      /\ UNCHANGED <<displayMode, paging, present, healthy, selected, mode, page, presses>>
      /\ UNCHANGED <<slot, want, steady, tour>>
  BY DEF EndButtons, settings, table, view, history
<1>2. Displayed' = Displayed /\ SteadyFits'
  BY <1>1, Unmoved DEF settings, table
<1>3. TypeOK'
  BY <1>1 DEF IInv, TypeOK
<1>4. MoreTypes' /\ PageFits' /\ SelectionFits' /\ WantFits' /\ TourFits'
  BY <1>1, <1>2 DEF IInv, MoreTypes, PageFits, SelectionFits, WantFits, TourFits, Shown
<1> QED
  BY <1>2, <1>3, <1>4 DEF IInv

LEMMA DiagnoseOK == ASSUME IInv, Diagnose PROVE IInv'
<1>1. /\ phase = "shown" /\ mode' = "diagnostics" /\ tour' = {}
      /\ UNCHANGED <<displayMode, paging, present, healthy, selected, page, phase, presses>>
      /\ UNCHANGED <<slot, want, steady>>
  BY DEF Diagnose, settings, table
<1>2. Displayed' = Displayed /\ SteadyFits'
  BY <1>1, Unmoved DEF settings, table
<1>3. TypeOK'
  BY <1>1 DEF IInv, TypeOK
<1>4. MoreTypes' /\ PageFits' /\ SelectionFits' /\ WantFits' /\ TourFits'
  BY <1>1, <1>2 DEF IInv, MoreTypes, PageFits, SelectionFits, WantFits, TourFits, Shown
<1> QED
  BY <1>2, <1>3, <1>4 DEF IInv

LEMMA NextStepOK == ASSUME IInv, NextStep PROVE IInv'
<1>1. /\ phase = "shown" /\ phase' = "buttons" /\ presses' = 0 /\ want' = None
      /\ slot' \in {slot, (slot + 1) % Slots}
      /\ UNCHANGED <<displayMode, paging, present, healthy, selected, mode, page, steady, tour>>
  BY DEF NextStep, settings, table, view
<1>2. Displayed' = Displayed /\ SteadyFits'
  BY <1>1, Unmoved DEF settings, table
<1>3. slot' \in 0..(Slots - 1) /\ presses' \in 0..MaxPresses
  <2>1. \A n \in Nat, s \in Nat \ {0} : n % s \in 0..(s - 1)
    OBVIOUS
  <2>2. slot \in 0..(Slots - 1) /\ slot + 1 \in Nat
    BY Typed DEF IInv, TypeOK
  <2> QED
    BY <1>1, <2>1, <2>2, ConstantsAssumption
<1>4. TypeOK'
  BY <1>1, <1>3 DEF IInv, TypeOK
<1>5. MoreTypes' /\ PageFits' /\ SelectionFits' /\ WantFits' /\ TourFits'
  BY <1>1, <1>2 DEF IInv, MoreTypes, PageFits, SelectionFits, WantFits, TourFits, Shown
<1> QED
  BY <1>2, <1>4, <1>5 DEF IInv

-----------------------------------------------------------------------------
(* Results. *)

LEMMA IntegrateOK ==
  ASSUME IInv, NEW there \in SUBSET Checks, NEW fine \in SUBSET there, Integrate(there, fine)
  PROVE  IInv'
<1> DEFINE D == OverviewOf(there, fine)
<1>1. /\ phase = "results" /\ present' = there /\ healthy' = fine
      /\ selected' = Normalized(selected, D) /\ page' = Clamped(page, D)
      /\ want' = IF want \in D THEN want ELSE None
      /\ steady' = (steady /\ D = Displayed)
      /\ tour' = IF D = Displayed THEN tour ELSE {}
      /\ UNCHANGED <<displayMode, paging, mode, phase, presses, slot>>
  BY DEF Integrate, settings
<1>2. Displayed' = D /\ D \in SUBSET Checks
  BY <1>1 DEF Displayed, OverviewOf
<1> HIDE DEF D
<1>3. /\ D # {} => selected' \in D
      /\ D = {} => selected' = None
      /\ selected \in D => selected' = selected
      /\ Normalized(selected', D) = selected'
  BY <1>1, <1>2, NormalizedFits
<1>4. /\ page' \in Nat /\ Clamped(page', D) = page'
      /\ page' * PerPage < Cardinality(D) \/ page' = 0
  BY <1>1, <1>2, ClampedFits, Typed
<1>5. page' * PerPage < Cardinality(Checks) \/ page' = 0
  BY <1>2, <1>4, PageIsTyped
<1>6. selected' \in Checks \cup {None} /\ want' \in Checks \cup {None}
  BY <1>1, <1>2, <1>3
<1>7. TypeOK'
  <2>1. steady' \in BOOLEAN /\ tour' \subseteq Checks
    BY <1>1 DEF IInv, TypeOK
  <2> QED
    BY <1>1, <1>4, <1>5, <1>6, <2>1 DEF IInv, TypeOK
<1>8. MoreTypes' /\ PageFits'
  BY <1>1 DEF IInv, MoreTypes, PageFits, Shown
<1>9. SelectionFits'
  BY <1>1, <1>2, <1>3 DEF SelectionFits, Shown
<1>10. SteadyFits'
  <2>1. SUFFICES ASSUME steady, D = Displayed, D # {}
                 PROVE  PageOf(selected', D) = page'
    <3>1. PageOf(Normalized(selected, Displayed), Displayed)' = PageOf(Normalized(selected', D), D)
          /\ Clamped(page, Displayed)' = Clamped(page', D)
      BY <1>2 DEF PageOf, Position, Normalized, Clamped, PageCount
    <3> QED
      BY <1>1, <1>2, <1>3, <1>4, <3>1 DEF SteadyFits
  <2> QED
    BY <1>1, <2>1 DEF IInv, SteadyFits
<1>11. WantFits'
  BY <1>1, <1>2, <1>3 DEF IInv, WantFits, Shown
<1>12. TourFits'
  BY <1>1, <1>2, <1>3 DEF IInv, TourFits
<1> QED
  BY <1>7, <1>8, <1>9, <1>10, <1>11, <1>12 DEF IInv

LEMMA ResultsOK == ASSUME IInv, Results PROVE IInv'
<1>1. healthy \subseteq present /\ present \subseteq Checks /\ FromServices \subseteq Checks
  BY ConstantsAssumption DEF IInv, TypeOK
<1>2. ASSUME NEW c \in present \ FromServices, ProbeResult(c)
      PROVE  IInv'
  <2>1. CASE Integrate(present, healthy \cup {c})
    <3>1. present \in SUBSET Checks /\ healthy \cup {c} \in SUBSET present
      BY <1>1
    <3> QED
      BY <2>1, <3>1, IntegrateOK
  <2>2. CASE Integrate(present, healthy \ {c})
    <3>1. present \in SUBSET Checks /\ healthy \ {c} \in SUBSET present
      BY <1>1
    <3> QED
      BY <2>2, <3>1, IntegrateOK
  <2> QED
    BY <1>2, <2>1, <2>2 DEF ProbeResult
<1>3. ASSUME NEW reported \in SUBSET FromServices, NEW fine \in SUBSET reported,
             PollResult(reported, fine)
      PROVE  IInv'
  <2>1. /\ (present \ FromServices) \cup reported \in SUBSET Checks
        /\ (healthy \ FromServices) \cup fine \in SUBSET ((present \ FromServices) \cup reported)
    BY <1>1
  <2> QED
    BY <1>3, <2>1, IntegrateOK DEF PollResult
<1> QED
  BY <1>2, <1>3 DEF Results

-----------------------------------------------------------------------------
(* Page turns. *)

LEMMA RotateOK == ASSUME IInv, Rotate PROVE IInv'
<1>1. /\ phase = "results" /\ phase' = "shown"
      /\ UNCHANGED <<displayMode, paging, present, healthy, mode, presses, slot, want, tour>>
  BY DEF Rotate, settings, table
<1>2. Displayed' = Displayed /\ Displayed \in SUBSET Checks
  BY <1>1, Typed DEF Displayed, OverviewOf
<1>3. /\ PageOf(Normalized(selected, Displayed), Displayed)'
           = PageOf(Normalized(selected', Displayed), Displayed)
      /\ Clamped(page, Displayed)' = Clamped(page', Displayed)
  BY <1>2 DEF PageOf, Position, Normalized, Clamped, PageCount
<1> DEFINE turns == Pages /\ DuePage # Clamped(page, Displayed)
<1>4. SUFFICES ASSUME /\ page' \in Nat
                      /\ page' * PerPage < Cardinality(Displayed) \/ page' = 0
                      /\ Displayed # {} => selected' \in Displayed
                      /\ Displayed = {} => selected' = None
                      /\ selected \in Displayed /\ ~Pages => selected' = selected
                      /\ steady' \in BOOLEAN /\ SteadyFits'
               PROVE  IInv'
  <2>1. CASE turns
    <3>1. TurnTo(DuePage) /\ steady' = TRUE
      BY <2>1 DEF Rotate
    <3>2. Displayed # {} /\ DuePage \in Nat
      <4>1. Cardinality({}) = 0
        BY FS_EmptySet
      <4>2. \A s \in Nat \ {0} : (0 + s - 1) \div s = 0
        OBVIOUS
      <4>3. Displayed # {}
        <5>1. PageCount({}) = (0 + PerPage - 1) \div PerPage
          BY <4>1 DEF PageCount
        <5>2. PageCount({}) = 0
          BY <4>2, <5>1, ConstantsAssumption
        <5>3. PageCount(Displayed) > 1
          BY <2>1 DEF Pages
        <5>4. Displayed = {} => PageCount(Displayed) = 0
          BY <5>2
        <5> QED
          BY <5>3, <5>4
      <4>4. \A n \in Nat, s \in Nat \ {0} : n % s \in Nat
        OBVIOUS
      <4>5. PageCount(Displayed) \in Nat \ {0}
        BY <1>2, <4>3, PageCountFits
      <4> QED
        BY <4>3, <4>4, <4>5, Typed DEF DuePage
    <3>3. /\ Visible(DuePage) \in SUBSET Checks /\ Visible(DuePage) # {}
          /\ Visible(DuePage) \subseteq Displayed
      BY <3>2, PagesAreFull DEF IInv
    <3>4. selected' \in Visible(DuePage) /\ page' = Clamped(DuePage, Displayed)
      BY <3>1, <3>3, LeastExists DEF TurnTo
    <3>5. PageOf(selected', Displayed) = page'
      BY <3>4 DEF Visible
    <3>6. /\ page' \in Nat /\ Clamped(page', Displayed) = page'
          /\ page' * PerPage < Cardinality(Displayed) \/ page' = 0
      BY <1>2, <3>2, <3>4, ClampedFits
    <3>7. Normalized(selected', Displayed) = selected'
      BY <1>2, <3>3, <3>4, NormalizedFits
    <3>8. SteadyFits'
      BY <1>3, <3>5, <3>6, <3>7 DEF SteadyFits
    <3> QED
      BY <1>4, <2>1, <3>1, <3>2, <3>3, <3>4, <3>6, <3>8
  <2>2. CASE ~turns
    <3>1. /\ page' = Clamped(page, Displayed) /\ selected' = Normalized(selected, Displayed)
          /\ steady' = steady
      BY <2>2 DEF Rotate
    <3>2. /\ page' \in Nat /\ Clamped(page', Displayed) = Clamped(page, Displayed)
          /\ page' * PerPage < Cardinality(Displayed) \/ page' = 0
      BY <1>2, <3>1, ClampedFits, Typed
    <3>3. /\ Displayed # {} => selected' \in Displayed
          /\ Displayed = {} => selected' = None
          /\ selected \in Displayed => selected' = selected
          /\ Normalized(selected', Displayed) = Normalized(selected, Displayed)
      BY <1>2, <3>1, NormalizedFits
    <3>4. SteadyFits'
      BY <1>2, <1>3, <3>1, <3>2, <3>3 DEF IInv, SteadyFits
    <3> QED
      BY <1>4, <3>1, <3>2, <3>3, <3>4 DEF IInv, TypeOK
  <2> QED
    BY <2>1, <2>2
<1>5. page' * PerPage < Cardinality(Checks) \/ page' = 0
  BY <1>2, <1>4, PageIsTyped
<1>6. TypeOK'
  BY <1>1, <1>2, <1>4, <1>5 DEF IInv, TypeOK
<1>7. MoreTypes' /\ PageFits' /\ SelectionFits'
  <2>1. Displayed = {} \/ selected' # None
    BY <1>2, <1>4, ConstantsAssumption
  <2> QED
    BY <1>1, <1>2, <1>4, <2>1 DEF IInv, MoreTypes, PageFits, SelectionFits, Shown
<1>8. WantFits' /\ TourFits'
  <2>1. want # None => want \in Displayed /\ selected = want
    BY <1>1 DEF IInv, WantFits, Shown
  <2>2. ~paging => ~Pages
    BY DEF Pages
  <2>3. WantFits'
    BY <1>1, <1>2, <1>4, <2>1, <2>2 DEF WantFits, Shown
  <2>4. mode = "detail" => ~Pages
    BY DEF Pages
  <2>5. TourFits'
    BY <1>1, <1>2, <1>4, <2>4 DEF IInv, TourFits
  <2> QED
    BY <2>3, <2>5
<1> QED
  BY <1>4, <1>6, <1>7, <1>8 DEF IInv

LEMMA StepOK == IInv /\ [Next]_vars => IInv'
<1> SUFFICES ASSUME IInv, [Next]_vars PROVE IInv'
  OBVIOUS
<1>1. CASE Next
  BY <1>1, PressAOK, PressBOK, EndButtonsOK, RotateOK, NextStepOK, ResultsOK, DiagnoseOK
  DEF Next, StepNext
<1>2. CASE UNCHANGED vars
  <2>1. /\ UNCHANGED <<displayMode, paging, present, healthy, selected, mode, page, phase>>
        /\ UNCHANGED <<presses, slot, want, steady, tour>>
    BY <1>2 DEF vars, settings, table, view, history
  <2>2. Displayed' = Displayed /\ SteadyFits'
    BY <2>1, Unmoved DEF settings, table
  <2>3. TypeOK'
    BY <2>1 DEF IInv, TypeOK
  <2>4. MoreTypes' /\ PageFits' /\ SelectionFits' /\ WantFits' /\ TourFits'
    BY <2>1, <2>2 DEF IInv, MoreTypes, PageFits, SelectionFits, WantFits, TourFits, Shown
  <2> QED
    BY <2>2, <2>3, <2>4 DEF IInv
<1> QED
  BY <1>1, <1>2

THEOREM IInvHolds == Spec => []IInv
BY InitOK, StepOK, PTL DEF Spec

-----------------------------------------------------------------------------
(* A shown frame has a selection that the overview displays and a page that *)
(* exists, whatever rows came and went before it (normalize_selection,      *)
(* normalize_page_index, docs/spec.md:414).                                 *)
THEOREM FramesStayConsistent == Spec => []FrameIsConsistent
<1>1. IInv => FrameIsConsistent
  BY Typed DEF IInv, FrameIsConsistent, SelectionFits, PageFits
<1> QED
  BY <1>1, IInvHolds, PTL

(* The overview shows the page of the selected check, whatever presses,     *)
(* page turns and results follow each other while the displayed checks stay *)
(* (move_selection, set_page_index, docs/spec.md:416).                      *)
THEOREM SelectionStaysVisible == Spec => []SelectedIsVisible
<1>1. ASSUME IInv PROVE SelectedIsVisible
  <2>1. SUFFICES ASSUME Shown, steady, Displayed # {}
                 PROVE  selected \in Visible(page)
    BY DEF SelectedIsVisible, SelectionOnPage
  <2>2. selected \in Displayed
    BY <1>1, <2>1 DEF IInv, SelectionFits
  <2>3. Normalized(selected, Displayed) = selected
    BY <2>1, <2>2 DEF Normalized
  <2> QED
    BY <1>1, <2>1, <2>2, <2>3 DEF IInv, SteadyFits, Visible
<1> QED
  BY <1>1, IInvHolds, PTL

(* Without automatic page turns, what button A selected is still selected   *)
(* when the frame of its step is shown, unless a result took it off the     *)
(* display (InputController.apply, with_checks, docs/spec.md:440).          *)
THEOREM PressesAreKept == Spec => []PressIsKept
<1>1. IInv => PressIsKept
  BY DEF IInv, WantFits, PressIsKept
<1> QED
  BY <1>1, IInvHolds, PTL

(* The detail screen shows the same check until a button is pressed, as     *)
(* long as the check exists; compact mode is left out (normalize_selection, *)
(* docs/spec.md:314).                                                       *)
THEOREM DetailStays == Spec => DetailKeepsCheck
<1> DEFINE A == mode = "detail" /\ phase # "buttons" /\ selected \in present'
                  /\ displayMode # "compact" => selected' = selected
<1>1. ASSUME IInv, [Next]_vars PROVE [A]_vars
  <2>1. SUFFICES ASSUME mode = "detail", phase # "buttons", selected \in present',
                        displayMode # "compact"
                 PROVE  selected' = selected
    OBVIOUS
  <2>2. ASSUME NEW there, NEW fine, Integrate(there, fine) PROVE selected' = selected
    BY <2>1, <2>2 DEF Integrate, OverviewOf, Normalized
  <2>3. CASE Results
    BY <2>2, <2>3 DEF Results, ProbeResult, PollResult
  <2>4. CASE Rotate
    <3>1. selected \in Displayed /\ ~Pages
      BY <2>1, <2>4 DEF Rotate, Displayed, OverviewOf, Pages, table
    <3> QED
      BY <2>4, <3>1 DEF Rotate, Normalized
  <2>5. CASE NextStep \/ Diagnose \/ UNCHANGED vars
    BY <2>5 DEF NextStep, Diagnose, vars, view
  <2>6. ~PressA /\ ~PressB /\ ~EndButtons
    BY <2>1 DEF PressA, PressB, EndButtons
  <2> QED
    BY <1>1, <2>3, <2>4, <2>5, <2>6 DEF Next, StepNext
<1> QED
  BY <1>1, IInvHolds, PTL DEF Spec, DetailKeepsCheck

(* A tour of the details returns to the About page exactly when every       *)
(* displayed check has had its turn (would_wrap_selection, docs/spec.md:    *)
(* 601).                                                                    *)
THEOREM ToursAreComplete == Spec => TourIsComplete
<1> DEFINE A == tour # {} /\ presses' > presses /\ mode' # "overview"
                  => (mode' = "about" <=> tour = Displayed)
<1>1. ASSUME IInv, [Next]_vars PROVE [A]_vars
  <2>1. SUFFICES ASSUME tour # {}, presses' > presses, mode' # "overview"
                 PROVE  mode' = "about" <=> tour = Displayed
    OBVIOUS
  <2>2. /\ mode = "detail" /\ selected \in Displayed
        /\ tour = {d \in Displayed : d <= selected}
    BY <1>1, <2>1 DEF IInv, TourFits
  <2>3. presses \in Nat /\ Displayed \in SUBSET Checks
    BY <1>1, Typed
  <2>4. PressA
    <3>1. presses' # presses /\ presses' # 0
      BY <2>1, <2>3
    <3>2. ~PressB
      BY <2>1, <2>2 DEF PressB, ExitDetail
    <3>3. ~EndButtons /\ ~Rotate /\ ~NextStep /\ ~Diagnose /\ ~UNCHANGED vars
      BY <3>1 DEF EndButtons, Rotate, NextStep, Diagnose, vars
    <3>4. ~Results
      BY <3>1 DEF Results, ProbeResult, PollResult, Integrate
    <3> QED
      BY <1>1, <3>2, <3>3, <3>4 DEF Next, StepNext
  <2>5. mode' = "about" <=> WouldWrap
    BY <2>2, <2>4 DEF PressA
  <2>6. Normalized(selected, Displayed) = selected
    BY <2>2, <2>3, NormalizedFits
  <2>7. (\E d \in Displayed : d > selected) <=> tour # Displayed
    <3>1. \A d \in Displayed : ~(d > selected) <=> d <= selected
      BY <2>2, <2>3, ConstantsAssumption
    <3> QED
      BY <2>2, <3>1
  <2>8. Cardinality(Displayed) <= 1 => tour = Displayed
    <3>1. SUFFICES ASSUME Cardinality(Displayed) <= 1, NEW d \in Displayed
                   PROVE  d = selected
      BY <2>1, <2>2
    <3>2. Position(d, Displayed) = 0 /\ Position(selected, Displayed) = 0
      BY <2>2, <2>3, <3>1, PositionFits, SubsetsAreFinite
    <3>3. ~(d < selected) /\ ~(selected < d)
      BY <2>2, <2>3, <3>2, PositionGrows
    <3> QED
      BY <2>2, <2>3, <3>3, ConstantsAssumption
  <2> QED
    BY <2>5, <2>6, <2>7, <2>8 DEF WouldWrap
<1> QED
  BY <1>1, IInvHolds, PTL DEF Spec, TourIsComplete

-----------------------------------------------------------------------------
(* The button reader.                                                      *)

ButtonMoreTypes ==
  /\ irq \in {"none", "between", "inside"} /\ button \in {"A", "B"}
  /\ now \in Times

(* Nothing is recorded that lies ahead, and a press lasts as the pin does. *)
TimesFit ==
  /\ rawAt <= now /\ pollNow <= now
  /\ since # Never => since <= now
  /\ level = (pressedAt # Never)
  /\ pressedAt # Never => pressedAt <= now

(* A pin that a poll saw pressed has stayed pressed since, and the reader  *)
(* has known of the press since that poll.                                 *)
SeenFits ==
  seenAt # Never
    => /\ level /\ seenAt <= now
       /\ rawAt <= seenAt /\ (since # Never => since <= seenAt)
       /\ raw \/ (pc = "raw" /\ pollNow <= seenAt)
       /\ pc \notin {"idle", "sample"} => sample

(* A settled press has a start. The handler and the poll agree on this     *)
(* only while the pin is pressed.                                          *)
StableHasStart == stable /\ (level \/ irq = "none") => since # Never

(* The press is due for its report, and how far the poll is with it.       *)
Due == level /\ seenAt # Never /\ pollNow - seenAt >= Debounce
DueAdvances ==
  Due => /\ pc \in {"queue", "drain"} => stable
         /\ pc \in {"drain", "done"} => steps >= 1
         /\ pc = "done" => queued = 0

(* While no edge falls into a poll, the handler has seen every edge.       *)
HandlerIsCurrent ==
  irq = "between"
    => /\ raw = level /\ since = pressedAt
       /\ level => rawAt = pressedAt
       /\ pc # "idle" => pollNow = now
       /\ pc \notin {"idle", "sample"} => sample = level

(* A poll settles a change only. *)
SettleFits == pc = "settle" => sample # stable

(* ... and the steps are those of all presses, the one that lasts included.*)
Balance ==
  irq = "between"
    => /\ ~level => queued = owed
       /\ level => queued = owed + steps /\ steps <= StepCount(now - pressedAt)
       /\ level /\ ~stable => steps = 0

ButtonInv ==
  /\ ButtonTypeOK /\ ButtonMoreTypes /\ TimesFit /\ SeenFits /\ StableHasStart /\ DueAdvances
  /\ HandlerIsCurrent /\ Balance /\ SettleFits

-----------------------------------------------------------------------------
(* What a press of some length is worth. *)

LEMMA DivisionGrows ==
  ASSUME NEW a \in Nat, NEW b \in Nat, a <= b, NEW r \in Nat \ {0}
  PROVE  a \div r \in Nat /\ b \div r \in Nat /\ a \div r <= b \div r
OBVIOUS

LEMMA StepCountFits ==
  ASSUME NEW held \in Nat
  PROVE  /\ StepCount(held) \in Nat
         /\ held >= Debounce => StepCount(held) >= 1
<1>1. held >= Debounce => (held - Debounce) \div Repeat \in Nat
  BY ButtonAssumption, DivisionGrows
<1> QED
  BY <1>1, ButtonAssumption DEF StepCount

LEMMA StepCountGrows ==
  ASSUME NEW a \in Nat, NEW b \in Nat, a <= b
  PROVE  StepCount(a) <= StepCount(b)
<1>1. CASE a < Debounce
  BY <1>1, StepCountFits DEF StepCount
<1>2. CASE a >= Debounce
  <2>1. (a - Debounce) \div Repeat <= (b - Debounce) \div Repeat
        /\ (a - Debounce) \div Repeat \in Nat /\ (b - Debounce) \div Repeat \in Nat
    BY <1>2, ButtonAssumption, DivisionGrows
  <2>2. ~(a < Debounce) /\ ~(b < Debounce)
    BY <1>2, ButtonAssumption
  <2> QED
    BY <2>1, <2>2 DEF StepCount
<1> QED
  BY <1>1, <1>2, ButtonAssumption

LEMMA StepCountOfNothing == StepCount(0) = 0
BY ButtonAssumption DEF StepCount

LEMMA TargetFits ==
  ASSUME NEW t \in Nat, NEW at \in Nat
  PROVE  /\ Target(t, at) \in Nat
         /\ at - t >= Debounce => Target(t, at) >= 1
         /\ t <= at => Target(t, at) = StepCount(at - t)
<1>1. CASE at > t
  <2>1. Target(t, at) = StepCount(at - t) /\ at - t \in Nat
    BY <1>1 DEF Target
  <2> QED
    BY <2>1, StepCountFits
<1>2. CASE ~(at > t)
  <2>1. Target(t, at) = StepCount(0)
    BY <1>2 DEF Target
  <2> QED
    BY <1>2, <2>1, StepCountFits, StepCountOfNothing, ButtonAssumption
<1> QED
  BY <1>1, <1>2

(* Queueing raises the steps to what is due, and both by as much. *)
LEMMA QueueDueFits ==
  ASSUME NEW t \in Nat, NEW at \in Nat, queued \in Nat, steps \in Nat, QueueDue(t, at)
  PROVE  /\ queued' \in Nat /\ steps' \in Nat
         /\ steps' >= Target(t, at) /\ steps' >= steps
         /\ queued' - queued = steps' - steps
         /\ steps <= Target(t, at) => steps' = Target(t, at)
<1>1. Target(t, at) \in Nat
  BY TargetFits
<1> HIDE DEF Target
<1> QED
  BY <1>1 DEF QueueDue

(* The types, one variable at a time. *)
LEMMA ButtonTyped ==
  ASSUME ButtonTypeOK, ButtonMoreTypes
  PROVE  /\ level \in BOOLEAN /\ raw \in BOOLEAN /\ stable \in BOOLEAN /\ sample \in BOOLEAN
         /\ now \in Nat /\ now <= MaxTime
         /\ rawAt \in Nat /\ rawAt <= MaxTime /\ pollNow \in Nat /\ pollNow <= MaxTime
         /\ queued \in Nat /\ steps \in Nat /\ owed \in Int
         /\ since # Never => since \in Nat /\ since <= MaxTime
         /\ pressedAt # Never => pressedAt \in Nat /\ pressedAt <= MaxTime
         /\ seenAt # Never => seenAt \in Nat /\ seenAt <= MaxTime
<1>1. /\ rawAt \in 0..MaxTime /\ pollNow \in 0..MaxTime /\ now \in 0..MaxTime
      /\ since \in 0..MaxTime \cup {Never} /\ pressedAt \in 0..MaxTime \cup {Never}
      /\ seenAt \in 0..MaxTime \cup {Never}
  BY DEF ButtonTypeOK, ButtonMoreTypes, Times
<1>2. level \in BOOLEAN /\ raw \in BOOLEAN /\ stable \in BOOLEAN /\ sample \in BOOLEAN
      /\ queued \in Nat /\ steps \in Nat /\ owed \in Int
  BY DEF ButtonTypeOK
<1> QED
  BY <1>1, <1>2

-----------------------------------------------------------------------------
LEMMA ButtonInitOK == ButtonInit => ButtonInv
<1> SUFFICES ASSUME ButtonInit PROVE ButtonInv
  OBVIOUS
<1>1. ButtonTypeOK
  <2>1. 0 \in Times
    BY ButtonAssumption DEF Times
  <2>2. /\ {level, raw, stable, sample} \subseteq BOOLEAN
        /\ {rawAt, pollNow} \subseteq Times
        /\ {since, pressedAt, seenAt} \subseteq Times \cup {Never}
    BY <2>1 DEF ButtonInit
  <2>3. queued \in Nat /\ steps \in Nat /\ owed \in Int /\ pc = "idle"
    BY DEF ButtonInit
  <2> QED
    BY <2>2, <2>3 DEF ButtonTypeOK
<1>2. ButtonMoreTypes /\ TimesFit /\ StableHasStart
  <2>1. ButtonMoreTypes
    BY ButtonAssumption DEF ButtonInit, ButtonMoreTypes, Times
  <2>2. level = (pressedAt # Never)
    BY DEF ButtonInit
  <2> QED
    BY <2>1, <2>2 DEF ButtonInit, TimesFit, StableHasStart
<1>3. SeenFits /\ DueAdvances /\ HandlerIsCurrent /\ Balance /\ SettleFits
  BY DEF ButtonInit, SettleFits, SeenFits, Due, DueAdvances, HandlerIsCurrent, Balance
<1> QED
  BY <1>1, <1>2, <1>3 DEF ButtonInv

(* The time goes on. *)
LEMMA TimePassesOK == ASSUME ButtonInv, TimePasses PROVE ButtonInv'
<1>1. /\ now < MaxTime /\ now' = now + 1 /\ (irq = "between" => pc = "idle")
      /\ UNCHANGED <<irq, button, level, pressedAt, raw, rawAt, stable, since, queued, steps>>
      /\ UNCHANGED <<pc, pollNow, sample, seenAt, owed>>
  BY DEF TimePasses, wiring, pin, button_state, poll
<1>2. ButtonTypeOK' /\ ButtonMoreTypes'
  BY <1>1, ButtonAssumption DEF ButtonInv, ButtonTypeOK, ButtonMoreTypes, Times
<1>3. TimesFit' /\ SeenFits'
  BY <1>1, ButtonAssumption DEF ButtonInv, ButtonTypeOK, ButtonMoreTypes, Times, TimesFit, SeenFits
<1>4. StableHasStart' /\ DueAdvances'
  BY <1>1 DEF ButtonInv, StableHasStart, Due, DueAdvances
<1>5. HandlerIsCurrent'
  BY <1>1 DEF ButtonInv, HandlerIsCurrent
<1>6. Balance'
  <2>1. SUFFICES ASSUME irq = "between", level
                 PROVE  steps <= StepCount(now' - pressedAt)
    <3>1. StepCount(now - pressedAt)' = StepCount(now' - pressedAt)
      BY <1>1 DEF StepCount
    <3> QED
      BY <1>1, <3>1 DEF ButtonInv, Balance
  <2>2. pressedAt \in Nat /\ pressedAt <= now /\ now \in Nat /\ steps \in Nat
    BY <2>1, ButtonTyped DEF ButtonInv, TimesFit
  <2>3. now - pressedAt \in Nat /\ now' - pressedAt \in Nat
        /\ now - pressedAt <= now' - pressedAt
    BY <1>1, <2>2
  <2>4. StepCount(now - pressedAt) <= StepCount(now' - pressedAt)
    BY <2>3, StepCountGrows
  <2>5. StepCount(now - pressedAt) \in Nat /\ StepCount(now' - pressedAt) \in Nat
    BY <2>3, StepCountFits
  <2> QED
    BY <2>1, <2>2, <2>4, <2>5 DEF ButtonInv, Balance
<1>7. SettleFits'
  BY <1>1 DEF ButtonInv, SettleFits
<1> QED
  BY <1>2, <1>3, <1>4, <1>5, <1>6, <1>7 DEF ButtonInv

-----------------------------------------------------------------------------
(* Edges. *)

LEMMA EdgeTypes ==
  ASSUME ButtonInv, Edge
  PROVE  /\ ButtonTypeOK' /\ ButtonMoreTypes' /\ TimesFit' /\ SeenFits' /\ ~Due'
         /\ (level' /\ irq # "none") => since' # Never
<1>1. /\ level' = ~level /\ seenAt' = Never
      /\ UNCHANGED <<irq, button, now, pc, pollNow, sample>>
  BY DEF Edge, wiring, poll
<1>2. level \in BOOLEAN /\ raw \in BOOLEAN /\ stable \in BOOLEAN /\ sample \in BOOLEAN
      /\ rawAt \in Times /\ pollNow \in Times /\ now \in Times /\ queued \in Nat /\ steps \in Nat
      /\ since \in Times \cup {Never} /\ pressedAt \in Times \cup {Never} /\ owed \in Int
  BY DEF ButtonInv, ButtonTypeOK, ButtonMoreTypes
<1>3. owed' \in Int /\ pressedAt' \in Times \cup {Never}
      /\ level' = (pressedAt' # Never) /\ (pressedAt' # Never => pressedAt' <= now)
  <2>1. CASE level
    <3>1. pressedAt \in Nat /\ pressedAt <= now
      BY <1>2, <2>1, ButtonAssumption DEF ButtonInv, TimesFit, Times
    <3>2. StepCount(now - pressedAt) \in Nat
      BY <1>2, <3>1, StepCountFits DEF Times
    <3> QED
      BY <1>1, <1>2, <2>1, <3>2 DEF Edge
  <2>2. CASE ~level
    BY <1>1, <1>2, <2>2, ButtonAssumption DEF Edge, Times
  <2> QED
    BY <2>1, <2>2
<1>4. /\ raw' \in BOOLEAN /\ stable' \in BOOLEAN /\ queued' \in Nat /\ steps' \in Nat
      /\ rawAt' \in Times /\ since' \in Times \cup {Never}
      /\ rawAt' <= now /\ (since' # Never => since' <= now)
      /\ (level' /\ irq # "none") => since' # Never
  <2>1. CASE irq = "none"
    BY <1>2, <2>1 DEF Edge, button_state, ButtonInv, TimesFit
  <2>2. CASE irq # "none"
    <3>1. RawTransition(level', now) /\ PressState(level', now) /\ stable' = stable
      BY <2>2 DEF Edge
    <3>2. raw' \in BOOLEAN /\ rawAt' \in Times /\ rawAt' <= now
      <4>1. level' \in BOOLEAN /\ rawAt <= now
        BY <1>1, <1>2 DEF ButtonInv, TimesFit
      <4> QED
        BY <1>2, <3>1, <4>1 DEF RawTransition, Times
    <3>3. CASE level'
      BY <1>2, <3>1, <3>2, <3>3, ButtonAssumption DEF PressState, ButtonInv, TimesFit, Times
    <3>4. CASE ~level' /\ since = Never
      BY <1>2, <3>1, <3>2, <3>4 DEF PressState
    <3>5. CASE ~level' /\ since # Never
      <4>1. QueueDue(since, now) /\ since' = Never
        BY <3>1, <3>5 DEF PressState
      <4>2. queued' \in Nat /\ steps' \in Nat
        BY <1>2, <3>5, <4>1, QueueDueFits DEF Times
      <4> QED
        BY <1>2, <3>1, <3>2, <3>5, <4>1, <4>2
    <3> QED
      BY <1>1, <1>2, <3>3, <3>4, <3>5
  <2> QED
    BY <2>1, <2>2
<1>5. ButtonTypeOK'
  BY <1>1, <1>2, <1>3, <1>4 DEF ButtonInv, ButtonTypeOK, Times
<1>6. ButtonMoreTypes'
  BY <1>1 DEF ButtonInv, ButtonMoreTypes, Times
<1>7. TimesFit'
  BY <1>1, <1>3, <1>4 DEF ButtonInv, TimesFit
<1>8. SeenFits' /\ ~Due'
  BY <1>1 DEF SeenFits, Due
<1> QED
  BY <1>4, <1>5, <1>6, <1>7, <1>8

LEMMA EdgeOK == ASSUME ButtonInv, Edge PROVE ButtonInv'
<1>1. /\ level' = ~level
      /\ UNCHANGED <<irq, button, now, pc, pollNow, sample>>
  BY DEF Edge, wiring, poll
<1>2. level \in BOOLEAN /\ now \in Nat /\ queued \in Nat /\ steps \in Nat
  BY DEF ButtonInv, ButtonTypeOK, ButtonMoreTypes, Times
<1>3. StableHasStart'
  BY <1>1, EdgeTypes DEF StableHasStart, ButtonInv, Edge, button_state
<1>4. HandlerIsCurrent' /\ Balance'
  <2>1. SUFFICES ASSUME irq = "between"
                 PROVE  HandlerIsCurrent' /\ Balance'
    BY <1>1 DEF HandlerIsCurrent, Balance
  <2>2. /\ pc = "idle" /\ RawTransition(~level, now) /\ PressState(~level, now)
        /\ stable' = stable
    BY <1>1, <2>1 DEF Edge, HandlerRuns
  <2>3. raw = level /\ since = pressedAt
    BY <2>1 DEF ButtonInv, HandlerIsCurrent
  <2>4. raw' = ~level /\ rawAt' = now
    BY <1>2, <2>2, <2>3 DEF RawTransition
  <2>5. CASE level
    <3>1. pressedAt \in Nat /\ pressedAt <= now /\ pressedAt # Never
      BY <2>5, ButtonTyped DEF ButtonInv, TimesFit
    <3>2. QueueDue(pressedAt, now) /\ since' = Never /\ pressedAt' = Never
          /\ owed' = owed + StepCount(now - pressedAt)
      BY <2>2, <2>3, <2>5, <3>1 DEF PressState, Edge
    <3>3. Target(pressedAt, now) = StepCount(now - pressedAt)
      BY <1>2, <3>1, TargetFits
    <3>4. queued = owed + steps /\ steps <= StepCount(now - pressedAt)
      BY <2>1, <2>5 DEF ButtonInv, Balance
    <3>5. queued' - queued = steps' - steps /\ steps' = StepCount(now - pressedAt)
          /\ queued' \in Nat /\ steps' \in Nat
      BY <1>2, <3>1, <3>2, <3>3, <3>4, QueueDueFits
    <3>6. owed \in Int
      BY DEF ButtonInv, ButtonTypeOK
    <3>7. queued' = owed'
      BY <1>2, <3>2, <3>4, <3>5, <3>6
    <3> QED
      BY <1>1, <2>2, <2>4, <2>5, <3>2, <3>7 DEF HandlerIsCurrent, Balance
  <2>6. CASE ~level
    <3>1. since = Never
      BY <2>3, <2>6 DEF ButtonInv, TimesFit
    <3>2. since' = now /\ steps' = 0 /\ queued' = queued /\ pressedAt' = now /\ owed' = owed
      BY <2>2, <2>6, <3>1 DEF PressState, Edge
    <3>3. queued = owed /\ owed \in Int
      BY <2>1, <2>6 DEF ButtonInv, Balance, ButtonTypeOK
    <3>4. StepCount(now - pressedAt)' = 0
      BY <1>1, <1>2, <3>2, ButtonAssumption DEF StepCount
    <3> QED
      <4>1. level' /\ ~(pc' # "idle")
        BY <1>1, <2>2, <2>6
      <4>2. HandlerIsCurrent'
        BY <2>4, <2>6, <3>2, <4>1 DEF HandlerIsCurrent
      <4>3. Balance'
        BY <3>2, <3>3, <3>4, <4>1 DEF Balance
      <4> QED
        BY <4>2, <4>3
  <2> QED
    BY <2>5, <2>6
<1>5. SettleFits'
  BY <1>1 DEF ButtonInv, SettleFits, Edge, button_state
<1> QED
  BY <1>3, <1>4, <1>5, EdgeTypes DEF ButtonInv, DueAdvances

-----------------------------------------------------------------------------
(* The statements of the poll. *)

(* What holds after every statement that leaves the clock and the pin. *)
LEMMA PollKeeps ==
  ASSUME ButtonInv, UNCHANGED <<irq, button, now, level, pressedAt>>
  PROVE  /\ ButtonMoreTypes'
         /\ level' = (pressedAt' # Never) /\ (pressedAt' # Never => pressedAt' <= now')
         /\ StepCount(now - pressedAt)' = StepCount(now - pressedAt)
BY DEF ButtonInv, ButtonMoreTypes, Times, TimesFit, StepCount

LEMMA StartPollOK == ASSUME ButtonInv, StartPoll PROVE ButtonInv'
<1>1. /\ pc = "idle" /\ pc' = "sample" /\ pollNow' = now
      /\ UNCHANGED <<irq, button, now, level, pressedAt, raw, rawAt, stable, since>>
      /\ UNCHANGED <<queued, steps, sample, seenAt, owed>>
  BY DEF StartPoll, wiring, pin, button_state
<1>2. ButtonTypeOK' /\ ButtonMoreTypes'
  BY <1>1 DEF ButtonInv, ButtonTypeOK, ButtonMoreTypes, Times
<1>3. TimesFit' /\ SeenFits'
  BY <1>1, ButtonTyped DEF ButtonInv, TimesFit, SeenFits
<1>4. StableHasStart' /\ DueAdvances'
  BY <1>1 DEF ButtonInv, StableHasStart, DueAdvances
<1>5. HandlerIsCurrent'
  BY <1>1 DEF ButtonInv, HandlerIsCurrent
<1>6. Balance'
  BY <1>1, PollKeeps DEF ButtonInv, Balance
<1>7. SettleFits'
  BY <1>1 DEF ButtonInv, SettleFits
<1> QED
  BY <1>2, <1>3, <1>4, <1>5, <1>6, <1>7 DEF ButtonInv

LEMMA ReadPinOK == ASSUME ButtonInv, ReadPin PROVE ButtonInv'
<1>1. /\ pc = "sample" /\ pc' = "raw" /\ sample' = level
      /\ seenAt' = IF level /\ seenAt = Never THEN now ELSE seenAt
      /\ UNCHANGED <<irq, button, now, level, pressedAt, raw, rawAt, stable, since>>
      /\ UNCHANGED <<queued, steps, pollNow, owed>>
  BY DEF ReadPin, wiring, pin, button_state
<1>2. ButtonTypeOK' /\ ButtonMoreTypes'
  BY <1>1 DEF ButtonInv, ButtonTypeOK, ButtonMoreTypes, Times
<1>3. TimesFit'
  BY <1>1 DEF ButtonInv, TimesFit
<1>4. SeenFits'
  BY <1>1, ButtonTyped DEF ButtonInv, SeenFits, TimesFit
<1>5. StableHasStart' /\ DueAdvances'
  BY <1>1 DEF ButtonInv, StableHasStart, DueAdvances
<1>6. HandlerIsCurrent'
  BY <1>1 DEF ButtonInv, HandlerIsCurrent
<1>7. Balance'
  BY <1>1, PollKeeps DEF ButtonInv, Balance
<1>8. SettleFits'
  BY <1>1 DEF ButtonInv, SettleFits
<1> QED
  BY <1>2, <1>3, <1>4, <1>5, <1>6, <1>7, <1>8 DEF ButtonInv

LEMMA NoteTransitionOK == ASSUME ButtonInv, NoteTransition PROVE ButtonInv'
<1>1. /\ pc = "raw" /\ pc' = "debounce" /\ RawTransition(sample, pollNow)
      /\ UNCHANGED <<irq, button, now, level, pressedAt, stable, since>>
      /\ UNCHANGED <<queued, steps, pollNow, sample, seenAt, owed>>
  BY DEF NoteTransition, wiring, pin
<1>2. raw' = sample /\ (rawAt' = pollNow \/ (raw = sample /\ rawAt' = rawAt))
  BY <1>1 DEF RawTransition
<1>3. ButtonTypeOK' /\ ButtonMoreTypes'
  BY <1>1, <1>2 DEF ButtonInv, ButtonTypeOK, ButtonMoreTypes, Times
<1>4. TimesFit'
  BY <1>1, <1>2 DEF ButtonInv, TimesFit
<1>5. SeenFits'
  <2>1. SUFFICES ASSUME seenAt # Never PROVE rawAt' <= seenAt /\ raw'
    BY <1>1, <1>2 DEF ButtonInv, SeenFits
  <2>2. sample /\ rawAt <= seenAt /\ (raw \/ pollNow <= seenAt)
    BY <1>1, <2>1 DEF ButtonInv, SeenFits
  <2>3. raw = sample => rawAt' = rawAt
    BY <1>1 DEF RawTransition
  <2> QED
    BY <1>2, <2>2, <2>3, ButtonTyped DEF ButtonInv
<1>6. StableHasStart' /\ DueAdvances'
  BY <1>1 DEF ButtonInv, StableHasStart, DueAdvances
<1>7. HandlerIsCurrent'
  BY <1>1 DEF ButtonInv, HandlerIsCurrent, RawTransition
<1>8. Balance'
  BY <1>1, PollKeeps DEF ButtonInv, Balance
<1>9. SettleFits'
  BY <1>1 DEF ButtonInv, SettleFits
<1> QED
  BY <1>3, <1>4, <1>5, <1>6, <1>7, <1>8, <1>9 DEF ButtonInv

LEMMA DebouncingOK == ASSUME ButtonInv, Debouncing PROVE ButtonInv'
<1>1. /\ pc = "debounce"
      /\ pc' = IF sample = stable THEN "queue" ELSE IF Settled THEN "settle" ELSE "done"
      /\ UNCHANGED <<irq, button, now, level, pressedAt, raw, rawAt, stable, since>>
      /\ UNCHANGED <<queued, steps, pollNow, sample, seenAt, owed>>
  BY DEF Debouncing, wiring, pin, button_state
<1>2. ButtonTypeOK' /\ ButtonMoreTypes'
  BY <1>1 DEF ButtonInv, ButtonTypeOK, ButtonMoreTypes, Times
<1>3. TimesFit' /\ SeenFits' /\ StableHasStart'
  BY <1>1 DEF ButtonInv, TimesFit, SeenFits, StableHasStart
<1>4. DueAdvances'
  <2>1. SUFFICES ASSUME Due PROVE Settled /\ sample
    BY <1>1, <1>2 DEF DueAdvances, Due, ButtonInv, ButtonTypeOK
  <2>2. seenAt # Never /\ rawAt <= seenAt /\ sample
    BY <1>1, <2>1 DEF Due, ButtonInv, SeenFits
  <2> QED
    BY <2>1, <2>2, ButtonTyped, ButtonAssumption DEF Due, Settled, ButtonInv
<1>5. HandlerIsCurrent'
  BY <1>1 DEF ButtonInv, HandlerIsCurrent
<1>6. Balance'
  BY <1>1, PollKeeps DEF ButtonInv, Balance
<1>7. SettleFits'
  BY <1>1 DEF ButtonInv, SettleFits
<1> QED
  BY <1>2, <1>3, <1>4, <1>5, <1>6, <1>7 DEF ButtonInv

LEMMA SettleOK == ASSUME ButtonInv, Settle PROVE ButtonInv'
<1>1. /\ pc = "settle" /\ pc' = "queue" /\ stable' = sample
      /\ IF sample THEN since' = rawAt /\ steps' = 0 /\ UNCHANGED queued
         ELSE PressState(FALSE, pollNow)
      /\ UNCHANGED <<irq, button, now, level, pressedAt, raw, rawAt>>
      /\ UNCHANGED <<pollNow, sample, seenAt, owed>>
  BY DEF Settle, wiring, pin
<1>2. CASE sample
  <2>1. /\ stable' /\ since' = rawAt /\ rawAt # Never /\ steps' = 0 /\ queued' = queued
    BY <1>1, <1>2, ButtonTyped, ButtonAssumption DEF ButtonInv
  <2>2. ButtonTypeOK'
    BY <1>1, <1>2, <2>1 DEF ButtonInv, ButtonTypeOK
  <2>3. ButtonMoreTypes'
    BY <1>1, PollKeeps
  <2>4. TimesFit' /\ SeenFits' /\ StableHasStart'
    BY <1>1, <2>1, PollKeeps DEF ButtonInv, TimesFit, SeenFits, StableHasStart
  <2>5. DueAdvances'
    BY <1>1, <2>1 DEF DueAdvances
  <2>6. HandlerIsCurrent' /\ Balance'
    <3>1. SUFFICES ASSUME irq = "between"
                   PROVE  HandlerIsCurrent' /\ Balance'
      BY <1>1 DEF HandlerIsCurrent, Balance
    <3>2. level /\ rawAt = pressedAt /\ pollNow = now /\ raw = level
      BY <1>1, <1>2, <3>1 DEF ButtonInv, HandlerIsCurrent
    <3>3. HandlerIsCurrent'
      BY <1>1, <1>2, <2>1, <3>2 DEF HandlerIsCurrent
    <3>4. queued = owed + steps /\ steps <= StepCount(now - pressedAt) /\ (~stable => steps = 0)
      BY <3>1, <3>2 DEF ButtonInv, Balance
    <3>5. steps = 0
      BY <1>1, <1>2, <3>4, ButtonTyped DEF ButtonInv, SettleFits
    <3>6. Balance'
      BY <1>1, <2>1, <3>1, <3>2, <3>4, <3>5, PollKeeps DEF Balance
    <3> QED
      BY <3>3, <3>6
  <2> QED
    BY <1>1, <2>2, <2>3, <2>4, <2>5, <2>6 DEF ButtonInv, SettleFits, SettleFits
<1>3. CASE ~sample
  <2>1. ~stable' /\ since' = Never /\ queued' \in Nat /\ steps' \in Nat
    BY <1>1, <1>3, QueueDueFits, ButtonTyped DEF PressState, ButtonInv
  <2>2. ButtonTypeOK'
    BY <1>1, <2>1 DEF ButtonInv, ButtonTypeOK
  <2>3. ButtonMoreTypes'
    BY <1>1, PollKeeps
  <2>4. seenAt = Never
    BY <1>1, <1>3 DEF ButtonInv, SeenFits
  <2>5. TimesFit' /\ SeenFits' /\ StableHasStart' /\ DueAdvances'
    BY <1>1, <2>1, <2>4, PollKeeps
    DEF ButtonInv, TimesFit, SeenFits, StableHasStart, DueAdvances, Due
  <2>6. HandlerIsCurrent' /\ Balance'
    <3>1. SUFFICES ASSUME irq = "between"
                   PROVE  HandlerIsCurrent' /\ Balance'
      BY <1>1 DEF HandlerIsCurrent, Balance
    <3>2. ~level /\ since = pressedAt /\ pollNow = now /\ raw = level
      BY <1>1, <1>3, <3>1 DEF ButtonInv, HandlerIsCurrent
    <3>3. since = Never
      BY <3>2 DEF ButtonInv, TimesFit
    <3>4. UNCHANGED <<since, steps, queued>>
      BY <1>1, <1>3, <3>3 DEF PressState
    <3>5. HandlerIsCurrent'
      BY <1>1, <3>1, <3>2, <3>4 DEF ButtonInv, HandlerIsCurrent
    <3>6. Balance'
      BY <1>1, <3>1, <3>2, <3>4 DEF ButtonInv, Balance
    <3> QED
      BY <3>5, <3>6
  <2> QED
    BY <1>1, <2>2, <2>3, <2>5, <2>6 DEF ButtonInv, SettleFits
<1> QED
  BY <1>2, <1>3

LEMMA QueueLiveOK == ASSUME ButtonInv, QueueLive PROVE ButtonInv'
<1>1. /\ pc = "queue" /\ pc' = "drain"
      /\ IF stable /\ since # Never THEN QueueDue(since, pollNow) ELSE UNCHANGED <<queued, steps>>
      /\ UNCHANGED <<irq, button, now, level, pressedAt, raw, rawAt, stable, since>>
      /\ UNCHANGED <<pollNow, sample, seenAt, owed>>
  BY DEF QueueLive, wiring, pin
<1>2. /\ queued' \in Nat /\ steps' \in Nat /\ steps' >= steps
      /\ queued' - queued = steps' - steps
      /\ stable /\ since # Never => steps' >= Target(since, pollNow)
  BY <1>1, QueueDueFits, ButtonTyped DEF ButtonInv
<1>3. ButtonTypeOK'
  BY <1>1, <1>2 DEF ButtonInv, ButtonTypeOK
<1>4. ButtonMoreTypes'
  BY <1>1, PollKeeps
<1>5. TimesFit' /\ SeenFits' /\ StableHasStart'
  BY <1>1 DEF ButtonInv, TimesFit, SeenFits, StableHasStart
<1>6. DueAdvances'
  <2>1. SUFFICES ASSUME Due PROVE stable /\ steps' >= 1
    BY <1>1 DEF DueAdvances, Due
  <2>2. stable
    BY <1>1, <2>1 DEF ButtonInv, DueAdvances
  <2>3. level /\ seenAt # Never /\ since # Never
    BY <2>1, <2>2 DEF Due, ButtonInv, StableHasStart
  <2>4. since \in Nat /\ seenAt \in Nat /\ pollNow \in Nat /\ since <= seenAt
    BY <2>3, ButtonTyped DEF ButtonInv, SeenFits
  <2>5. pollNow - since >= Debounce
    BY <2>1, <2>4, ButtonAssumption DEF Due
  <2>6. Target(since, pollNow) >= 1 /\ Target(since, pollNow) \in Nat
    BY <2>4, <2>5, TargetFits
  <2> QED
    BY <1>2, <2>2, <2>3, <2>6
<1>7. HandlerIsCurrent'
  BY <1>1 DEF ButtonInv, HandlerIsCurrent
<1>8. Balance'
  <2>1. SUFFICES ASSUME irq = "between"
                 PROVE  Balance'
    BY <1>1 DEF Balance
  <2>2. since = pressedAt /\ pollNow = now
    BY <1>1, <2>1 DEF ButtonInv, HandlerIsCurrent
  <2>3. CASE stable /\ since # Never
    <3>1. level /\ pressedAt \in Nat /\ now \in Nat /\ pressedAt <= now
      BY <2>2, <2>3, ButtonTyped DEF ButtonInv, TimesFit
    <3>2. queued = owed + steps /\ steps <= StepCount(now - pressedAt)
      BY <2>1, <3>1 DEF ButtonInv, Balance
    <3>3. QueueDue(pressedAt, now) /\ Target(pressedAt, now) = StepCount(now - pressedAt)
      BY <1>1, <2>2, <2>3, <3>1, TargetFits
    <3>4. steps' = StepCount(now - pressedAt)
      BY <3>1, <3>2, <3>3, QueueDueFits, ButtonTyped DEF ButtonInv
    <3>5. queued' = owed + steps'
      BY <1>2, <3>2, ButtonTyped DEF ButtonInv
    <3> QED
      BY <1>1, <1>2, <2>3, <3>1, <3>4, <3>5, PollKeeps DEF Balance
  <2>4. CASE ~(stable /\ since # Never)
    BY <1>1, <2>4, PollKeeps DEF ButtonInv, Balance
  <2> QED
    BY <2>3, <2>4
<1>9. SettleFits'
  BY <1>1 DEF ButtonInv, SettleFits
<1> QED
  BY <1>3, <1>4, <1>5, <1>6, <1>7, <1>8, <1>9 DEF ButtonInv

LEMMA EmitOK == ASSUME ButtonInv, Emit PROVE ButtonInv'
<1>1. /\ pc = "drain" /\ queued > 0 /\ queued' = queued - 1 /\ owed' = owed - 1
      /\ UNCHANGED <<irq, button, now, level, pressedAt, raw, rawAt, stable, since, steps>>
      /\ UNCHANGED <<pc, pollNow, sample, seenAt>>
  BY DEF Emit, wiring, pin, poll
<1>2. queued' \in Nat /\ owed' \in Int
  BY <1>1, ButtonTyped DEF ButtonInv
<1>3. ButtonTypeOK'
  BY <1>1, <1>2 DEF ButtonInv, ButtonTypeOK
<1>4. ButtonMoreTypes'
  BY <1>1, PollKeeps
<1>5. TimesFit' /\ SeenFits' /\ StableHasStart'
  BY <1>1 DEF ButtonInv, TimesFit, SeenFits, StableHasStart
<1>6. DueAdvances' /\ HandlerIsCurrent'
  BY <1>1 DEF ButtonInv, DueAdvances, Due, HandlerIsCurrent
<1>7. Balance'
  <2>1. queued = owed => queued' = owed'
    BY <1>1, ButtonTyped DEF ButtonInv
  <2>2. queued = owed + steps => queued' = owed' + steps
    BY <1>1, ButtonTyped DEF ButtonInv
  <2> QED
    BY <1>1, <2>1, <2>2, PollKeeps DEF ButtonInv, Balance
<1>8. SettleFits'
  BY <1>1 DEF ButtonInv, SettleFits
<1> QED
  BY <1>3, <1>4, <1>5, <1>6, <1>7, <1>8 DEF ButtonInv

LEMMA DrainedOK == ASSUME ButtonInv, Drained PROVE ButtonInv'
<1>1. /\ pc = "drain" /\ queued = 0 /\ pc' = "done"
      /\ steps' = IF since = Never THEN 0 ELSE steps
      /\ UNCHANGED <<irq, button, now, level, pressedAt, raw, rawAt, stable, since, queued>>
      /\ UNCHANGED <<pollNow, sample, seenAt, owed>>
  BY DEF Drained, wiring, pin
<1>2. ButtonTypeOK'
  BY <1>1 DEF ButtonInv, ButtonTypeOK
<1>3. ButtonMoreTypes'
  BY <1>1, PollKeeps
<1>4. TimesFit' /\ SeenFits' /\ StableHasStart' /\ HandlerIsCurrent'
  BY <1>1 DEF ButtonInv, TimesFit, SeenFits, StableHasStart, HandlerIsCurrent
<1>5. DueAdvances'
  BY <1>1 DEF ButtonInv, DueAdvances, Due, StableHasStart
<1>6. Balance'
  <2>1. irq = "between" /\ level => since # Never
    BY DEF ButtonInv, HandlerIsCurrent, TimesFit
  <2> QED
    BY <1>1, <2>1, PollKeeps DEF ButtonInv, Balance
<1>7. SettleFits'
  BY <1>1 DEF ButtonInv, SettleFits
<1> QED
  BY <1>2, <1>3, <1>4, <1>5, <1>6, <1>7 DEF ButtonInv

LEMMA EndPollOK == ASSUME ButtonInv, EndPoll PROVE ButtonInv'
<1>1. /\ pc = "done" /\ pc' = "idle"
      /\ UNCHANGED <<irq, button, now, level, pressedAt, raw, rawAt, stable, since, queued>>
      /\ UNCHANGED <<steps, pollNow, sample, seenAt, owed>>
  BY DEF EndPoll, wiring, pin, button_state
<1>2. ButtonTypeOK'
  BY <1>1 DEF ButtonInv, ButtonTypeOK
<1>3. ButtonMoreTypes' /\ Balance'
  BY <1>1, PollKeeps DEF ButtonInv, Balance
<1>4. TimesFit' /\ SeenFits' /\ StableHasStart' /\ HandlerIsCurrent' /\ DueAdvances'
  BY <1>1 DEF ButtonInv, TimesFit, SeenFits, StableHasStart, HandlerIsCurrent, DueAdvances
<1>5. SettleFits'
  BY <1>1 DEF ButtonInv, SettleFits
<1> QED
  BY <1>2, <1>3, <1>4, <1>5 DEF ButtonInv

-----------------------------------------------------------------------------
LEMMA ButtonStepOK == ButtonInv /\ [ButtonNext]_buttonVars => ButtonInv'
<1> SUFFICES ASSUME ButtonInv, [ButtonNext]_buttonVars PROVE ButtonInv'
  OBVIOUS
<1>1. CASE Edge
  BY <1>1, EdgeOK
<1>2. CASE TimePasses
  BY <1>2, TimePassesOK
<1>3. CASE Poll
  BY <1>3, StartPollOK, ReadPinOK, NoteTransitionOK, DebouncingOK, SettleOK, QueueLiveOK,
     EmitOK, DrainedOK, EndPollOK DEF Poll
<1>4. CASE UNCHANGED buttonVars
  <2>1. /\ UNCHANGED <<irq, button, now, level, pressedAt, raw, rawAt, stable, since, queued>>
        /\ UNCHANGED <<steps, pc, pollNow, sample, seenAt, owed>>
    BY <1>4 DEF buttonVars, wiring, pin, button_state, poll
  <2>2. ButtonTypeOK'
    BY <2>1 DEF ButtonInv, ButtonTypeOK
  <2>3. ButtonMoreTypes' /\ Balance'
    BY <2>1, PollKeeps DEF ButtonInv, Balance
  <2>4. TimesFit' /\ SeenFits' /\ StableHasStart' /\ DueAdvances' /\ HandlerIsCurrent'
        /\ SettleFits'
    BY <2>1 DEF ButtonInv, TimesFit, SeenFits, StableHasStart, DueAdvances, Due, HandlerIsCurrent,
       SettleFits
  <2> QED
    BY <2>2, <2>3, <2>4 DEF ButtonInv
<1> QED
  BY <1>1, <1>2, <1>3, <1>4 DEF ButtonNext

THEOREM ButtonInvHolds == ButtonSpec => []ButtonInv
BY ButtonInitOK, ButtonStepOK, PTL DEF ButtonSpec

(* While no edge falls into a poll, the steps emitted and queued are those  *)
(* that all presses are worth by their durations (docs/reference.md:49-51,  *)
(* step_count, _queue_due_steps): none is lost and none is counted twice.   *)
THEOREM StepsStayWithHold == ButtonSpec => []StepsMatchHold
<1>1. ButtonInv => StepsMatchHold
  <2>1. SUFFICES ASSUME ButtonInv, irq = "between", pc = "idle"
                 PROVE  IF level THEN queued <= owed + Held ELSE queued = owed
    BY DEF StepsMatchHold, ButtonInv
  <2>2. CASE level
    <3>1. queued = owed + steps /\ steps <= StepCount(now - pressedAt)
      BY <2>1, <2>2 DEF ButtonInv, Balance
    <3>2. now - pressedAt \in Nat
      <4>1. pressedAt # Never /\ pressedAt <= now
        BY <2>1, <2>2 DEF ButtonInv, TimesFit
      <4> QED
        BY <2>1, <4>1, ButtonTyped DEF ButtonInv
    <3>3. StepCount(now - pressedAt) \in Nat /\ Held = StepCount(now - pressedAt)
      BY <2>2, <3>2, StepCountFits DEF Held
    <3> QED
      BY <2>1, <2>2, <3>1, <3>3, ButtonTyped DEF ButtonInv
  <2>3. CASE ~level
    BY <2>1, <2>3 DEF ButtonInv, Balance
  <2> QED
    BY <2>2, <2>3
<1> QED
  BY <1>1, ButtonInvHolds, PTL

(* A press that one poll saw and that lasts until a poll the debounce time  *)
(* later is reported by the end of that poll, whatever edges run the        *)
(* handler between the statements of the polls before (_capture_irq, poll). *)
THEOREM HeldPressesAreReported == ButtonSpec => []HeldPressIsReported
<1>1. ButtonInv => HeldPressIsReported
  BY DEF ButtonInv, DueAdvances, Due, HeldPressIsReported
<1> QED
  BY <1>1, ButtonInvHolds, PTL
==============================================================================
