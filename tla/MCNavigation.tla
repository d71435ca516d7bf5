---------------------------- MODULE MCNavigation ----------------------------
(* Small tables: four checks on two pages, the upper ones from a service. *)
EXTENDS NavigationProps

MCChecks == 1..4
MCService == {1, 4}
=============================================================================
