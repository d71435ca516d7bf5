--------------------------- MODULE MCButtonReader ---------------------------
(* A debounce time of two units, a repeat every two. *)
EXTENDS ButtonReader
=============================================================================
