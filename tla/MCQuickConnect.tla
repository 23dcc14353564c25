--------------------------- MODULE MCQuickConnect ---------------------------
(* A small instance of QuickConnect for TLC: no step touches two sessions. *)
EXTENDS QuickConnect

CONSTANT a
=============================================================================
