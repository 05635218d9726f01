--------------------------- MODULE MCTraceability ---------------------------
(* Two workers that compete for the records of one product, and its reader. *)
EXTENDS Traceability, TLC

CONSTANTS r1, r2
=============================================================================
