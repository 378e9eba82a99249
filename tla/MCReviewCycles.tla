--------------------------- MODULE MCReviewCycles ---------------------------
(***************************************************************************)
(* A small instance of ReviewCycles: one offering and two overlapping       *)
(* requests, cycles of a few days, and weeks and patience shortened with    *)
(* them, so that notice, reminders and escalation fit before the last day.  *)
(***************************************************************************)
EXTENDS ReviewCycles, TLC

CONSTANTS s1, r1, r2

Either == Permutations(Req)
=============================================================================
