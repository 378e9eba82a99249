----------------------------- MODULE MCAccessTx -----------------------------
(***************************************************************************)
(* A small instance of AccessTx: the bootstrap admin and a second person,   *)
(* two networks and two requests at a time.                                *)
(***************************************************************************)
EXTENDS AccessTx, TLC

CONSTANTS ann, bea, n1, n2, r1, r2

Symmetry == Permutations(Req)
=============================================================================
