----------------------------- MODULE MCUploads -----------------------------
(***************************************************************************)
(* A small instance of Uploads: two requests on two workers, a limit of two *)
(* and as many attachments as break it twice over.                          *)
(***************************************************************************)
EXTENDS Uploads

CONSTANTS r1, r2, w1, w2

\* Up to the names of the workers, there are no others.
SameOrNot == {[r \in {r1, r2} |-> w1], [r \in {r1, r2} |-> IF r = r1 THEN w1 ELSE w2]}
=============================================================================
