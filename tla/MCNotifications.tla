--------------------------- MODULE MCNotifications ---------------------------
(***************************************************************************)
(* Small instances of Notifications: one to four requests, jobs of two      *)
(* workers.                                                                *)
(***************************************************************************)
EXTENDS Notifications

CONSTANTS q1, q2, q3, q4, j1, j2
=============================================================================
