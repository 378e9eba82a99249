---------------------------- MODULE MCReminders ----------------------------
(***************************************************************************)
(* A small instance of Reminders: thresholds of one to three business days *)
(* so that as many reminders as it takes to copy somebody fit in eight days *)
(* with a weekend.                                                         *)
(***************************************************************************)
EXTENDS Reminders

CONSTANTS s1, s2

\* The first submission is acted on, the second waits beside it in the runs.
OneActive == [s \in {s1, s2} |-> IF s = s1 THEN 3 ELSE 1]

ShortThreshold ==
    [t \in Waiting |-> CASE t \in {"updates_required", "awaiting_approval"} -> 1
                         [] t = "under_review" -> 3
                         [] OTHER -> 2]
=============================================================================
