----------------------------- MODULE MCWorkflow -----------------------------
(***************************************************************************)
(* A small instance of Workflow: a submitter, a reviewer scoped to group   *)
(* g1, an approver, and an admin who also publishes.                       *)
(***************************************************************************)
EXTENDS Workflow

CONSTANTS ann, rob, amy, pam, g1, f1, f2, c1

Row(u, role, g) == [email |-> u, role |-> role, group |-> g]

AdminRows == {Row(rob, "reviewer", g1), Row(amy, "approver", NoGroup),
              Row(pam, "admin", NoGroup)}

Fill(t, g, owners, ack, clean) ==
    [text |-> t, group |-> g, owners |-> owners, ack |-> ack, clean |-> clean]

\* A complete form; one that names the approver an owner; one that misses a
\* required field and the group.
SmallForms == {Fill("full", g1, {ann}, TRUE, TRUE),
               Fill("full", g1, {ann, amy}, TRUE, TRUE),
               Fill("blank", NoGroup, {ann}, TRUE, TRUE)}

\* Two files at once, of which the limit lets one be stored.
BothFiles == {{}, {f1, f2}}
=============================================================================
