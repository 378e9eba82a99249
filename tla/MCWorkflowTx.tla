---------------------------- MODULE MCWorkflowTx ----------------------------
(***************************************************************************)
(* Small instances of WorkflowTx: a submitter, a reviewer scoped to group  *)
(* g1, an approver and a publisher; or two people for overlapping requests.*)
(***************************************************************************)
EXTENDS WorkflowTx, TLC

CONSTANTS ann, rob, amy, pam, g1, f1, f2, c1, r1, r2

Row(u, role, g) == [email |-> u, role |-> role, group |-> g]

StaffRows == {Row(rob, "reviewer", g1), Row(amy, "approver", NoGroup),
              Row(pam, "publisher", NoGroup)}

\* Two people only: an approver who also submits, and an admin who may be an owner.
PairUsers == {ann, amy}
PairRows == {Row(amy, "admin", NoGroup), Row(ann, "approver", g1)}

Fill(t, g, owners, ack, clean) ==
    [text |-> t, group |-> g, owners |-> owners, ack |-> ack, clean |-> clean]

\* A complete form, and one that names the approver an owner.
OwnerForms == {Fill("full", g1, {ann}, TRUE, TRUE),
               Fill("full", g1, {ann, amy}, TRUE, TRUE)}

\* Also one that misses a required field and the group, one without the consent,
\* and one the parser complains about.
EveryForm == OwnerForms \union {Fill("blank", NoGroup, {ann}, TRUE, TRUE),
                                Fill("full", g1, {}, FALSE, TRUE),
                                Fill("full", g1, {rob}, TRUE, FALSE)}
BothFiles == {{}, {f1, f2}}
RequestSymmetry == Permutations(Request)
=============================================================================
