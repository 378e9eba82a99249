----------------------------- MODULE Lifecycle -----------------------------
(***************************************************************************)
(* The handlers of app/workflow.py and of the submission router, as        *)
(* functions from the submission a request loaded to the submission it     *)
(* writes back. A record holds the submissions row together with its child *)
(* rows: approved versions, decision events, review cycles and blocking    *)
(* comments. Workflow runs the handlers one at a time; WorkflowTx runs     *)
(* them on snapshots.                                                      *)
(***************************************************************************)
EXTENDS Policy

CONSTANTS
    Text,          \* values of the free-text part of the form
    CompleteText,  \* those that pass the required-field and word-limit checks
    File,          \* attachments
    MaxFiles,      \* max_attachments_per_submission
    CommentId      \* blocking comments that may be written

ASSUME LifecycleAssumption ==
    /\ CompleteText \subseteq Text
    /\ MaxFiles \in Nat

Content == [text: Text, group: Group \union {NoGroup}, owners: SUBSET User,
            ack: BOOLEAN, files: SUBSET File]

\* What a posted form holds. It is not clean when parsing it reports an error
\* (a contact without an address, a fourth capability, a refused file).
Form == [text: Text, group: Group \union {NoGroup}, owners: SUBSET User,
         ack: BOOLEAN, clean: BOOLEAN]

Version  == [revision: Nat, content: Content, approver: User]
Decision == [revision: Nat, to: {"approved", "rejected"}, actor: User]
CycleState   == {"open", "confirmed", "updated", "withdrawn"}
CommentState == {"absent", "open", "resolved"}

Submission ==
    [status: Status, revision: Nat, ref: Nat, creator: User,
     content: Content, assigned: User \union {NoUser},
     approvedVersion: Nat, versions: Seq(Version), decisions: Seq(Decision),
     cycles: Seq(CycleState), comments: [CommentId -> CommentState],
     archived: BOOLEAN]

-----------------------------------------------------------------------------
(* The form, uploads and completeness.                                     *)

Complete(c) == /\ c.text \in CompleteText
               /\ c.group # NoGroup
               /\ c.owners # {}
               /\ c.ack

Unresolved(s) == {c \in CommentId : s.comments[c] = "open"}
OpenCycles(s) == {i \in DOMAIN s.cycles : s.cycles[i] = "open"}

\* The form overwrites every field; the attachments are left alone.
Filled(c, f) == [text |-> f.text, group |-> f.group, owners |-> f.owners,
                 ack |-> f.ack, files |-> c.files]

Fits(files, up) == Cardinality(files \union up) <= MaxFiles

\* The files a request ends up with: uploads are taken in the order posted
\* until the limit is reached and the rest are refused.
Stored(files, up) ==
    IF Fits(files, up) THEN {files \union up}
    ELSE {files \union g : g \in
             {h \in SUBSET up : IF Cardinality(files) > MaxFiles THEN h = {}
                               ELSE Cardinality(files \union h) = MaxFiles}}

New(u) == [status |-> "draft", revision |-> 1, ref |-> 0, creator |-> u,
           content |-> [text |-> CHOOSE t \in Text : TRUE, group |-> NoGroup,
                        owners |-> {}, ack |-> FALSE, files |-> {}],
           assigned |-> NoUser, approvedVersion |-> 0, versions |-> <<>>,
           decisions |-> <<>>, cycles |-> <<>>,
           comments |-> [c \in CommentId |-> "absent"], archived |-> FALSE]

-----------------------------------------------------------------------------
(* Transitions.                                                            *)

\* A record that already has a reference number keeps it; n is the number
\* the counter would give out.
Submitted(s, n) == [s EXCEPT !.status = "submitted",
                             !.ref = IF @ = 0 THEN n ELSE @]

Claimed(s, u) == [s EXCEPT !.assigned = u, !.status = "under_review"]

UpdatesRequested(s) == [s EXCEPT !.status = "updates_required"]

Resubmitted(s) == [s EXCEPT !.revision = @ + 1, !.status = "under_review"]

ReviewCompleted(s) == [s EXCEPT !.status = "awaiting_approval"]

\* Mutant: an approval takes no snapshot.
ApprovedUnversioned(s, u) ==
    [s EXCEPT !.status = "approved",
              !.decisions = Append(@, [revision |-> s.revision,
                                       to |-> "approved", actor |-> u])]

Approved(s, u) ==
    [s EXCEPT !.status = "approved",
              !.decisions = Append(@, [revision |-> s.revision,
                                       to |-> "approved", actor |-> u]),
              !.versions = Append(@, [revision |-> s.revision,
                                      content |-> s.content, approver |-> u]),
              !.approvedVersion = Len(s.versions) + 1]

Rejected(s, u) ==
    [s EXCEPT !.status = "rejected",
              !.decisions = Append(@, [revision |-> s.revision,
                                       to |-> "rejected", actor |-> u])]

ReadyConfirmed(s) == [s EXCEPT !.status = "ready_to_publish"]

Closed(cycles, reason) ==
    [i \in DOMAIN cycles |-> IF cycles[i] = "open" THEN reason ELSE cycles[i]]

Published(s) == [s EXCEPT !.status = "published", !.cycles = Append(@, "open")]

\* Mutant: the open cycle is left for the next publication, which closes none.
ReopenedUnclosed(s) ==
    [s EXCEPT !.revision = @ + 1,
              !.status = IF @ = "published" /\ s.assigned # NoUser
                         THEN "under_review" ELSE "submitted"]

\* Mutant: a reopened record goes back to the pool and forgets its reviewer.
ReopenedToPool(s) ==
    [s EXCEPT !.revision = @ + 1, !.status = "submitted", !.assigned = NoUser,
              !.cycles = IF s.status = "published" THEN Closed(@, "updated")
                                                   ELSE @]

\* Mutant: a reopened record goes on in the revision that was decided.
ReopenedInRevision(s) ==
    [s EXCEPT !.status = IF @ = "published" /\ s.assigned # NoUser
                         THEN "under_review" ELSE "submitted",
              !.cycles = IF s.status = "published" THEN Closed(@, "updated")
                                                   ELSE @]

Reopened(s) ==
    [s EXCEPT !.revision = @ + 1,
              !.status = IF @ = "published" /\ s.assigned # NoUser
                         THEN "under_review" ELSE "submitted",
              !.cycles = IF s.status = "published" THEN Closed(@, "updated")
                                                   ELSE @]

Withdrawn(s) == [s EXCEPT !.cycles = Closed(@, "withdrawn"),
                          !.status = "withdrawn"]

ReviewConfirmed(s) ==
    [s EXCEPT !.cycles = Append(Closed(@, "confirmed"), "open")]

-----------------------------------------------------------------------------
(* What the handlers check before they write.                              *)

MayResubmit(u, s) == CanResubmit(u, s) /\ Complete(s.content)

\* Mutant: the review is completed without looking at the form again.
MayCompleteUnchecked(u, s) == CanCompleteReview(u, s) /\ Unresolved(s) = {}

MayCompleteReview(u, s) == /\ CanCompleteReview(u, s)
                           /\ Complete(s.content)
                           /\ Unresolved(s) = {}

\* An edit stores the form and the files whatever errors it meets, then
\* submits a draft or resubmits only if it met none.
Edited(s, f, files) == [s EXCEPT !.content = [Filled(@, f) EXCEPT !.files = files]]

SubmitsOnSave(s, intent, clean) ==
    /\ intent = "submit" /\ s.status = "draft"
    /\ clean /\ Complete(s.content)

ResubmitsOnSave(u, s, intent, clean) ==
    /\ intent = "resubmit" /\ s.status = "updates_required"
    /\ clean /\ MayResubmit(u, s)

Saved(u, s, f, up, files, intent, n) ==
    LET e     == Edited(s, f, files)
        clean == f.clean /\ Fits(s.content.files, up)
    IN  IF SubmitsOnSave(e, intent, clean) THEN Submitted(e, n)
        ELSE IF ResubmitsOnSave(u, e, intent, clean) THEN Resubmitted(e)
        ELSE e

Deleted(s) == [s EXCEPT !.archived = TRUE, !.content.files = {}]
=============================================================================
