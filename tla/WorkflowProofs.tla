--------------------------- MODULE WorkflowProofs ---------------------------
(***************************************************************************)
(* Proofs about Workflow, for any users, roles, forms, files and bounds:   *)
(* its types, the approval and the review cycles, the reference number and *)
(* what an edit may do to what was approved.                               *)
(***************************************************************************)
EXTENDS Workflow, TLAPS

-----------------------------------------------------------------------------
(* Types of what the handlers write.                                       *)

\* Each transition handler turns a well-typed record into a well-typed one.
LEMMA TransitionTypes ==
    ASSUME NEW s \in Submission, NEW u \in User, NEW n \in Nat
    PROVE  /\ Submitted(s, n) \in Submission
           /\ Claimed(s, u) \in Submission
           /\ UpdatesRequested(s) \in Submission
           /\ Resubmitted(s) \in Submission
           /\ ReviewCompleted(s) \in Submission
           /\ ReadyConfirmed(s) \in Submission
           /\ Deleted(s) \in Submission
<1>1. Submitted(s, n) \in Submission
  BY DEF Submission, Status, Submitted
<1>2. Claimed(s, u) \in Submission
  BY DEF Submission, Status, Claimed
<1>3. UpdatesRequested(s) \in Submission
  BY DEF Submission, Status, UpdatesRequested
<1>5. Resubmitted(s) \in Submission
  <2>1. s.revision + 1 \in Nat /\ "under_review" \in Status
    BY DEF Submission, Status
  <2> QED
    BY <2>1 DEF Submission, Resubmitted
<1>6. ReviewCompleted(s) \in Submission
  BY DEF Submission, Status, ReviewCompleted
<1>7. ReadyConfirmed(s) \in Submission
  BY DEF Submission, Status, ReadyConfirmed
<1>4. Deleted(s) \in Submission
  <2>1. [s.content EXCEPT !.files = {}] \in Content
    BY DEF Submission, Content
  <2> QED
    BY <2>1 DEF Submission, Deleted
<1> QED
  BY <1>1, <1>2, <1>3, <1>4, <1>5, <1>6, <1>7

\* The handlers that append a decision or a version.
LEMMA DecisionTypes ==
    ASSUME NEW s \in Submission, NEW u \in User
    PROVE  /\ Approved(s, u) \in Submission
           /\ Rejected(s, u) \in Submission
<1> DEFINE a == [revision |-> s.revision, to |-> "approved", actor |-> u]
           r == [revision |-> s.revision, to |-> "rejected", actor |-> u]
           v == [revision |-> s.revision, content |-> s.content, approver |-> u]
<1>1. /\ a \in Decision /\ r \in Decision /\ v \in Version
  BY DEF Submission, Decision, Version
<1>2. /\ Append(s.decisions, a) \in Seq(Decision)
      /\ Append(s.decisions, r) \in Seq(Decision)
      /\ Append(s.versions, v) \in Seq(Version)
      /\ Len(s.versions) + 1 \in Nat
  BY <1>1 DEF Submission
<1> QED
  BY <1>2 DEF Submission, Status, Approved, Rejected

\* Closing the open cycles of a record keeps the number of cycles.
LEMMA ClosedType ==
    ASSUME NEW c \in Seq(CycleState), NEW reason \in CycleState
    PROVE  /\ Closed(c, reason) \in Seq(CycleState)
           /\ Len(Closed(c, reason)) = Len(c)
           /\ DOMAIN Closed(c, reason) = DOMAIN c
           /\ \A i \in DOMAIN c : Closed(c, reason)[i] =
                                    IF c[i] = "open" THEN reason ELSE c[i]
  BY DEF Closed

\* The handlers that open and close review cycles.
LEMMA CycleTypes ==
    ASSUME NEW s \in Submission
    PROVE  /\ Published(s) \in Submission
           /\ Reopened(s) \in Submission
           /\ Withdrawn(s) \in Submission
           /\ ReviewConfirmed(s) \in Submission
<1>1. s.cycles \in Seq(CycleState)
  BY DEF Submission
<1>2. \A reason \in CycleState : Closed(s.cycles, reason) \in Seq(CycleState)
  BY <1>1, ClosedType
<1>3. /\ Append(s.cycles, "open") \in Seq(CycleState)
      /\ Append(Closed(s.cycles, "confirmed"), "open") \in Seq(CycleState)
      /\ Closed(s.cycles, "updated") \in Seq(CycleState)
      /\ Closed(s.cycles, "withdrawn") \in Seq(CycleState)
  BY <1>1, <1>2 DEF CycleState
<1>4. Published(s) \in Submission
  BY <1>3 DEF Submission, Status, Published
<1>5. Reopened(s) \in Submission
  <2> DEFINE st == IF s.status = "published" /\ s.assigned # NoUser
                   THEN "under_review" ELSE "submitted"
             cs == IF s.status = "published" THEN Closed(s.cycles, "updated")
                                             ELSE s.cycles
  <2>1. s.revision + 1 \in Nat /\ st \in Status /\ cs \in Seq(CycleState)
    BY <1>3 DEF Submission, Status
  <2>2. Reopened(s) = [s EXCEPT !.revision = s.revision + 1, !.status = st,
                                !.cycles = cs]
    BY DEF Reopened
  <2> HIDE DEF st, cs
  <2> QED
    BY <2>1, <2>2 DEF Submission
<1>6. Withdrawn(s) \in Submission
  BY <1>3 DEF Submission, Status, Withdrawn
<1>7. ReviewConfirmed(s) \in Submission
  BY <1>3 DEF Submission, Status, ReviewConfirmed
<1> QED
  BY <1>4, <1>5, <1>6, <1>7

-----------------------------------------------------------------------------
(* The form and its attachments.                                           *)

\* Whatever a request stores are files.
LEMMA StoredType ==
    ASSUME NEW files \in SUBSET File, NEW up \in SUBSET File,
           NEW g \in Stored(files, up)
    PROVE  g \in SUBSET File
  BY DEF Stored

\* Saving the form keeps a record well typed, and so does submitting or
\* resubmitting it on the way.
LEMMA SavedType ==
    ASSUME NEW s \in Submission, NEW u \in User, NEW f \in Form,
           NEW up, NEW files \in SUBSET File, NEW intent, NEW n \in Nat
    PROVE  /\ Edited(s, f, files) \in Submission
           /\ Saved(u, s, f, up, files, intent, n) \in Submission
<1>1. [Filled(s.content, f) EXCEPT !.files = files] \in Content
  BY DEF Filled, Form, Content
<1>2. Edited(s, f, files) \in Submission
  BY <1>1 DEF Edited, Submission
<1>3. /\ Submitted(Edited(s, f, files), n) \in Submission
      /\ Resubmitted(Edited(s, f, files)) \in Submission
  BY <1>2, TransitionTypes
<1> QED
  BY <1>2, <1>3 DEF Saved

\* A new record, once its form is filled in, is well typed.
LEMMA NewType ==
    ASSUME NEW u \in User, NEW f \in Form, NEW files \in SUBSET File
    PROVE  Edited(New(u), f, files) \in Submission
<1>1. [Filled(New(u).content, f) EXCEPT !.files = files] \in Content
  BY DEF Filled, Form, Content
<1>2. /\ <<>> \in Seq(Version) /\ <<>> \in Seq(Decision)
      /\ <<>> \in Seq(CycleState)
      /\ [c \in CommentId |-> "absent"] \in [CommentId -> CommentState]
  BY DEF CommentState
<1> QED
  BY <1>1, <1>2 DEF Edited, New, Submission, Status

-----------------------------------------------------------------------------
(* Type correctness.                                                       *)

\* Every step of the workflow keeps the record and the counter well typed.
LEMMA TypeStep == TypeOK /\ [Next]_vars => TypeOK'
<1> SUFFICES ASSUME TypeOK, [Next]_vars PROVE TypeOK'
  OBVIOUS
<1> USE WorkflowAssumption
<1>1. CASE UNCHANGED vars
  BY <1>1 DEF TypeOK, vars
<1>2. CASE Next
  <2> PICK u \in User :
        \/ Edit(u) \/ Upload(u) \/ DeleteAttachment(u) \/ DeleteSubmission(u)
        \/ AddBlockingComment(u) \/ ResolveComment(u)
        \/ Claim(u) \/ RequestUpdates(u) \/ Resubmit(u) \/ CompleteReview(u)
        \/ Approve(u) \/ Reject(u) \/ ConfirmReady(u) \/ Publish(u)
        \/ Reopen(u) \/ Withdraw(u) \/ ConfirmReview(u)
    BY <1>2 DEF Next
  <2>1. sub \in Submission /\ lastRef \in Nat /\ lastRef + 1 \in Nat
    BY DEF TypeOK
  <2>2. sub.content.files \in SUBSET File
    BY <2>1 DEF Submission, Content
  <2>3. CASE Edit(u)
    <3>0. PICK f \in FormInput, intent \in {"save", "submit", "resubmit"},
               up \in UploadInput : \E files \in Stored(sub.content.files, up) :
                 sub' = Saved(u, sub, f, up, files, intent, lastRef + 1)
      BY <2>3 DEF Edit
    <3>1. PICK files \in Stored(sub.content.files, up) :
                 sub' = Saved(u, sub, f, up, files, intent, lastRef + 1)
      BY <3>0
    <3>2. files \in SUBSET File /\ f \in Form
      BY <2>2, StoredType
    <3>3. sub' \in Submission
      BY <2>1, <3>1, <3>2, SavedType
    <3>4. lastRef' \in Nat
      BY <2>1, <2>3 DEF Edit, Minted
    <3> QED
      BY <3>3, <3>4 DEF TypeOK
  <2>4. CASE Upload(u)
    <3>0. PICK up \in UploadInput : \E files \in Stored(sub.content.files, up) :
            Write([sub EXCEPT !.content.files = files])
      BY <2>4 DEF Upload
    <3>1. PICK files \in Stored(sub.content.files, up) :
            Write([sub EXCEPT !.content.files = files])
      BY <3>0
    <3>2. files \in SUBSET File
      BY <2>2, StoredType
    <3>3. [sub.content EXCEPT !.files = files] \in Content
      BY <2>1, <3>2 DEF Submission, Content
    <3> QED
      BY <2>1, <3>1, <3>3 DEF TypeOK, Write, Submission
  <2>5. CASE DeleteAttachment(u)
    <3>1. PICK f \in sub.content.files :
            Write([sub EXCEPT !.content.files = @ \ {f}])
      BY <2>5 DEF DeleteAttachment
    <3>2. [sub.content EXCEPT !.files = @ \ {f}] \in Content
      BY <2>1, <2>2 DEF Submission, Content
    <3> QED
      BY <2>1, <3>1, <3>2 DEF TypeOK, Write, Submission
  <2>6. CASE AddBlockingComment(u)
    <3>1. PICK c \in CommentId : Write([sub EXCEPT !.comments[c] = "open"])
      BY <2>6 DEF AddBlockingComment
    <3>2. [sub.comments EXCEPT ![c] = "open"] \in [CommentId -> CommentState]
      BY <2>1 DEF Submission, CommentState
    <3> QED
      BY <2>1, <3>1, <3>2 DEF TypeOK, Write, Submission
  <2>7. CASE ResolveComment(u)
    <3>1. PICK c \in CommentId :
            Write([sub EXCEPT !.comments[c] =
                     IF @ = "resolved" THEN "open" ELSE "resolved"])
      BY <2>7 DEF ResolveComment
    <3>2. [sub.comments EXCEPT ![c] = IF @ = "resolved" THEN "open" ELSE "resolved"]
            \in [CommentId -> CommentState]
      BY <2>1 DEF Submission, CommentState
    <3> QED
      BY <2>1, <3>1, <3>2 DEF TypeOK, Write, Submission
  <2>8. CASE Claim(u)
    BY <2>1, <2>8, TransitionTypes DEF TypeOK, Write, Claim
  <2>9. CASE RequestUpdates(u)
    BY <2>1, <2>9, TransitionTypes DEF TypeOK, Write, RequestUpdates
  <2>10. CASE Resubmit(u)
    BY <2>1, <2>10, TransitionTypes DEF TypeOK, Write, Resubmit
  <2>11. CASE CompleteReview(u)
    BY <2>1, <2>11, TransitionTypes DEF TypeOK, Write, CompleteReview
  <2>12. CASE Approve(u)
    BY <2>1, <2>12, DecisionTypes DEF TypeOK, Write, Approve
  <2>13. CASE Reject(u)
    BY <2>1, <2>13, DecisionTypes DEF TypeOK, Write, Reject
  <2>14. CASE ConfirmReady(u)
    BY <2>1, <2>14, TransitionTypes DEF TypeOK, Write, ConfirmReady
  <2>15. CASE Publish(u)
    BY <2>1, <2>15, CycleTypes DEF TypeOK, Write, Publish
  <2>16. CASE Reopen(u)
    BY <2>1, <2>16, CycleTypes DEF TypeOK, Write, Reopen
  <2>17. CASE Withdraw(u)
    BY <2>1, <2>17, CycleTypes DEF TypeOK, Write, Withdraw
  <2>18. CASE ConfirmReview(u)
    BY <2>1, <2>18, CycleTypes DEF TypeOK, Write, ConfirmReview
  <2>19. CASE DeleteSubmission(u)
    BY <2>1, <2>19, TransitionTypes DEF TypeOK, Write, DeleteSubmission
  <2> QED
    BY <2>3, <2>4, <2>5, <2>6, <2>7, <2>8, <2>9, <2>10, <2>11, <2>12, <2>13,
       <2>14, <2>15, <2>16, <2>17, <2>18, <2>19
<1> QED
  BY <1>1, <1>2

\* A record is created well typed.
LEMMA TypeInit == Init => TypeOK
<1> SUFFICES ASSUME NEW u \in User,
                    \/ CreateDraft(u) /\ lastRef = 0
                    \/ CreateSubmitted(u) /\ lastRef = 1
             PROVE  TypeOK
  BY DEF Init
<1> USE WorkflowAssumption
<1>1. CASE CreateDraft(u) /\ lastRef = 0
  <2>0. PICK f \in FormInput, up \in UploadInput :
          \E files \in Stored({}, up) : sub = Edited(New(u), f, files)
    BY <1>1 DEF CreateDraft
  <2>1. PICK files \in Stored({}, up) : sub = Edited(New(u), f, files)
    BY <2>0
  <2>2. files \in SUBSET File
    BY StoredType
  <2> QED
    BY <1>1, <2>1, <2>2, NewType DEF TypeOK
<1>2. CASE CreateSubmitted(u) /\ lastRef = 1
  <2>1. PICK f \in FormInput, up \in UploadInput :
          sub = Submitted(Edited(New(u), f, up), 1)
    BY <1>2 DEF CreateSubmitted
  <2>2. Edited(New(u), f, up) \in Submission
    BY NewType
  <2> QED
    BY <1>2, <2>1, <2>2, TransitionTypes DEF TypeOK
<1> QED
  BY <1>1, <1>2

\* The record and the counter stay well typed in every behaviour.
THEOREM TypeCorrect == Spec => []TypeOK
  BY TypeInit, TypeStep, PTL DEF Spec

-----------------------------------------------------------------------------
(* The life cycle beneath the requests: every step from s to t is one of   *)
(* nine moves, whoever made it and whatever form or file it carried.       *)

SameBooks(s, t) == /\ t.creator = s.creator
                   /\ t.versions = s.versions
                   /\ t.approvedVersion = s.approvedVersion
                   /\ t.decisions = s.decisions

\* Nothing but content, comments or the archive mark.
Quiet(s, t) ==
    /\ SameBooks(s, t) /\ t.cycles = s.cycles
    /\ t.status = s.status /\ t.revision = s.revision

\* One stage onwards, or back to the owners, within a revision.
Advance(s, t) ==
    /\ SameBooks(s, t) /\ t.cycles = s.cycles /\ t.revision = s.revision
    /\ <<s.status, t.status>> \in
         {<<"draft", "submitted">>, <<"submitted", "under_review">>,
          <<"under_review", "updates_required">>,
          <<"awaiting_approval", "updates_required">>,
          <<"under_review", "awaiting_approval">>,
          <<"approved", "ready_to_publish">>}

\* Back to the reviewer with a new revision.
Revise(s, t) ==
    /\ SameBooks(s, t) /\ t.cycles = s.cycles
    /\ s.status = "updates_required" /\ t.status = "under_review"
    /\ t.revision = s.revision + 1

\* A decision by u, who is no contact of the record.
Decide(s, t, u, to) ==
    /\ s.status = "awaiting_approval" /\ t.status = to
    /\ t.cycles = s.cycles /\ t.revision = s.revision /\ t.creator = s.creator
    /\ t.decisions =
         Append(s.decisions, [revision |-> s.revision, to |-> to, actor |-> u])

Grant(s, t, u) ==
    /\ Decide(s, t, u, "approved")
    /\ ~IsContact(u, s)
    /\ t.versions = Append(s.versions, [revision |-> s.revision,
                                        content |-> s.content, approver |-> u])
    /\ t.approvedVersion = Len(s.versions) + 1

Refuse(s, t, u) ==
    /\ Decide(s, t, u, "rejected")
    /\ t.versions = s.versions /\ t.approvedVersion = s.approvedVersion

GoLive(s, t) ==
    /\ SameBooks(s, t) /\ t.revision = s.revision
    /\ s.status = "ready_to_publish" /\ t.status = "published"
    /\ t.cycles = Append(s.cycles, "open")

Renew(s, t) ==
    /\ SameBooks(s, t) /\ t.revision = s.revision
    /\ s.status = "published" /\ t.status = "published"
    /\ t.cycles = Append(Closed(s.cycles, "confirmed"), "open")

Restart(s, t) ==
    /\ SameBooks(s, t) /\ t.revision = s.revision + 1
    /\ \/ /\ s.status = "published"
          /\ t.status \in {"under_review", "submitted"}
          /\ t.cycles = Closed(s.cycles, "updated")
       \/ /\ s.status \in Terminal /\ t.status = "submitted"
          /\ t.cycles = s.cycles

Retire(s, t) ==
    /\ SameBooks(s, t) /\ t.revision = s.revision
    /\ s.status # "published" /\ t.status = "withdrawn"
    /\ t.cycles = Closed(s.cycles, "withdrawn")

Move(s, t) == \/ Quiet(s, t) \/ Advance(s, t) \/ Revise(s, t)
              \/ \E u \in User : Grant(s, t, u) \/ Refuse(s, t, u)
              \/ GoLive(s, t) \/ Renew(s, t) \/ Restart(s, t) \/ Retire(s, t)

\* Every step of the workflow is a move of the record.
LEMMA StepIsMove == TypeOK /\ [Next]_vars => Move(sub, sub')
<1> SUFFICES ASSUME TypeOK, [Next]_vars PROVE Move(sub, sub')
  OBVIOUS
<1> USE DEF Move
<1>0. sub \in Submission
  BY DEF TypeOK
<1>1. CASE UNCHANGED vars
  BY <1>1 DEF Quiet, SameBooks, vars
<1>2. CASE Next
  <2> PICK u \in User :
        \/ Edit(u) \/ Upload(u) \/ DeleteAttachment(u) \/ DeleteSubmission(u)
        \/ AddBlockingComment(u) \/ ResolveComment(u)
        \/ Claim(u) \/ RequestUpdates(u) \/ Resubmit(u) \/ CompleteReview(u)
        \/ Approve(u) \/ Reject(u) \/ ConfirmReady(u) \/ Publish(u)
        \/ Reopen(u) \/ Withdraw(u) \/ ConfirmReview(u)
    BY <1>2 DEF Next
  <2>1. CASE Edit(u)
    <3>1. PICK f \in FormInput, intent \in {"save", "submit", "resubmit"},
               up \in UploadInput : \E files \in Stored(sub.content.files, up) :
                 sub' = Saved(u, sub, f, up, files, intent, lastRef + 1)
      BY <2>1 DEF Edit
    <3>2. PICK files \in Stored(sub.content.files, up) :
                 sub' = Saved(u, sub, f, up, files, intent, lastRef + 1)
      BY <3>1
    <3> DEFINE e == Edited(sub, f, files)
               clean == f.clean /\ Fits(sub.content.files, up)
    <3>3. Quiet(sub, e)
      BY <1>0 DEF Edited, Quiet, SameBooks, Submission
    <3> HIDE DEF e
    <3>5. CASE SubmitsOnSave(e, intent, clean)
      <4>1. sub' = Submitted(e, lastRef + 1)
        BY <3>2, <3>5 DEF Saved, e
      <4>2. sub'.status = "submitted" /\ sub.status = "draft"
        BY <1>0, <3>3, <3>5, <4>1 DEF Submitted, SubmitsOnSave, Quiet, e, Edited, Submission
      <4>3. SameBooks(sub, sub') /\ sub'.cycles = sub.cycles
              /\ sub'.revision = sub.revision
        BY <3>3, <4>1 DEF Submitted, Quiet, SameBooks
      <4> QED
        BY <4>2, <4>3 DEF Advance
    <3>6. CASE /\ ~SubmitsOnSave(e, intent, clean)
               /\ ResubmitsOnSave(u, e, intent, clean)
      <4>1. sub' = Resubmitted(e)
        BY <3>2, <3>6 DEF Saved, e
      <4>2. /\ sub'.status = "under_review" /\ sub.status = "updates_required"
            /\ sub'.revision = sub.revision + 1
        BY <1>0, <3>3, <3>6, <4>1
           DEF Resubmitted, ResubmitsOnSave, Quiet, e, Edited, Submission
      <4>3. SameBooks(sub, sub') /\ sub'.cycles = sub.cycles
        BY <3>3, <4>1 DEF Resubmitted, Quiet, SameBooks
      <4> QED
        BY <4>2, <4>3 DEF Revise
    <3>7. CASE /\ ~SubmitsOnSave(e, intent, clean)
               /\ ~ResubmitsOnSave(u, e, intent, clean)
      <4>1. sub' = e
        BY <3>2, <3>7 DEF Saved, e
      <4> QED
        BY <3>3, <4>1
    <3> QED
      BY <3>5, <3>6, <3>7
  <2>2. CASE Upload(u)
    BY <1>0, <2>2 DEF Upload, Write, Quiet, SameBooks, Submission
  <2>3. CASE DeleteAttachment(u)
    BY <1>0, <2>3 DEF DeleteAttachment, Write, Quiet, SameBooks, Submission
  <2>4. CASE DeleteSubmission(u)
    BY <1>0, <2>4 DEF DeleteSubmission, Write, Deleted, Quiet, SameBooks, Submission
  <2>5. CASE AddBlockingComment(u)
    BY <1>0, <2>5 DEF AddBlockingComment, Write, Quiet, SameBooks, Submission
  <2>6. CASE ResolveComment(u)
    BY <1>0, <2>6 DEF ResolveComment, Write, Quiet, SameBooks, Submission
  <2>7. CASE Claim(u)
    BY <1>0, <2>7 DEF Claim, Write, CanClaim, Claimed, Advance, SameBooks, Submission
  <2>8. CASE RequestUpdates(u)
    BY <1>0, <2>8 DEF RequestUpdates, Write, CanRequestUpdates, UpdatesRequested, Advance, SameBooks, Submission
  <2>9. CASE Resubmit(u)
    BY <1>0, <2>9 DEF Resubmit, Write, MayResubmit, CanResubmit, Resubmitted, Revise, SameBooks, Submission
  <2>10. CASE CompleteReview(u)
    BY <1>0, <2>10 DEF CompleteReview, Write, MayCompleteReview, CanCompleteReview, ReviewCompleted, Advance, SameBooks, Submission
  <2>11. CASE Approve(u)
    BY <1>0, <2>11 DEF Approve, Write, CanDecideApproval, Approved, Grant, Decide, Submission
  <2>12. CASE Reject(u)
    BY <1>0, <2>12 DEF Reject, Write, CanDecideApproval, Rejected, Refuse, Decide, Submission
  <2>13. CASE ConfirmReady(u)
    BY <1>0, <2>13 DEF ConfirmReady, Write, CanConfirmReady, ReadyConfirmed, Advance, SameBooks, Submission
  <2>14. CASE Publish(u)
    BY <1>0, <2>14 DEF Publish, Write, CanPublish, Published, GoLive, SameBooks, Submission
  <2>15. CASE Reopen(u)
    BY <1>0, <2>15 DEF Reopen, Write, CanReopen, Reopened, Terminal, Restart, SameBooks, Submission
  <2>16. CASE Withdraw(u)
    BY <1>0, <2>16 DEF Withdraw, Write, CanWithdraw, Withdrawn, Retire, SameBooks, Submission
  <2>17. CASE ConfirmReview(u)
    BY <1>0, <2>17 DEF ConfirmReview, Write, CanConfirmReview, ReviewConfirmed, Renew, SameBooks, Submission
  <2> QED
    BY <2>1, <2>2, <2>3, <2>4, <2>5, <2>6, <2>7, <2>8, <2>9, <2>10, <2>11, <2>12, <2>13, <2>14, <2>15, <2>16, <2>17
<1> QED
  BY <1>1, <1>2

-----------------------------------------------------------------------------
(* Approvals and revisions.                                                *)

Books == BooksKept /\ CatalogueIsApproved /\ OneDecisionPerRevision

\* The decisions of a list carry revision numbers.
LEMMA DecisionRevisions ==
    ASSUME NEW ds \in Seq(Decision)
    PROVE  \A i \in DOMAIN ds : ds[i].revision \in Nat
<1>1. \A i \in DOMAIN ds : ds[i] \in Decision
  OBVIOUS
<1> QED
  BY <1>1 DEF Decision

\* Appending a decision of the current revision to decisions of earlier ones.
LEMMA DecisionAppended ==
    ASSUME NEW ds \in Seq(Decision), NEW d \in Decision, NEW r \in Nat,
           d.revision = r,
           \A i \in DOMAIN ds : ds[i].revision < r,
           \A i, j \in DOMAIN ds : i < j => ds[i].revision < ds[j].revision
    PROVE  /\ \A i \in DOMAIN Append(ds, d) : Append(ds, d)[i].revision <= r
           /\ \A i, j \in DOMAIN Append(ds, d) :
                i < j => Append(ds, d)[i].revision < Append(ds, d)[j].revision
<1>1. /\ DOMAIN Append(ds, d) = 1..(Len(ds) + 1)
      /\ DOMAIN ds = 1..Len(ds) /\ Len(ds) \in Nat
      /\ \A i \in 1..Len(ds) : Append(ds, d)[i] = ds[i]
      /\ Append(ds, d)[Len(ds) + 1] = d
  OBVIOUS
<1>2. \A i \in 1..Len(ds) : ds[i].revision \in Nat
  BY <1>1, DecisionRevisions
<1> QED
  BY <1>1, <1>2

\* The approval books stay in order over every move.
LEMMA BooksStep == TypeOK /\ TypeOK' /\ Books /\ Move(sub, sub') => Books'
<1> SUFFICES ASSUME TypeOK, TypeOK', Books, Move(sub, sub') PROVE Books'
  OBVIOUS
<1>a. /\ sub.revision \in Nat /\ sub.status \in Status
      /\ sub.decisions \in Seq(Decision) /\ sub.versions \in Seq(Version)
  BY DEF TypeOK, Submission
<1>0. /\ sub.revision \in Nat /\ sub.status \in Status
      /\ sub.decisions \in Seq(Decision) /\ sub.versions \in Seq(Version)
      /\ \A i \in DOMAIN sub.decisions : sub.decisions[i].revision \in Nat
  BY <1>a, DecisionRevisions
<1> USE <1>0 DEF Books, BooksKept, CatalogueIsApproved, OneDecisionPerRevision,
                 Undecided, CatalogueStatuses
<1>1. CASE Quiet(sub, sub')
  BY <1>1 DEF Quiet, SameBooks
<1>2. CASE Advance(sub, sub')
  BY <1>2 DEF Advance, SameBooks
<1>3. CASE Revise(sub, sub')
  BY <1>3 DEF Revise, SameBooks
<1>4. ASSUME NEW u \in User, Grant(sub, sub', u) PROVE Books'
  <2> DEFINE d == [revision |-> sub.revision, to |-> "approved", actor |-> u]
             v == [revision |-> sub.revision, content |-> sub.content,
                   approver |-> u]
  <2>1. /\ d \in Decision /\ d.revision = sub.revision
        /\ v \in Version /\ v.revision = sub.revision
    BY DEF TypeOK, Submission, Decision, Version
  <2>2. /\ sub'.decisions = Append(sub.decisions, d)
        /\ sub'.versions = Append(sub.versions, v)
        /\ sub'.approvedVersion = Len(sub.versions) + 1
        /\ sub'.revision = sub.revision /\ sub'.status = "approved"
        /\ sub.status = "awaiting_approval"
    BY <1>4 DEF Grant, Decide
  <2> HIDE DEF d, v
  <2>3. /\ \A i \in DOMAIN sub'.decisions : sub'.decisions[i].revision <= sub.revision
        /\ OneDecisionPerRevision'
    BY <2>1, <2>2, DecisionAppended
  <2>4. CatalogueIsApproved'
    BY <2>1, <2>2
  <2> QED
    BY <2>2, <2>3, <2>4
<1>5. ASSUME NEW u \in User, Refuse(sub, sub', u) PROVE Books'
  <2> DEFINE d == [revision |-> sub.revision, to |-> "rejected", actor |-> u]
  <2>1. d \in Decision /\ d.revision = sub.revision
    BY DEF TypeOK, Submission, Decision
  <2>2. /\ sub'.decisions = Append(sub.decisions, d)
        /\ sub'.versions = sub.versions
        /\ sub'.approvedVersion = sub.approvedVersion
        /\ sub'.revision = sub.revision /\ sub'.status = "rejected"
        /\ sub.status = "awaiting_approval"
    BY <1>5 DEF Refuse, Decide
  <2> HIDE DEF d
  <2>3. /\ \A i \in DOMAIN sub'.decisions : sub'.decisions[i].revision <= sub.revision
        /\ OneDecisionPerRevision'
    BY <2>1, <2>2, DecisionAppended
  <2> QED
    BY <2>2, <2>3
<1>6. CASE GoLive(sub, sub')
  BY <1>6 DEF GoLive, SameBooks
<1>7. CASE Renew(sub, sub')
  BY <1>7 DEF Renew, SameBooks
<1>8. CASE Restart(sub, sub')
  BY <1>8 DEF Restart, SameBooks
<1>9. CASE Retire(sub, sub')
  BY <1>9 DEF Retire, SameBooks
<1> QED
  BY <1>1, <1>2, <1>3, <1>4, <1>5, <1>6, <1>7, <1>8, <1>9 DEF Move

-----------------------------------------------------------------------------
(* Review cycles.                                                          *)

\* No cycle of a list is open after all its open ones are closed.
LEMMA NoneOpen ==
    ASSUME NEW c \in Seq(CycleState), NEW reason \in CycleState \ {"open"}
    PROVE  \A i \in DOMAIN Closed(c, reason) : Closed(c, reason)[i] # "open"
  BY ClosedType

\* A cycle opened on a list without open ones is the only open one.
LEMMA OpenedOnce ==
    ASSUME NEW c \in Seq(CycleState), \A i \in DOMAIN c : c[i] # "open"
    PROVE  \E k \in DOMAIN Append(c, "open") :
             {i \in DOMAIN Append(c, "open") : Append(c, "open")[i] = "open"} = {k}
<1>1. /\ DOMAIN Append(c, "open") = 1..(Len(c) + 1)
      /\ DOMAIN c = 1..Len(c) /\ Len(c) \in Nat
      /\ \A i \in 1..Len(c) : Append(c, "open")[i] = c[i]
      /\ Append(c, "open")[Len(c) + 1] = "open"
  OBVIOUS
<1>2. {i \in DOMAIN Append(c, "open") : Append(c, "open")[i] = "open"}
        = {Len(c) + 1}
  BY <1>1
<1>3. Len(c) + 1 \in DOMAIN Append(c, "open")
  BY <1>1
<1> QED
  BY <1>2, <1>3

\* Why publishing leaves one cycle open: until then there was none.
CyclesKept ==
    IF sub.status = "published"
    THEN \E i \in DOMAIN sub.cycles : OpenCycles(sub) = {i}
    ELSE OpenCycles(sub) = {}

\* The open cycles follow the status over every move.
LEMMA CycleStep == TypeOK /\ CyclesKept /\ Move(sub, sub') => CyclesKept'
<1> SUFFICES ASSUME TypeOK, CyclesKept, Move(sub, sub') PROVE CyclesKept'
  OBVIOUS
<1>0. sub.cycles \in Seq(CycleState) /\ {"updated", "withdrawn", "confirmed"}
        \subseteq CycleState \ {"open"}
  BY DEF TypeOK, Submission, CycleState
<1> USE DEF CyclesKept, OpenCycles
<1>1. CASE Quiet(sub, sub')
  BY <1>1 DEF Quiet
<1>2. CASE Advance(sub, sub')
  BY <1>2 DEF Advance
<1>3. CASE Revise(sub, sub')
  BY <1>3 DEF Revise
<1>4. ASSUME NEW u \in User, Grant(sub, sub', u) \/ Refuse(sub, sub', u)
      PROVE  CyclesKept'
  BY <1>4 DEF Grant, Refuse, Decide
<1>5. CASE GoLive(sub, sub')
  <2>1. \A i \in DOMAIN sub.cycles : sub.cycles[i] # "open"
    BY <1>5 DEF GoLive
  <2> QED
    BY <1>0, <1>5, <2>1, OpenedOnce DEF GoLive
<1>6. CASE Renew(sub, sub')
  <2>1. /\ Closed(sub.cycles, "confirmed") \in Seq(CycleState)
        /\ \A i \in DOMAIN Closed(sub.cycles, "confirmed") :
             Closed(sub.cycles, "confirmed")[i] # "open"
    BY <1>0, ClosedType, NoneOpen
  <2> QED
    BY <1>6, <2>1, OpenedOnce DEF Renew
<1>7. CASE Restart(sub, sub')
  <2>1. \A i \in DOMAIN Closed(sub.cycles, "updated") :
          Closed(sub.cycles, "updated")[i] # "open"
    BY <1>0, NoneOpen
  <2> QED
    BY <1>7, <2>1 DEF Restart, Terminal
<1>8. CASE Retire(sub, sub')
  <2>1. \A i \in DOMAIN Closed(sub.cycles, "withdrawn") :
          Closed(sub.cycles, "withdrawn")[i] # "open"
    BY <1>0, NoneOpen
  <2> QED
    BY <1>8, <2>1 DEF Retire
<1> QED
  BY <1>1, <1>2, <1>3, <1>4, <1>5, <1>6, <1>7, <1>8 DEF Move

-----------------------------------------------------------------------------
(* Separation of duties.                                                   *)

\* A version is only ever added by a decider who is no contact of the record
\* at that moment, with the contacts of that moment in it.
LEMMA DutiesStep == TypeOK /\ DutiesSeparated /\ Move(sub, sub') => DutiesSeparated'
<1> SUFFICES ASSUME TypeOK, DutiesSeparated, Move(sub, sub')
             PROVE  DutiesSeparated'
  OBVIOUS
<1>0. sub.versions \in Seq(Version)
  BY DEF TypeOK, Submission
<1>1. CASE SameBooks(sub, sub')
  BY <1>1 DEF SameBooks, DutiesSeparated
<1>2. ASSUME NEW u \in User, Grant(sub, sub', u) PROVE DutiesSeparated'
  <2> DEFINE v == [revision |-> sub.revision, content |-> sub.content,
                   approver |-> u]
  <2>1. /\ v.approver = u /\ v.content.owners = sub.content.owners
        /\ sub'.versions = Append(sub.versions, v)
        /\ sub'.creator = sub.creator
        /\ u \notin {sub.creator} \union sub.content.owners
    BY <1>2 DEF Grant, Decide, IsContact, Contacts
  <2> HIDE DEF v
  <2>2. \A i \in DOMAIN sub'.versions :
          \/ i \in DOMAIN sub.versions /\ sub'.versions[i] = sub.versions[i]
          \/ sub'.versions[i] = v
    BY <1>0, <2>1
  <2> QED
    BY <2>1, <2>2 DEF DutiesSeparated
<1>3. ASSUME NEW u \in User, Refuse(sub, sub', u) PROVE DutiesSeparated'
  BY <1>3 DEF Refuse, Decide, DutiesSeparated
<1> QED
  BY <1>1, <1>2, <1>3
     DEF Move, Quiet, Advance, Revise, GoLive, Renew, Restart, Retire

-----------------------------------------------------------------------------
(* The invariant and the theorems.                                         *)

IInv == /\ TypeOK
        /\ Books
        /\ CyclesKept
        /\ DutiesSeparated

\* A record is created without decisions, versions and cycles.
LEMMA InitShape ==
    Init => /\ sub.status \in {"draft", "submitted"}
            /\ sub.versions = <<>> /\ sub.decisions = <<>>
            /\ sub.cycles = <<>> /\ sub.approvedVersion = 0
<1>1. ASSUME NEW u \in User, NEW f \in Form, NEW files \in SUBSET File,
             NEW e, e = Edited(New(u), f, files), sub = e \/ sub = Submitted(e, 1)
      PROVE  /\ sub.status \in {"draft", "submitted"}
             /\ sub.versions = <<>> /\ sub.decisions = <<>>
             /\ sub.cycles = <<>> /\ sub.approvedVersion = 0
  <2>1. /\ e.status = "draft" /\ e.versions = <<>> /\ e.decisions = <<>>
        /\ e.cycles = <<>> /\ e.approvedVersion = 0
    BY <1>1 DEF Edited, New
  <2>2. e \in Submission
    BY <1>1, NewType
  <2> QED
    BY <1>1, <2>1, <2>2 DEF Submitted, Submission
<1>2. \A up \in UploadInput : \A files \in Stored({}, up) : files \in SUBSET File
  BY StoredType, WorkflowAssumption
<1> QED
  BY <1>1, <1>2, WorkflowAssumption DEF Init, CreateDraft, CreateSubmitted

\* So the invariant holds at first.
LEMMA InitIInv == Init => IInv
<1> SUFFICES ASSUME Init PROVE IInv
  OBVIOUS
<1>1. TypeOK
  BY TypeInit
<1>2. /\ sub.status \in {"draft", "submitted"}
      /\ sub.versions = <<>> /\ sub.decisions = <<>> /\ sub.cycles = <<>>
      /\ sub.approvedVersion = 0
  BY InitShape
<1>3. Books
  BY <1>2 DEF Books, BooksKept, CatalogueIsApproved, OneDecisionPerRevision,
              CatalogueStatuses
<1>4. CyclesKept /\ DutiesSeparated
  BY <1>2 DEF CyclesKept, OpenCycles, DutiesSeparated
<1> QED
  BY <1>1, <1>3, <1>4 DEF IInv

\* Every step keeps the invariant: each part follows from the move it makes.
LEMMA NextIInv == IInv /\ [Next]_vars => IInv'
<1> SUFFICES ASSUME IInv, [Next]_vars PROVE IInv'
  OBVIOUS
<1>1. TypeOK' /\ Move(sub, sub')
  BY TypeStep, StepIsMove DEF IInv
<1> QED
  BY <1>1, BooksStep, CycleStep, DutiesStep DEF IInv

\* The invariant holds in every behaviour.
LEMMA Invariance == Spec => []IInv
  BY InitIInv, NextIInv, PTL DEF Spec

\* Whatever is in the catalogue was approved in its current revision.
THEOREM CatalogueApproved == Spec => []CatalogueIsApproved
<1>1. IInv => CatalogueIsApproved
  BY DEF IInv, Books
<1> QED
  BY <1>1, Invariance, PTL

\* No revision is decided twice.
THEOREM DecidedOnce == Spec => []OneDecisionPerRevision
<1>1. IInv => OneDecisionPerRevision
  BY DEF IInv, Books
<1> QED
  BY <1>1, Invariance, PTL

\* The approval books stay in order: approved_version_id names the newest version
\* and no decision runs ahead of the record.
THEOREM BooksStayKept == Spec => []BooksKept
<1>1. IInv => BooksKept
  BY DEF IInv, Books
<1> QED
  BY <1>1, Invariance, PTL

\* A published record has exactly one open review cycle, in every revision.
THEOREM CyclesFollowStatus == Spec => []OneOpenCycle
<1>1. IInv => OneOpenCycle
  BY DEF IInv, CyclesKept, OneOpenCycle
<1> QED
  BY <1>1, Invariance, PTL

\* No stored version was approved by one of its contacts.
THEOREM DutiesAlwaysSeparated == Spec => []DutiesSeparated
<1>1. IInv => DutiesSeparated
  BY DEF IInv
<1> QED
  BY <1>1, Invariance, PTL

-----------------------------------------------------------------------------
(* The reference number.                                                   *)

\* A step that does not number the record, and one that does.
SameNumber == sub'.ref = sub.ref /\ lastRef' = lastRef
Numbering  == /\ sub.ref = 0
              /\ sub'.ref = lastRef + 1 /\ lastRef' = lastRef + 1

\* Only an edit that submits a draft gives out a number.
LEMMA NumberStep == TypeOK /\ [Next]_vars => SameNumber \/ Numbering
<1> SUFFICES ASSUME TypeOK, [Next]_vars PROVE SameNumber \/ Numbering
  OBVIOUS
<1>0. sub \in Submission /\ lastRef \in Nat
  BY DEF TypeOK
<1>1. CASE UNCHANGED vars
  BY <1>1 DEF SameNumber, vars
<1>2. ASSUME NEW u \in User, Edit(u) PROVE SameNumber \/ Numbering
  <2>1. PICK f \in FormInput, intent \in {"save", "submit", "resubmit"},
             up \in UploadInput : \E files \in Stored(sub.content.files, up) :
               sub' = Saved(u, sub, f, up, files, intent, lastRef + 1)
    BY <1>2 DEF Edit
  <2>2. PICK files \in Stored(sub.content.files, up) :
               sub' = Saved(u, sub, f, up, files, intent, lastRef + 1)
    BY <2>1
  <2> DEFINE e == Edited(sub, f, files)
  <2>3. e \in Submission /\ e.ref = sub.ref
    <3>1. files \in SUBSET File
      BY <1>0, StoredType, WorkflowAssumption DEF Submission, Content
    <3> QED
      BY <1>0, <3>1, SavedType, WorkflowAssumption DEF Edited, Submission
  <2>4. \/ sub' = Submitted(e, lastRef + 1)
        \/ sub' = Resubmitted(e)
        \/ sub' = e
    BY <2>2 DEF Saved
  <2> HIDE DEF e
  <2>5. \/ sub'.ref = sub.ref
        \/ sub.ref = 0 /\ sub'.ref = lastRef + 1
    BY <2>3, <2>4 DEF Submitted, Resubmitted, Submission
  <2>6. lastRef' = IF sub'.ref = sub.ref THEN lastRef ELSE lastRef + 1
    BY <1>2 DEF Edit, Minted
  <2> QED
    BY <1>0, <2>5, <2>6 DEF SameNumber, Numbering
<1>3. ASSUME NEW u \in User,
             \/ Upload(u) \/ DeleteAttachment(u) \/ DeleteSubmission(u)
             \/ AddBlockingComment(u) \/ ResolveComment(u)
      PROVE  SameNumber
  BY <1>0, <1>3 DEF Upload, DeleteAttachment, DeleteSubmission, Deleted,
       AddBlockingComment, ResolveComment, Write, SameNumber, Submission
<1>4. ASSUME NEW u \in User,
             \/ Claim(u) \/ RequestUpdates(u) \/ Resubmit(u)
             \/ CompleteReview(u) \/ ConfirmReady(u)
      PROVE  SameNumber
  BY <1>0, <1>4 DEF Claim, Claimed, RequestUpdates, UpdatesRequested, Resubmit,
       Resubmitted, CompleteReview, ReviewCompleted, ConfirmReady,
       ReadyConfirmed, Write, SameNumber, Submission
<1>5. ASSUME NEW u \in User, Approve(u) \/ Reject(u)
      PROVE  SameNumber
  BY <1>0, <1>5 DEF Approve, Approved, Reject, Rejected, Write, SameNumber,
       Submission
<1>6. ASSUME NEW u \in User,
             Publish(u) \/ Reopen(u) \/ Withdraw(u) \/ ConfirmReview(u)
      PROVE  SameNumber
  BY <1>0, <1>6 DEF Publish, Published, Reopen, Reopened, Withdraw, Withdrawn,
       ConfirmReview, ReviewConfirmed, Write, SameNumber, Submission
<1> QED
  BY <1>1, <1>2, <1>3, <1>4, <1>5, <1>6 DEF Next

\* The counter is at most 1, and then its number is the record's.
Numbered == sub.ref = lastRef /\ lastRef \in {0, 1}

\* A record starts unnumbered, or with the first number.
LEMMA NumberInit == Init => Numbered
<1> SUFFICES ASSUME NEW u \in User, NEW f \in Form, NEW files \in SUBSET File,
                    NEW e, e = Edited(New(u), f, files),
                    \/ sub = e /\ lastRef = 0
                    \/ sub = Submitted(e, 1) /\ lastRef = 1
             PROVE  Numbered
  <2>1. \A up \in UploadInput : \A files \in Stored({}, up) : files \in SUBSET File
    BY StoredType, WorkflowAssumption
  <2> QED
    BY <2>1, WorkflowAssumption DEF Init, CreateDraft, CreateSubmitted
<1>1. e.ref = 0
  BY DEF Edited, New
<1>2. e \in Submission
  BY NewType
<1>3. CASE sub = e /\ lastRef = 0
  BY <1>1, <1>3 DEF Numbered
<1>4. CASE sub = Submitted(e, 1) /\ lastRef = 1
  <2>1. sub.ref = 1
    BY <1>1, <1>2, <1>4 DEF Submitted, Submission
  <2> QED
    BY <1>4, <2>1 DEF Numbered
<1> QED
  BY <1>3, <1>4

\* However a record is edited, withdrawn and reopened, every number the counter
\* gave out is the record's.
THEOREM NumberedOnce == Spec => []NoNumberLost
<1>1. TypeOK /\ Numbered /\ [Next]_vars => Numbered'
  BY NumberStep DEF Numbered, SameNumber, Numbering
<1>2. Numbered => NoNumberLost
  BY DEF Numbered, NoNumberLost
<1> QED
  BY <1>1, <1>2, NumberInit, TypeCorrect, PTL DEF Spec

-----------------------------------------------------------------------------
(* What was reviewed and approved stays so, unless an admin steps in.      *)

NoAdmin == \A u \in User : ~IsAdmin(u)

\* An edit changes content only in an editable status.
EditsInTime == sub'.content = sub.content \/ sub.status \in Editable

\* A record enters Awaiting Approval with complete content.
EntersComplete == sub'.status = "awaiting_approval" =>
                    sub.status = "awaiting_approval" \/ Complete(sub.content)

\* Without admins, a step that leaves the record undeleted edits it in time and
\* completes a review only of complete content; only deleting touches the rest.
LEMMA ContentStep ==
    ASSUME NoAdmin, TypeOK, [Next]_vars, ~sub'.archived
    PROVE  ~sub.archived /\ EditsInTime /\ EntersComplete
<1>0. sub \in Submission
  BY DEF TypeOK
<1>1. CASE UNCHANGED vars
  BY <1>1 DEF EditsInTime, EntersComplete, vars
<1>2. ASSUME NEW u \in User, Edit(u)
      PROVE  ~sub.archived /\ EditsInTime /\ EntersComplete
  <2>1. ~sub.archived /\ sub.status \in Editable
    BY <1>2 DEF Edit, Loaded, CanEdit, NoAdmin
  <2>2. sub'.status # "awaiting_approval"
    <3>1. Move(sub, sub')
      BY <1>2, StepIsMove DEF Next
    <3> QED
      BY <2>1, <3>1 DEF Move, Quiet, Advance, Revise, Grant, Refuse, Decide,
           GoLive, Renew, Restart, Retire, Editable, Terminal
  <2> QED
    BY <2>1, <2>2 DEF EditsInTime, EntersComplete
<1>3. ASSUME NEW u \in User, Upload(u) \/ DeleteAttachment(u)
      PROVE  ~sub.archived /\ EditsInTime /\ EntersComplete
  BY <1>0, <1>3 DEF Upload, DeleteAttachment, Loaded, CanEdit, NoAdmin, Write,
       EditsInTime, EntersComplete, Submission
<1>4. ASSUME NEW u \in User,
             AddBlockingComment(u) \/ ResolveComment(u) \/ DeleteSubmission(u)
      PROVE  ~sub.archived /\ EditsInTime /\ EntersComplete
  BY <1>0, <1>4 DEF AddBlockingComment, ResolveComment, DeleteSubmission,
       Deleted, Loaded, Write, EditsInTime, EntersComplete, Submission
<1>5. ASSUME NEW u \in User,
             \/ Claim(u) \/ RequestUpdates(u) \/ Resubmit(u)
             \/ CompleteReview(u) \/ ConfirmReady(u)
      PROVE  ~sub.archived /\ EditsInTime /\ EntersComplete
  BY <1>0, <1>5 DEF Claim, Claimed, RequestUpdates, UpdatesRequested, Resubmit,
       Resubmitted, CompleteReview, MayCompleteReview, ReviewCompleted,
       ConfirmReady, ReadyConfirmed, Acting, Loaded, Write, EditsInTime,
       EntersComplete, Submission
<1>6. ASSUME NEW u \in User, Approve(u) \/ Reject(u)
      PROVE  ~sub.archived /\ EditsInTime /\ EntersComplete
  BY <1>0, <1>6 DEF Approve, Approved, Reject, Rejected, Acting, Loaded, Write,
       EditsInTime, EntersComplete, Submission
<1>7. ASSUME NEW u \in User,
             Publish(u) \/ Reopen(u) \/ Withdraw(u) \/ ConfirmReview(u)
      PROVE  ~sub.archived /\ EditsInTime /\ EntersComplete
  BY <1>0, <1>7 DEF Publish, Published, Reopen, Reopened, Withdraw, Withdrawn,
       ConfirmReview, ReviewConfirmed, Acting, Loaded, Write, EditsInTime,
       EntersComplete, Submission
<1> QED
  BY <1>1, <1>2, <1>3, <1>4, <1>5, <1>6, <1>7 DEF Next

\* What was approved stays as its approver saw it over every step.
LEMMA FrozenStep ==
    ASSUME NoAdmin, IInv, IInv', [Next]_vars, ApprovedContentFrozen
    PROVE  ApprovedContentFrozen'
<1> SUFFICES ASSUME CatalogueVisible(sub)'
             PROVE  sub'.content = sub'.versions[sub'.approvedVersion].content
  BY DEF ApprovedContentFrozen
<1>1. sub'.status \in CatalogueStatuses /\ ~sub'.archived
  BY DEF CatalogueVisible
<1>2. Move(sub, sub') /\ ~sub.archived /\ EditsInTime
  BY <1>1, StepIsMove, ContentStep DEF IInv
<1>3. CASE sub.status \in CatalogueStatuses /\ SameBooks(sub, sub')
  <2>1. sub.status \notin Editable
    BY <1>3 DEF CatalogueStatuses, Editable
  <2> QED
    BY <1>2, <1>3, <2>1
       DEF EditsInTime, ApprovedContentFrozen, CatalogueVisible, SameBooks
<1>4. ASSUME NEW u \in User, Grant(sub, sub', u)
      PROVE  sub'.content = sub'.versions[sub'.approvedVersion].content
  <2>1. sub.versions \in Seq(Version)
    BY DEF IInv, TypeOK, Submission
  <2>2. sub'.content = sub.content
    BY <1>2, <1>4 DEF EditsInTime, Editable, Grant, Decide
  <2>3. sub'.versions[Len(sub.versions) + 1].content = sub.content
    BY <1>4, <2>1 DEF Grant
  <2> QED
    BY <1>4, <2>2, <2>3 DEF Grant
<1> QED
  BY <1>1, <1>2, <1>3, <1>4 DEF Move, Quiet, Advance, Revise, Refuse, Decide,
       GoLive, Renew, Restart, Retire, CatalogueStatuses, Terminal

\* A record whose review was completed stays complete over every step.
LEMMA CompleteStep ==
    ASSUME NoAdmin, IInv, [Next]_vars, ReviewedIsComplete
    PROVE  ReviewedIsComplete'
<1> DEFINE Reviewed == {"awaiting_approval"} \union CatalogueStatuses
<1> SUFFICES ASSUME sub'.status \in Reviewed, ~sub'.archived
             PROVE  Complete(sub'.content)
  BY DEF ReviewedIsComplete
<1>1. Move(sub, sub') /\ ~sub.archived /\ EditsInTime /\ EntersComplete
  BY StepIsMove, ContentStep DEF IInv
<1>2. sub.status \in Reviewed \union {"under_review"}
  BY <1>1 DEF Move, Quiet, Advance, Revise, Grant, Refuse, Decide, GoLive,
       Renew, Restart, Retire, CatalogueStatuses
<1>3. sub'.content = sub.content
  BY <1>1, <1>2 DEF EditsInTime, Editable, CatalogueStatuses
<1>4. CASE sub.status \in Reviewed
  BY <1>1, <1>3, <1>4 DEF ReviewedIsComplete
<1>5. CASE sub.status = "under_review"
  <2>1. sub'.status = "awaiting_approval"
    BY <1>1, <1>5 DEF Move, Quiet, Advance, Revise, Grant, Refuse, Decide,
         GoLive, Renew, Restart, Retire, CatalogueStatuses, Terminal
  <2> QED
    BY <1>1, <1>3, <1>5, <2>1 DEF EntersComplete
<1> QED
  BY <1>2, <1>4, <1>5

\* Without admins, what the catalogue and the export package hold of a record is
\* what its approver approved, and nothing incomplete gets past its review.
THEOREM ApprovalBinds ==
    NoAdmin => (Spec => [](ApprovedContentFrozen /\ ReviewedIsComplete))
<1> SUFFICES ASSUME NoAdmin
             PROVE  Spec => [](ApprovedContentFrozen /\ ReviewedIsComplete)
  OBVIOUS
<1>1. Init => ApprovedContentFrozen /\ ReviewedIsComplete
  <2> SUFFICES ASSUME Init PROVE ApprovedContentFrozen /\ ReviewedIsComplete
    OBVIOUS
  <2>1. sub.status \in {"draft", "submitted"}
    BY InitShape
  <2> QED
    BY <2>1 DEF ApprovedContentFrozen, ReviewedIsComplete, CatalogueVisible,
         CatalogueStatuses
<1>2. IInv /\ IInv' /\ [Next]_vars /\ ApprovedContentFrozen /\ ReviewedIsComplete
        => (ApprovedContentFrozen /\ ReviewedIsComplete)'
  <2> SUFFICES ASSUME IInv, IInv', [Next]_vars,
                      ApprovedContentFrozen, ReviewedIsComplete
               PROVE  ApprovedContentFrozen' /\ ReviewedIsComplete'
    OBVIOUS
  <2>1. ApprovedContentFrozen'
    BY FrozenStep
  <2>2. ReviewedIsComplete'
    BY CompleteStep
  <2> QED
    BY <2>1, <2>2
<1> QED
  BY <1>1, <1>2, Invariance, PTL DEF Spec

\* Of staff without admins: what the catalogue holds is what was approved.
THEOREM ApprovedStays == NoAdmin => (Spec => []ApprovedContentFrozen)
<1>1. ApprovedContentFrozen /\ ReviewedIsComplete => ApprovedContentFrozen
  OBVIOUS
<1> QED
  BY <1>1, ApprovalBinds, PTL

\* Of staff without admins: nothing incomplete gets past review.
THEOREM CompleteStays == NoAdmin => (Spec => []ReviewedIsComplete)
<1>1. ApprovedContentFrozen /\ ReviewedIsComplete => ReviewedIsComplete
  OBVIOUS
<1> QED
  BY <1>1, ApprovalBinds, PTL
=============================================================================
