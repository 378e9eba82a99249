-------------------------- MODULE WorkflowTxProofs --------------------------
(***************************************************************************)
(* Proofs about WorkflowTx, for any number of overlapping requests and any *)
(* users, roles, forms and files.                                          *)
(***************************************************************************)
EXTENDS WorkflowTx, SequenceTheorems, FiniteSetTheorems, TLAPS

-----------------------------------------------------------------------------
(* Types of what the handlers write, as in WorkflowProofs.                 *)

\* Each transition handler turns a well-typed record into a well-typed one.
LEMMA TransitionTypes ==
    ASSUME NEW s \in Submission, NEW u \in User, NEW n \in Nat
    PROVE  /\ Submitted(s, n) \in Submission
           /\ Claimed(s, u) \in Submission
           /\ UpdatesRequested(s) \in Submission
           /\ Resubmitted(s) \in Submission
           /\ ReviewCompleted(s) \in Submission
           /\ ReadyConfirmed(s) \in Submission
           /\ Deleted(s) \in Submission
<1>1. Submitted(s, n) \in Submission
  BY DEF Submission, Status, Submitted
<1>2. Claimed(s, u) \in Submission
  BY DEF Submission, Status, Claimed
<1>3. UpdatesRequested(s) \in Submission
  BY DEF Submission, Status, UpdatesRequested
<1>5. Resubmitted(s) \in Submission
  <2>1. s.revision + 1 \in Nat /\ "under_review" \in Status
    BY DEF Submission, Status
  <2> QED
    BY <2>1 DEF Submission, Resubmitted
<1>6. ReviewCompleted(s) \in Submission
  BY DEF Submission, Status, ReviewCompleted
<1>7. ReadyConfirmed(s) \in Submission
  BY DEF Submission, Status, ReadyConfirmed
<1>4. Deleted(s) \in Submission
  <2>1. [s.content EXCEPT !.files = {}] \in Content
    BY DEF Submission, Content
  <2> QED
    BY <2>1 DEF Submission, Deleted
<1> QED
  BY <1>1, <1>2, <1>3, <1>4, <1>5, <1>6, <1>7

\* The handlers that append a decision or a version.
LEMMA DecisionTypes ==
    ASSUME NEW s \in Submission, NEW u \in User
    PROVE  /\ Approved(s, u) \in Submission
           /\ Rejected(s, u) \in Submission
<1> DEFINE a == [revision |-> s.revision, to |-> "approved", actor |-> u]
           r == [revision |-> s.revision, to |-> "rejected", actor |-> u]
           v == [revision |-> s.revision, content |-> s.content, approver |-> u]
<1>1. /\ a \in Decision /\ r \in Decision /\ v \in Version
  BY DEF Submission, Decision, Version
<1>2. /\ Append(s.decisions, a) \in Seq(Decision)
      /\ Append(s.decisions, r) \in Seq(Decision)
      /\ Append(s.versions, v) \in Seq(Version)
      /\ Len(s.versions) + 1 \in Nat
  BY <1>1 DEF Submission
<1> QED
  BY <1>2 DEF Submission, Status, Approved, Rejected

\* Closing the open cycles of a record keeps the number of cycles.
LEMMA ClosedType ==
    ASSUME NEW c \in Seq(CycleState), NEW reason \in CycleState
    PROVE  /\ Closed(c, reason) \in Seq(CycleState)
           /\ Len(Closed(c, reason)) = Len(c)
           /\ DOMAIN Closed(c, reason) = DOMAIN c
           /\ \A i \in DOMAIN c : Closed(c, reason)[i] =
                                    IF c[i] = "open" THEN reason ELSE c[i]
  BY DEF Closed

\* The handlers that open and close review cycles.
LEMMA CycleTypes ==
    ASSUME NEW s \in Submission
    PROVE  /\ Published(s) \in Submission
           /\ Reopened(s) \in Submission
           /\ Withdrawn(s) \in Submission
           /\ ReviewConfirmed(s) \in Submission
<1>1. s.cycles \in Seq(CycleState)
  BY DEF Submission
<1>2. \A reason \in CycleState : Closed(s.cycles, reason) \in Seq(CycleState)
  BY <1>1, ClosedType
<1>3. /\ Append(s.cycles, "open") \in Seq(CycleState)
      /\ Append(Closed(s.cycles, "confirmed"), "open") \in Seq(CycleState)
      /\ Closed(s.cycles, "updated") \in Seq(CycleState)
      /\ Closed(s.cycles, "withdrawn") \in Seq(CycleState)
  BY <1>1, <1>2 DEF CycleState
<1>4. Published(s) \in Submission
  BY <1>3 DEF Submission, Status, Published
<1>5. Reopened(s) \in Submission
  <2> DEFINE st == IF s.status = "published" /\ s.assigned # NoUser
                   THEN "under_review" ELSE "submitted"
             cs == IF s.status = "published" THEN Closed(s.cycles, "updated")
                                             ELSE s.cycles
  <2>1. s.revision + 1 \in Nat /\ st \in Status /\ cs \in Seq(CycleState)
    BY <1>3 DEF Submission, Status
  <2>2. Reopened(s) = [s EXCEPT !.revision = s.revision + 1, !.status = st,
                                !.cycles = cs]
    BY DEF Reopened
  <2> HIDE DEF st, cs
  <2> QED
    BY <2>1, <2>2 DEF Submission
<1>6. Withdrawn(s) \in Submission
  BY <1>3 DEF Submission, Status, Withdrawn
<1>7. ReviewConfirmed(s) \in Submission
  BY <1>3 DEF Submission, Status, ReviewConfirmed
<1> QED
  BY <1>4, <1>5, <1>6, <1>7

-----------------------------------------------------------------------------
(* The form and its attachments.                                           *)

\* Whatever a request stores are files.
LEMMA StoredType ==
    ASSUME NEW files \in SUBSET File, NEW up \in SUBSET File,
           NEW g \in Stored(files, up)
    PROVE  g \in SUBSET File
  BY DEF Stored

\* Saving the form keeps a record well typed, and so does submitting or
\* resubmitting it on the way.
LEMMA SavedType ==
    ASSUME NEW s \in Submission, NEW u \in User, NEW f \in Form,
           NEW up, NEW files \in SUBSET File, NEW intent, NEW n \in Nat
    PROVE  /\ Edited(s, f, files) \in Submission
           /\ Saved(u, s, f, up, files, intent, n) \in Submission
<1>1. [Filled(s.content, f) EXCEPT !.files = files] \in Content
  BY DEF Filled, Form, Content
<1>2. Edited(s, f, files) \in Submission
  BY <1>1 DEF Edited, Submission
<1>3. /\ Submitted(Edited(s, f, files), n) \in Submission
      /\ Resubmitted(Edited(s, f, files)) \in Submission
  BY <1>2, TransitionTypes
<1> QED
  BY <1>2, <1>3 DEF Saved

\* A new record, once its form is filled in, is well typed.
LEMMA NewType ==
    ASSUME NEW u \in User, NEW f \in Form, NEW files \in SUBSET File
    PROVE  Edited(New(u), f, files) \in Submission
<1>1. [Filled(New(u).content, f) EXCEPT !.files = files] \in Content
  BY DEF Filled, Form, Content
<1>2. /\ <<>> \in Seq(Version) /\ <<>> \in Seq(Decision)
      /\ <<>> \in Seq(CycleState)
      /\ [c \in CommentId |-> "absent"] \in [CommentId -> CommentState]
  BY DEF CommentState
<1> QED
  BY <1>1, <1>2 DEF Edited, New, Submission, Status

-----------------------------------------------------------------------------
(* A request in flight was allowed on the record it loaded, and that       *)
(* record is an earlier state of the row.                                  *)

Ops == Actions \union {"edit", "upload", "detach", "comment", "resolve", "delete"}

Fine(q) ==
    /\ q.op \in Ops
    /\ q.user \in User
    /\ q.snap \in Submission
    /\ Allowed(q, q.snap)
    /\ q.op = "edit" => q.form \in Form
    /\ q.op \in {"upload", "detach"} => q.files \in SUBSET File
    /\ q.op \in {"comment", "resolve"} => q.comment \in CommentId

\* Who is shown in the catalogue has been approved.
Shown(s) == s.status \in CatalogueStatuses => Len(s.versions) > 0

\* Who is past the review's start has a reviewer, and a number unless it was
\* reopened: ReviewerNamed and UnnumberedWasReopened of any record.
Named(s) == s.status \in Status \ {"draft", "submitted", "withdrawn"} =>
                s.assigned # NoUser
Numbered(s) == s.ref = 0 /\ s.status \notin {"draft", "withdrawn"} => s.revision > 1

Sound(s) == Shown(s) /\ Named(s) /\ Numbered(s) /\ s.revision > 0

\* Reviewers, numbers and revisions are only ever added.
Grown(s, t) == /\ s.assigned # NoUser => t.assigned # NoUser
               /\ s.ref # 0 => t.ref # 0
               /\ s.revision > 1 => t.revision > 1

\* What a request loaded, s, and the row t it will be merged into.
Before(s, t) == /\ s.creator = t.creator
                /\ Len(s.versions) <= Len(t.versions)
                /\ Sound(s)
                /\ Grown(s, t)

Loads ==
    /\ inflight = [r \in Request |-> inflight[r]]
    /\ \A r \in Request : \/ inflight[r] = Idle
                          \/ /\ Fine(inflight[r])
                             /\ Before(inflight[r].snap, row)

-----------------------------------------------------------------------------
(* What a request makes of the record it loaded.                           *)

\* No request acts on an archived record.
LEMMA NotArchived ==
    ASSUME NEW q, Fine(q) PROVE ~q.snap.archived
  BY DEF Fine, Allowed, Acts, Ops, Actions

\* It makes a well-typed record of it.
LEMMA ResultType ==
    ASSUME NEW q, Fine(q), NEW n \in Nat
    PROVE  Result(q, q.snap, n) \in Submission
<1> DEFINE s == q.snap
<1>0. s \in Submission /\ q.user \in User /\ q.op \in Ops
  BY DEF Fine
<1>1. CASE q.op \in {"claim", "request_updates", "resubmit", "complete_review",
                     "confirm_ready", "delete"}
  BY <1>0, <1>1, TransitionTypes DEF Result
<1>2. CASE q.op \in {"approve", "reject"}
  BY <1>0, <1>2, DecisionTypes DEF Result
<1>3. CASE q.op \in {"publish", "reopen", "withdraw", "confirm_review"}
  BY <1>0, <1>3, CycleTypes DEF Result
<1>4. CASE q.op = "edit"
  <2>1. q.form \in Form /\ s.content.files \in SUBSET File
    BY <1>0, <1>4 DEF Fine, Submission, Content
  <2>2. Saved(q.user, s, q.form, {}, s.content.files, q.intent, n) \in Submission
    BY <1>0, <2>1, SavedType
  <2> QED
    BY <1>4, <2>2 DEF Result
<1>5. CASE q.op \in {"upload", "detach"}
  <2>1. q.files \in SUBSET File
    BY <1>5 DEF Fine
  <2>2. \A files \in SUBSET File : [s EXCEPT !.content.files = files] \in Submission
    <3> SUFFICES ASSUME NEW files \in SUBSET File
                 PROVE  [s EXCEPT !.content.files = files] \in Submission
      OBVIOUS
    <3>1. [s.content EXCEPT !.files = files] \in Content
      BY <1>0 DEF Submission, Content
    <3> QED
      BY <1>0, <3>1 DEF Submission
  <2>3. s.content.files \ q.files \in SUBSET File
    BY <1>0 DEF Submission, Content
  <2> QED
    BY <1>5, <2>1, <2>2, <2>3 DEF Result
<1>6. CASE q.op \in {"comment", "resolve"}
  <2>1. q.comment \in CommentId /\ s.comments \in [CommentId -> CommentState]
    BY <1>0, <1>6 DEF Fine, Submission
  <2>2. /\ [s.comments EXCEPT ![q.comment] = "open"] \in [CommentId -> CommentState]
        /\ [s.comments EXCEPT ![q.comment] =
              IF @ = "resolved" THEN "open" ELSE "resolved"]
             \in [CommentId -> CommentState]
    BY <2>1 DEF CommentState
  <2> QED
    BY <1>0, <1>6, <2>2 DEF Result, Submission
<1> QED
  BY <1>0, <1>1, <1>2, <1>3, <1>4, <1>5, <1>6 DEF Ops, Actions

-----------------------------------------------------------------------------
\* What a request may make of s: t adds rows only, a version only of an
\* approver who is no contact, and a number n only to a record without.
Adds(q, s, t, n) ==
    /\ t.creator = s.creator
    /\ t.ref = s.ref \/ (s.ref = 0 /\ t.ref = n)
    /\ Len(s.decisions) <= Len(t.decisions)
    /\ Len(s.cycles) <= Len(t.cycles)
    /\ \/ t.versions = s.versions
       \/ /\ ~IsContact(q.user, s)
          /\ t.versions = Append(s.versions, [revision |-> s.revision,
                                content |-> s.content, approver |-> q.user])
    /\ \/ t.status = s.status
       \/ t.status \notin CatalogueStatuses
       \/ s.status \in CatalogueStatuses
       \/ t.versions # s.versions

\* That is all the handlers do.
LEMMA ResultAdds ==
    ASSUME NEW q, Fine(q), NEW n \in Nat
    PROVE  Adds(q, q.snap, Result(q, q.snap, n), n)
<1> DEFINE s == q.snap
           t == Result(q, s, n)
<1>0. s \in Submission /\ q.user \in User /\ q.op \in Ops
  BY DEF Fine
<1>a. Len(s.decisions) \in Nat /\ Len(s.cycles) \in Nat /\ Len(s.versions) \in Nat
  BY <1>0 DEF Submission
<1> USE <1>a
<1>1. CASE q.op \in {"claim", "request_updates", "resubmit", "complete_review"}
  <2>1. t \in {Claimed(s, q.user), UpdatesRequested(s), Resubmitted(s),
               ReviewCompleted(s)}
    BY <1>1 DEF Result
  <2>2. /\ t.creator = s.creator /\ t.ref = s.ref /\ t.decisions = s.decisions
        /\ t.versions = s.versions /\ t.cycles = s.cycles
        /\ t.status \in {"under_review", "updates_required", "awaiting_approval"}
    BY <1>0, <2>1 DEF Submission, Claimed, UpdatesRequested, Resubmitted,
                     ReviewCompleted
  <2> QED
    BY <2>2 DEF Adds, CatalogueStatuses
<1>2. CASE q.op = "approve"
  <2> DEFINE d == [revision |-> s.revision, to |-> "approved", actor |-> q.user]
             v == [revision |-> s.revision, content |-> s.content, approver |-> q.user]
  <2>1. ~IsContact(q.user, s)
    BY <1>2 DEF Fine, Allowed, CanDecideApproval
  <2>2. /\ t.creator = s.creator /\ t.ref = s.ref /\ t.cycles = s.cycles
        /\ t.decisions = Append(s.decisions, d)
        /\ t.versions = Append(s.versions, v)
    BY <1>0, <1>2 DEF Result, Approved, Submission
  <2>3. Len(t.decisions) = Len(s.decisions) + 1 /\ t.versions # s.versions
    BY <1>0, <2>2 DEF Submission
  <2> QED
    BY <2>1, <2>2, <2>3 DEF Adds
<1>3. CASE q.op = "reject"
  <2>1. /\ t.creator = s.creator /\ t.ref = s.ref /\ t.cycles = s.cycles
        /\ t.decisions = Append(s.decisions, [revision |-> s.revision,
                                    to |-> "rejected", actor |-> q.user])
        /\ t.versions = s.versions /\ t.status = "rejected"
    BY <1>0, <1>3 DEF Result, Rejected, Submission
  <2>2. Len(t.decisions) = Len(s.decisions) + 1
    BY <1>0, <2>1 DEF Submission
  <2> QED
    BY <2>1, <2>2 DEF Adds, CatalogueStatuses
<1>4. CASE q.op = "confirm_ready"
  <2>1. s.status \in CatalogueStatuses
    BY <1>4 DEF Fine, Allowed, CanConfirmReady, CatalogueStatuses
  <2> QED
    BY <1>0, <1>4, <2>1 DEF Result, ReadyConfirmed, Adds, Submission
<1>5. CASE q.op = "publish"
  <2>1. s.status \in CatalogueStatuses
    BY <1>5 DEF Fine, Allowed, CanPublish, CatalogueStatuses
  <2>2. /\ t.creator = s.creator /\ t.ref = s.ref /\ t.decisions = s.decisions
        /\ t.versions = s.versions /\ t.cycles = Append(s.cycles, "open")
    BY <1>0, <1>5 DEF Result, Published, Submission
  <2>3. Len(t.cycles) = Len(s.cycles) + 1
    BY <1>0, <2>2 DEF Submission
  <2> QED
    BY <2>1, <2>2, <2>3 DEF Adds
<1>6. CASE q.op \in {"reopen", "withdraw"}
  <2>1. /\ t.creator = s.creator /\ t.ref = s.ref /\ t.decisions = s.decisions
        /\ t.versions = s.versions
        /\ t.status \in {"submitted", "under_review", "withdrawn"}
        /\ \/ t.cycles = s.cycles
           \/ t.cycles \in {Closed(s.cycles, "updated"), Closed(s.cycles, "withdrawn")}
    BY <1>0, <1>6 DEF Result, Reopened, Withdrawn, Submission
  <2>2. Len(t.cycles) = Len(s.cycles)
    BY <1>0, <2>1, ClosedType DEF Submission, CycleState
  <2> QED
    BY <2>1, <2>2 DEF Adds, CatalogueStatuses
<1>7. CASE q.op = "confirm_review"
  <2>1. /\ t.creator = s.creator /\ t.ref = s.ref /\ t.decisions = s.decisions
        /\ t.versions = s.versions /\ t.status = s.status
        /\ t.cycles = Append(Closed(s.cycles, "confirmed"), "open")
    BY <1>0, <1>7 DEF Result, ReviewConfirmed, Submission
  <2>2. Closed(s.cycles, "confirmed") \in Seq(CycleState)
        /\ Len(Closed(s.cycles, "confirmed")) = Len(s.cycles)
    BY <1>0, ClosedType DEF Submission, CycleState
  <2>3. Len(t.cycles) = Len(s.cycles) + 1
    BY <2>1, <2>2
  <2> QED
    BY <2>1, <2>3 DEF Adds
<1>8. CASE q.op = "edit"
  <2> DEFINE e == Edited(s, q.form, s.content.files)
  <2>1. /\ e.creator = s.creator /\ e.ref = s.ref /\ e.decisions = s.decisions
        /\ e.versions = s.versions /\ e.cycles = s.cycles /\ e.status = s.status
    BY <1>0 DEF Edited, Submission
  <2>2. e \in Submission
    <3>1. q.form \in Form /\ s.content.files \in SUBSET File
      BY <1>0, <1>8 DEF Fine, Submission, Content
    <3> QED
      BY <1>0, <3>1, SavedType
  <2>3. t \in {e, Submitted(e, n), Resubmitted(e)}
    BY <1>8 DEF Result, Saved
  <2> HIDE DEF e
  <2>4. CASE t = e
    BY <2>1, <2>4 DEF Adds
  <2>5. CASE t = Submitted(e, n)
    <3>1. /\ t.creator = e.creator /\ t.ref = (IF e.ref = 0 THEN n ELSE e.ref)
          /\ t.decisions = e.decisions /\ t.versions = e.versions
          /\ t.cycles = e.cycles /\ t.status = "submitted"
      BY <2>2, <2>5 DEF Submitted, Submission
    <3> QED
      BY <2>1, <3>1 DEF Adds, CatalogueStatuses
  <2>6. CASE t = Resubmitted(e)
    <3>1. /\ t.creator = e.creator /\ t.ref = e.ref
          /\ t.decisions = e.decisions /\ t.versions = e.versions
          /\ t.cycles = e.cycles /\ t.status = "under_review"
      BY <2>2, <2>6 DEF Resubmitted, Submission
    <3> QED
      BY <2>1, <3>1 DEF Adds, CatalogueStatuses
  <2> QED
    BY <2>3, <2>4, <2>5, <2>6
<1>9. CASE q.op \in {"upload", "detach", "comment", "resolve", "delete"}
  <2>1. \/ t = Deleted(s)
        \/ t = [s EXCEPT !.content.files = q.files]
        \/ t = [s EXCEPT !.content.files = s.content.files \ q.files]
        \/ t = [s EXCEPT !.comments[q.comment] = "open"]
        \/ t = [s EXCEPT !.comments[q.comment] =
                  IF @ = "resolved" THEN "open" ELSE "resolved"]
    BY <1>9 DEF Result
  <2>2. /\ t.creator = s.creator /\ t.ref = s.ref /\ t.decisions = s.decisions
        /\ t.versions = s.versions /\ t.cycles = s.cycles /\ t.status = s.status
    BY <1>0, <2>1 DEF Submission, Deleted
  <2> QED
    BY <2>2 DEF Adds
<1> QED
  BY <1>0, <1>1, <1>2, <1>3, <1>4, <1>5, <1>6, <1>7, <1>8, <1>9 DEF Ops, Actions

\* It leaves a reviewer and a number where it found them, and a record it moves
\* on has both: each status is reached from one that had them, or with them.
Keeps(s, t) ==
    /\ t.assigned = s.assigned \/ t.assigned # NoUser
    /\ t.revision \in {s.revision, s.revision + 1}
    /\ Named(t)
    /\ Numbered(t)

LEMMA ResultKeeps ==
    ASSUME NEW q, Fine(q), Sound(q.snap), NEW n \in Nat, n # 0
    PROVE  Keeps(q.snap, Result(q, q.snap, n))
<1> DEFINE s == q.snap
           t == Result(q, s, n)
<1>0. /\ s \in Submission /\ q.user \in User /\ q.op \in Ops
      /\ s.revision \in Nat /\ s.status \in Status
      /\ Named(s) /\ Numbered(s) /\ s.revision > 0
  BY DEF Fine, Submission, Sound
<1>1. CASE q.op = "claim"
  <2>1. /\ t.assigned = q.user /\ t.revision = s.revision /\ t.ref = s.ref
        /\ s.status = "submitted"
    BY <1>0, <1>1 DEF Fine, Allowed, CanClaim, Result, Claimed, Submission
  <2> QED
    BY <1>0, <2>1, PolicyAssumption DEF Keeps, Named, Numbered
<1>2. CASE q.op \in {"request_updates", "complete_review", "approve", "reject",
                     "confirm_ready", "publish"}
  <2>1. s.status \in Status \ {"draft", "submitted", "withdrawn"}
    BY <1>0, <1>2 DEF Fine, Allowed, CanRequestUpdates, MayCompleteReview,
       CanCompleteReview, CanDecideApproval, CanConfirmReady, CanPublish, Status
  <2>2. t.assigned = s.assigned /\ t.revision = s.revision /\ t.ref = s.ref
    <3>1. t \in {UpdatesRequested(s), ReviewCompleted(s), Approved(s, q.user),
                 Rejected(s, q.user), ReadyConfirmed(s), Published(s)}
      BY <1>2 DEF Result
    <3> QED
      BY <1>0, <3>1 DEF UpdatesRequested, ReviewCompleted, Approved, Rejected,
         ReadyConfirmed, Published, Submission
  <2> QED
    BY <1>0, <2>1, <2>2 DEF Keeps, Named, Numbered
<1>3. CASE q.op = "resubmit"
  <2>1. s.status = "updates_required"
    BY <1>3 DEF Fine, Allowed, MayResubmit, CanResubmit
  <2>2. /\ t.assigned = s.assigned /\ t.revision = s.revision + 1
        /\ t.ref = s.ref
    BY <1>0, <1>3 DEF Result, Resubmitted, Submission
  <2> QED
    BY <1>0, <2>1, <2>2 DEF Keeps, Named, Numbered, Status
<1>4. CASE q.op = "reopen"
  <2>1. /\ t.assigned = s.assigned /\ t.revision = s.revision + 1
        /\ t.status = IF s.status = "published" /\ s.assigned # NoUser
                      THEN "under_review" ELSE "submitted"
    BY <1>0, <1>4 DEF Result, Reopened, Submission
  <2> QED
    BY <1>0, <2>1 DEF Keeps, Named, Numbered
<1>5. CASE q.op = "withdraw"
  <2>1. /\ t.assigned = s.assigned /\ t.revision = s.revision
        /\ t.status = "withdrawn"
    BY <1>0, <1>5 DEF Result, Withdrawn, Submission
  <2> QED
    BY <2>1 DEF Keeps, Named, Numbered
<1>6. CASE q.op \in {"confirm_review", "upload", "detach", "comment", "resolve",
                     "delete"}
  <2>1. \/ t \in {ReviewConfirmed(s), Deleted(s)}
        \/ t = [s EXCEPT !.content.files = q.files]
        \/ t = [s EXCEPT !.content.files = s.content.files \ q.files]
        \/ t = [s EXCEPT !.comments[q.comment] = "open"]
        \/ t = [s EXCEPT !.comments[q.comment] =
                  IF @ = "resolved" THEN "open" ELSE "resolved"]
    BY <1>6 DEF Result
  <2>2. /\ t.assigned = s.assigned /\ t.revision = s.revision /\ t.ref = s.ref
        /\ t.status = s.status
    BY <1>0, <2>1 DEF Submission, Deleted, ReviewConfirmed
  <2> QED
    BY <1>0, <2>2 DEF Keeps, Named, Numbered
<1>7. CASE q.op = "edit"
  <2> DEFINE e == Edited(s, q.form, s.content.files)
  <2>1. /\ e.assigned = s.assigned /\ e.revision = s.revision /\ e.ref = s.ref
        /\ e.status = s.status
    BY <1>0 DEF Edited, Submission
  <2>2. e \in Submission
    <3>1. q.form \in Form /\ s.content.files \in SUBSET File
      BY <1>0, <1>7 DEF Fine, Submission, Content
    <3> QED
      BY <1>0, <3>1, SavedType
  <2>3. \/ t = e
        \/ t = Submitted(e, n)
        \/ t = Resubmitted(e) /\ e.status = "updates_required"
    BY <1>7 DEF Result, Saved, ResubmitsOnSave
  <2> HIDE DEF e
  <2>4. CASE t = e
    BY <1>0, <2>1, <2>4 DEF Keeps, Named, Numbered
  <2>5. CASE t = Submitted(e, n)
    <3>1. /\ t.assigned = e.assigned /\ t.revision = e.revision
          /\ t.ref # 0 /\ t.status = "submitted"
      BY <2>2, <2>5 DEF Submitted, Submission
    <3> QED
      BY <2>1, <3>1 DEF Keeps, Named, Numbered
  <2>6. CASE t = Resubmitted(e) /\ e.status = "updates_required"
    <3>1. /\ t.assigned = e.assigned /\ t.revision = e.revision + 1
          /\ t.ref = e.ref
      BY <1>0, <2>1, <2>2, <2>6 DEF Resubmitted, Submission
    <3> QED
      BY <1>0, <2>1, <2>6, <3>1 DEF Keeps, Named, Numbered, Status
  <2> QED
    BY <2>3, <2>4, <2>5, <2>6
<1> QED
  BY <1>0, <1>1, <1>2, <1>3, <1>4, <1>5, <1>6, <1>7 DEF Ops, Actions

-----------------------------------------------------------------------------
(* What the commit makes of the row.                                       *)

\* Rows that were loaded are written where they stand, new ones come after
\* those that are there by now.
Laid(S, old, loaded, new) ==
    LET rows == Rows(old, loaded, new) IN
    /\ rows \in Seq(S)
    /\ Len(rows) = Len(old) + (Len(new) - Len(loaded))
    /\ \A i \in DOMAIN old :
         rows[i] = IF i \in DOMAIN loaded /\ new[i] # loaded[i] THEN new[i] ELSE old[i]
    /\ \A i \in 1..(Len(new) - Len(loaded)) :
         rows[Len(old) + i] = new[Len(loaded) + i]

\* So the table stays well typed.
LEMMA RowsType ==
    ASSUME NEW S, NEW old \in Seq(S), NEW loaded \in Seq(S), NEW new \in Seq(S),
           Len(loaded) <= Len(new)
    PROVE  Laid(S, old, loaded, new)
<1> DEFINE a == [i \in DOMAIN old |->
                   IF i \in DOMAIN loaded THEN Dirty(old[i], loaded[i], new[i])
                                          ELSE old[i]]
           b == SubSeq(new, Len(loaded) + 1, Len(new))
<1>0. /\ Len(old) \in Nat /\ Len(loaded) \in Nat /\ Len(new) \in Nat
      /\ DOMAIN old = 1..Len(old) /\ DOMAIN loaded = 1..Len(loaded)
      /\ DOMAIN new = 1..Len(new)
  BY LenProperties
<1>1. \A i \in DOMAIN old : a[i] \in S
  <2> SUFFICES ASSUME NEW i \in DOMAIN old PROVE a[i] \in S
    OBVIOUS
  <2>1. old[i] \in S /\ (i \in DOMAIN loaded => new[i] \in S)
    BY <1>0
  <2> QED
    BY <2>1 DEF Dirty
<1>2. a \in Seq(S) /\ Len(a) = Len(old)
  BY <1>0, <1>1
<1>3. b \in Seq(S) /\ Len(b) = Len(new) - Len(loaded)
  <2>1. \A i \in (Len(loaded) + 1)..Len(new) : new[i] \in S
    BY <1>0
  <2>2. Len(loaded) + 1 \in Int /\ Len(new) \in Int
    BY <1>0
  <2> DEFINE m == Len(loaded) + 1
             n == Len(new)
  <2> HIDE DEF m, n
  <2>3. /\ SubSeq(new, m, n) \in Seq(S)
        /\ Len(SubSeq(new, m, n)) = IF m <= n THEN n - m + 1 ELSE 0
    BY <2>1, <2>2, SubSeqProperties DEF m, n
  <2>4. (IF m <= n THEN n - m + 1 ELSE 0) = Len(new) - Len(loaded)
    <3>1. \A x, y \in Nat :
             x <= y => (IF x + 1 <= y THEN y - (x + 1) + 1 ELSE 0) = y - x
      OBVIOUS
    <3> QED
      BY <1>0, <3>1 DEF m, n
  <2> QED
    BY <2>3, <2>4 DEF m, n
<1>4. \A i \in 1..(Len(new) - Len(loaded)) : b[i] = new[Len(loaded) + i]
  <2>1. \A i \in 1..(Len(new) - Len(loaded)) :
           i \in 1..(Len(new) - (Len(loaded) + 1) + 1)
    BY <1>0
  <2>2. \A i \in 1..(Len(new) - (Len(loaded) + 1) + 1) :
           b[i] = new[Len(loaded) + 1 + i - 1]
    <3>1. \A i \in (Len(loaded) + 1)..Len(new) : new[i] \in S
      BY <1>0
    <3> QED
      BY <1>0, <3>1, SubSeqProperties
  <2>3. \A i \in 1..(Len(new) - Len(loaded)) :
           Len(loaded) + 1 + i - 1 = Len(loaded) + i
    BY <1>0
  <2> HIDE DEF b
  <2> QED
    BY <2>1, <2>2, <2>3
<1>5. \A i \in DOMAIN old : a[i] =
         IF i \in DOMAIN loaded /\ new[i] # loaded[i] THEN new[i] ELSE old[i]
  BY DEF Dirty
<1>6. Rows(old, loaded, new) = a \o b
  BY DEF Rows
<1> HIDE DEF a, b
<1>7. /\ a \o b \in Seq(S) /\ Len(a \o b) = Len(a) + Len(b)
      /\ \A i \in 1..(Len(a) + Len(b)) :
            (a \o b)[i] = IF i <= Len(a) THEN a[i] ELSE b[i - Len(a)]
  BY <1>2, <1>3, ConcatProperties
<1>8. \A i \in DOMAIN old : (a \o b)[i] = a[i]
  BY <1>0, <1>2, <1>3, <1>7
<1>9. \A i \in 1..(Len(new) - Len(loaded)) : (a \o b)[Len(old) + i] = b[i]
  <2> SUFFICES ASSUME NEW i \in 1..(Len(new) - Len(loaded))
               PROVE  (a \o b)[Len(old) + i] = b[i]
    OBVIOUS
  <2> DEFINE j == Len(old) + i
  <2>1. j \in 1..(Len(a) + Len(b)) /\ ~(j <= Len(a)) /\ j - Len(a) = i
    BY <1>0, <1>2, <1>3
  <2> HIDE DEF j
  <2>2. (a \o b)[j] = b[i]
    BY <1>7, <2>1
  <2> QED
    BY <2>2 DEF j
<1> QED
  BY <1>2, <1>3, <1>4, <1>5, <1>6, <1>7, <1>8, <1>9 DEF Laid

\* A table nobody else wrote holds exactly what the request made of it.
LEMMA RowsAlone ==
    ASSUME NEW S, NEW old \in Seq(S), NEW new \in Seq(S), Len(old) <= Len(new)
    PROVE  Rows(old, old, new) = new
<1>0. /\ Len(old) \in Nat /\ Len(new) \in Nat /\ DOMAIN old = 1..Len(old)
  BY LenProperties
<1> DEFINE r == Rows(old, old, new)
<1> HIDE DEF r
<1>6. Laid(S, old, old, new)
  BY RowsType
<1>1. /\ r \in Seq(S) /\ Len(r) = Len(old) + (Len(new) - Len(old))
      /\ \A i \in DOMAIN old : r[i] = IF new[i] # old[i] THEN new[i] ELSE old[i]
      /\ \A i \in 1..(Len(new) - Len(old)) : r[Len(old) + i] = new[Len(old) + i]
  BY <1>6 DEF Laid, r
<1>2. ASSUME NEW i \in 1..Len(new) PROVE r[i] = new[i]
  <2>1. CASE i \in DOMAIN old
    BY <1>1, <2>1
  <2>2. CASE i \notin DOMAIN old
    <3>1. i - Len(old) \in 1..(Len(new) - Len(old)) /\ Len(old) + (i - Len(old)) = i
      BY <1>0, <2>2
    <3> QED
      BY <1>1, <3>1
  <2> QED
    BY <2>1, <2>2
<1>3. Len(r) = Len(new)
  BY <1>0, <1>1
<1>4. \A i \in 1..Len(r) : r[i] = new[i]
  BY <1>2, <1>3
<1>5. r = new
  BY <1>1, <1>3, <1>4, SeqEqual
<1> QED
  BY <1>5 DEF r

\* A new version comes after the stored ones, of which none changes.
LEMMA VersionsKept ==
    ASSUME NEW q, Fine(q), NEW n \in Nat, NEW s \in Submission
    PROVE  LET t  == Result(q, q.snap, n)
               vs == VersionRows(s, q.snap, t)
           IN  \/ t.versions = q.snap.versions /\ vs = s.versions
               \/ /\ t.versions # q.snap.versions
                  /\ ~IsContact(q.user, q.snap)
                  /\ vs = Append(s.versions, [revision |-> q.snap.revision,
                                    content |-> q.snap.content, approver |-> q.user])
<1> DEFINE l  == q.snap
           t  == Result(q, l, n)
           vs == VersionRows(s, l, t)
           v  == [revision |-> l.revision, content |-> l.content, approver |-> q.user]
<1>1. /\ l \in Submission /\ t \in Submission /\ q.user \in User
      /\ Adds(q, l, t, n)
  BY ResultType, ResultAdds DEF Fine
<1>2. vs = Rows(s.versions, l.versions, t.versions)
  BY DEF VersionRows
<1>3. /\ s.versions \in Seq(Version) /\ l.versions \in Seq(Version)
      /\ t.versions \in Seq(Version) /\ v \in Version
  BY <1>1 DEF Submission, Version
<1>6. Len(l.versions) <= Len(t.versions)
  BY <1>1, <1>3, AppendProperties DEF Adds, v
<1> HIDE DEF l, t, vs, v
<1>7. /\ vs \in Seq(Version)
      /\ Len(vs) = Len(s.versions) + (Len(t.versions) - Len(l.versions))
      /\ \A i \in DOMAIN s.versions : vs[i] =
            IF i \in DOMAIN l.versions /\ t.versions[i] # l.versions[i]
            THEN t.versions[i] ELSE s.versions[i]
      /\ \A i \in 1..(Len(t.versions) - Len(l.versions)) :
            vs[Len(s.versions) + i] = t.versions[Len(l.versions) + i]
  <2>1. Laid(Version, s.versions, l.versions, t.versions)
    BY <1>3, <1>6, RowsType
  <2> QED
    BY <1>2, <2>1 DEF Laid
<1>8. /\ Len(s.versions) \in Nat /\ Len(l.versions) \in Nat
      /\ DOMAIN s.versions = 1..Len(s.versions)
      /\ DOMAIN l.versions = 1..Len(l.versions)
  BY <1>3, LenProperties
<1>4. CASE t.versions = l.versions
  <2>1. Len(vs) = Len(s.versions) /\ \A i \in DOMAIN s.versions : vs[i] = s.versions[i]
    BY <1>4, <1>7, <1>8
  <2>2. vs = s.versions
    BY <1>3, <1>7, <1>8, <2>1, SeqEqual
  <2> QED
    BY <1>4, <2>2 DEF l, t, vs
<1>5. CASE t.versions # l.versions
  <2>0. t.versions = Append(l.versions, v) /\ ~IsContact(q.user, l)
    BY <1>1, <1>5 DEF Adds, v
  <2>1. /\ Len(t.versions) = Len(l.versions) + 1
        /\ \A i \in DOMAIN l.versions : t.versions[i] = l.versions[i]
        /\ t.versions[Len(l.versions) + 1] = v
    BY <1>3, <1>8, <2>0, AppendProperties
  <2>2. Len(vs) = Len(s.versions) + 1 /\ 1 \in 1..(Len(t.versions) - Len(l.versions))
    BY <1>7, <1>8, <2>1
  <2>3. \A i \in DOMAIN s.versions : vs[i] = s.versions[i]
    BY <1>7, <2>1
  <2>4. vs[Len(s.versions) + 1] = v
    BY <1>7, <2>1, <2>2
  <2> DEFINE a == Append(s.versions, v)
  <2>5. /\ a \in Seq(Version) /\ Len(a) = Len(s.versions) + 1
        /\ \A i \in 1..Len(s.versions) : a[i] = s.versions[i]
        /\ a[Len(s.versions) + 1] = v
    BY <1>3, AppendProperties
  <2> HIDE DEF a
  <2>6. \A i \in 1..Len(vs) : vs[i] = a[i]
    BY <1>8, <2>2, <2>3, <2>4, <2>5
  <2>7. vs = a
    BY <1>7, <2>2, <2>5, <2>6, SeqEqual
  <2> QED
    BY <1>5, <2>0, <2>7 DEF l, t, vs, v, a
<1> QED
  BY ONLY <1>4, <1>5

\* What is committed is well typed, whatever was committed since the load.
LEMMA MergedType ==
    ASSUME NEW q, Fine(q), NEW n \in Nat, NEW s \in Submission, NEW edits
    PROVE  Merged(s, q.snap, Result(q, q.snap, n), edits) \in Submission
<1> DEFINE l == q.snap
           t == Result(q, l, n)
           m == Merged(s, l, t, edits)
<1>1. l \in Submission /\ t \in Submission /\ q.user \in User /\ Adds(q, l, t, n)
  BY ResultType, ResultAdds DEF Fine
<1>2. VersionRows(s, l, t) \in {s.versions} \union
         {Append(s.versions, [revision |-> l.revision, content |-> l.content,
                              approver |-> q.user])}
  BY VersionsKept
<1> HIDE DEF l, t
<1>3. VersionRows(s, l, t) \in Seq(Version) /\ Len(VersionRows(s, l, t)) \in Nat
  <2>1. [revision |-> l.revision, content |-> l.content, approver |-> q.user]
          \in Version
    BY <1>1 DEF Submission, Version
  <2>2. s.versions \in Seq(Version)
    BY DEF Submission
  <2> HIDE DEF Version
  <2> QED
    BY <1>2, <2>1, <2>2
<1>4. Rows(s.decisions, l.decisions, t.decisions) \in Seq(Decision)
  <2>1. Laid(Decision, s.decisions, l.decisions, t.decisions)
    BY <1>1, RowsType DEF Submission, Adds
  <2> QED
    BY <2>1 DEF Laid
<1>5. Rows(s.cycles, l.cycles, t.cycles) \in Seq(CycleState)
  <2>1. Laid(CycleState, s.cycles, l.cycles, t.cycles)
    BY <1>1, RowsType DEF Submission, Adds
  <2> QED
    BY <2>1 DEF Laid
<1>6. [c \in CommentId |-> Dirty(s.comments[c], l.comments[c], t.comments[c])]
        \in [CommentId -> CommentState]
  BY <1>1 DEF Submission, Dirty
<1>7. m.content \in Content
  <2>1. /\ s.content \in Content /\ l.content \in Content /\ t.content \in Content
    BY <1>1 DEF Submission
  <2>2. /\ Dirty(s.content.text, l.content.text, t.content.text) \in Text
        /\ Dirty(s.content.group, l.content.group, t.content.group)
             \in Group \union {NoGroup}
        /\ Dirty(s.content.ack, l.content.ack, t.content.ack) \in BOOLEAN
    BY <2>1 DEF Content, Dirty
  <2>3. Members(s.content.files, l.content.files, t.content.files) \in SUBSET File
    BY <2>1 DEF Content, Members
  <2>4. (IF edits THEN (s.content.owners \ l.content.owners) \union t.content.owners
                  ELSE s.content.owners) \in SUBSET User
    BY <2>1 DEF Content
  <2> QED
    BY <2>2, <2>3, <2>4 DEF Merged, Content
<1>8. /\ Dirty(s.status, l.status, t.status) \in Status
      /\ Dirty(s.revision, l.revision, t.revision) \in Nat
      /\ Dirty(s.ref, l.ref, t.ref) \in Nat
      /\ Dirty(s.assigned, l.assigned, t.assigned) \in User \union {NoUser}
      /\ Dirty(s.archived, l.archived, t.archived) \in BOOLEAN
      /\ s.creator \in User /\ s.approvedVersion \in Nat
  BY <1>1 DEF Submission, Dirty
<1>9. m = [status |-> m.status, revision |-> m.revision, ref |-> m.ref,
           creator |-> m.creator, content |-> m.content, assigned |-> m.assigned,
           approvedVersion |-> m.approvedVersion, versions |-> m.versions,
           decisions |-> m.decisions, cycles |-> m.cycles,
           comments |-> m.comments, archived |-> m.archived]
  BY DEF Merged
<1>10. /\ m.status \in Status /\ m.revision \in Nat /\ m.ref \in Nat
       /\ m.creator \in User /\ m.assigned \in User \union {NoUser}
       /\ m.approvedVersion \in Nat /\ m.versions \in Seq(Version)
       /\ m.decisions \in Seq(Decision) /\ m.cycles \in Seq(CycleState)
       /\ m.comments \in [CommentId -> CommentState] /\ m.archived \in BOOLEAN
  BY <1>3, <1>4, <1>5, <1>6, <1>8 DEF Merged
<1> HIDE DEF m
<1>11. m \in Submission
  BY <1>7, <1>9, <1>10 DEF Submission
<1> QED
  BY <1>11 DEF m, l, t

-----------------------------------------------------------------------------
(* The invariant.                                                          *)

IInv ==
    /\ TypeOK
    /\ Loads
    /\ row.approvedVersion = Len(row.versions)
    /\ Sound(row)
    /\ DutiesSeparated

\* It holds of a new record.
LEMMA InitIInv == Init => IInv
<1> SUFFICES ASSUME Init PROVE IInv
  OBVIOUS
<1>1. PICK u \in User, f \in FormInput :
        LET e == Edited(New(u), f, {}) IN
         \/ row = e /\ lastRef = 0
         \/ row = Submitted(e, 1) /\ lastRef = 1
  BY DEF Init
<1> DEFINE e == Edited(New(u), f, {})
<1>2. e \in Submission /\ Submitted(e, 1) \in Submission
  BY NewType, TransitionTypes, WorkflowTxAssumption
<1>3. /\ e.status = "draft" /\ e.versions = <<>> /\ e.approvedVersion = 0
      /\ e.revision = 1
  BY DEF Edited, New
<1>4. row = e \/ row = Submitted(e, 1)
  BY <1>1
<1>5. /\ row.versions = <<>> /\ row.approvedVersion = 0
      /\ row.status = "draft" \/ (row.status = "submitted" /\ row.ref # 0)
      /\ row.revision = 1
  <2> HIDE DEF e
  <2>1. Submitted(e, 1).versions = <<>> /\ Submitted(e, 1).approvedVersion = 0
        /\ Submitted(e, 1).status = "submitted" /\ Submitted(e, 1).ref # 0
        /\ Submitted(e, 1).revision = 1
    BY <1>2, <1>3 DEF Submitted, Submission
  <2> QED
    BY <1>1, <1>3, <2>1 DEF e
<1>6. TypeOK
  BY <1>1, <1>2 DEF TypeOK
<1>7. Loads
  BY DEF Init, Loads
<1> HIDE DEF e
<1>8. Sound(row) /\ DutiesSeparated
  BY <1>5 DEF Sound, Shown, Named, Numbered, CatalogueStatuses, DutiesSeparated
<1>9. row.approvedVersion = Len(row.versions)
  BY <1>5
<1> QED
  BY <1>6, <1>7, <1>8, <1>9 DEF IInv

\* A request that loads the row: nothing but its own state changes.
Loading(r) ==
    /\ UNCHANGED <<row, lastRef>>
    /\ \E q : /\ inflight' = [inflight EXCEPT ![r] = q]
              /\ q = Idle \/ (Fine(q) /\ q.snap = row)

\* What begins is allowed on what it loads.
LEMMA BeginLoads ==
    ASSUME TypeOK, NEW r \in Request, NEW q, Begin(r, q), q.snap = row,
           q.op \in Ops, q.user \in User, q.op = "edit" => q.form \in Form,
           q.op \in {"upload", "detach"} => q.files \in SUBSET File,
           q.op \in {"comment", "resolve"} => q.comment \in CommentId
    PROVE  Loading(r)
<1>1. Fine(q)
  BY DEF Begin, Fine, TypeOK
<1> QED
  BY <1>1 DEF Begin, Loading

\* All that begin do so, and so do those that are given up.
LEMMA LoadsOnly ==
    ASSUME TypeOK, NEW r \in Request,
           \/ LoadAction(r) \/ LoadEdit(r) \/ LoadUpload(r) \/ LoadDetach(r)
           \/ LoadDelete(r) \/ LoadComment(r) \/ Abandon(r)
    PROVE  Loading(r)
<1>0. row \in Submission /\ row.content.files \in SUBSET File
  BY DEF TypeOK, Submission, Content
<1>1. CASE LoadAction(r)
  <2>1. PICK u \in User, op \in Actions :
          Begin(r, [op |-> op, user |-> u, snap |-> row])
    BY <1>1 DEF LoadAction
  <2> QED
    BY <1>0, <2>1, BeginLoads DEF Ops, Actions
<1>2. CASE LoadEdit(r)
  <2>1. PICK u \in User, f \in FormInput, intent \in {"save", "submit", "resubmit"} :
          Begin(r, [op |-> "edit", user |-> u, snap |-> row,
                    form |-> f, intent |-> intent])
    BY <1>2 DEF LoadEdit
  <2> QED
    BY <1>0, <2>1, WorkflowTxAssumption, BeginLoads DEF Ops, Actions
<1>3. CASE LoadUpload(r)
  <2>1. PICK u \in User, up \in UploadInput :
          \E files \in Stored(row.content.files, up) :
             Begin(r, [op |-> "upload", user |-> u, snap |-> row, files |-> files])
    BY <1>3 DEF LoadUpload
  <2>2. PICK files \in Stored(row.content.files, up) :
             Begin(r, [op |-> "upload", user |-> u, snap |-> row, files |-> files])
    BY <2>1
  <2>3. files \in SUBSET File
    BY <1>0, StoredType, WorkflowTxAssumption
  <2> QED
    BY <1>0, <2>2, <2>3, BeginLoads DEF Ops, Actions
<1>4. CASE LoadDetach(r)
  <2>1. PICK u \in User, f \in row.content.files :
          Begin(r, [op |-> "detach", user |-> u, snap |-> row, files |-> {f}])
    BY <1>4 DEF LoadDetach
  <2> QED
    BY <1>0, <2>1, BeginLoads DEF Ops, Actions
<1>5. CASE LoadDelete(r)
  <2>1. PICK u \in User : Begin(r, [op |-> "delete", user |-> u, snap |-> row])
    BY <1>5 DEF LoadDelete
  <2> QED
    BY <1>0, <2>1, BeginLoads DEF Ops, Actions
<1>6. CASE LoadComment(r)
  <2>1. PICK u \in User, c \in CommentId, op \in {"comment", "resolve"} :
          Begin(r, [op |-> op, user |-> u, snap |-> row, comment |-> c])
    BY <1>6 DEF LoadComment
  <2> QED
    BY <1>0, <2>1, BeginLoads DEF Ops, Actions
<1>7. CASE Abandon(r)
  BY <1>7 DEF Abandon, Loading
<1> QED
  BY <1>1, <1>2, <1>3, <1>4, <1>5, <1>6, <1>7

\* A load leaves the invariant alone.
LEMMA LoadStep ==
    ASSUME IInv, NEW r \in Request, Loading(r)
    PROVE  IInv'
<1>1. PICK q : /\ inflight' = [inflight EXCEPT ![r] = q]
               /\ q = Idle \/ (Fine(q) /\ q.snap = row)
  BY DEF Loading
<1>2. row' = row /\ lastRef' = lastRef
  BY DEF Loading
<1>3. Before(row, row)
  BY DEF IInv, TypeOK, Submission, Before, Grown
<1>4. inflight = [i \in Request |-> inflight[i]]
  BY DEF IInv, Loads
<1>5. inflight' = [i \in Request |-> IF i = r THEN q ELSE inflight[i]]
  BY <1>1, <1>4
<1>6. ASSUME NEW i \in Request
      PROVE  \/ inflight'[i] = Idle
             \/ Fine(inflight'[i]) /\ Before(inflight'[i].snap, row')
  <2>1. CASE i = r
    BY <1>1, <1>2, <1>3, <1>5, <2>1
  <2>2. CASE i # r
    BY <1>2, <1>5, <2>2 DEF IInv, Loads
  <2> QED
    BY <2>1, <2>2
<1>7. inflight' = [i \in Request |-> inflight'[i]]
  BY <1>5
<1>8. Loads'
  BY <1>6, <1>7 DEF Loads
<1> QED
  BY <1>2, <1>8 DEF IInv, TypeOK, DutiesSeparated

\* A record that is deleted or numbered stays so.
Lasting == /\ row.archived => row'.archived
           /\ row.ref # 0 => row'.ref # 0

\* So does a commit, although others have committed since it loaded the row.
LEMMA CommitStep ==
    ASSUME IInv, NEW r \in Request, Commit(r)
    PROVE  IInv' /\ Lasting
<1> DEFINE q == inflight[r]
           l == q.snap
           n == lastRef + 1
           t == Result(q, l, n)
           v == [revision |-> l.revision, content |-> l.content, approver |-> q.user]
<1>1. /\ row \in Submission /\ lastRef \in Nat /\ n \in Nat /\ n # 0
      /\ row.approvedVersion = Len(row.versions)
      /\ Sound(row) /\ Shown(row) /\ DutiesSeparated
  BY DEF IInv, TypeOK, Sound
<1>2. Fine(q) /\ Before(l, row) /\ Sound(l) /\ Grown(l, row)
  BY DEF Commit, IInv, Loads, Before
<1>3. /\ row' = Merged(row, l, t, q.op = "edit")
      /\ lastRef' = (IF t.ref = l.ref THEN lastRef ELSE n)
      /\ inflight' = [inflight EXCEPT ![r] = Idle]
  BY DEF Commit
<1> HIDE DEF q, n
<1>4. /\ l \in Submission /\ q.user \in User /\ ~l.archived
      /\ t \in Submission /\ Adds(q, l, t, n) /\ Keeps(l, t)
  BY <1>1, <1>2, NotArchived, ResultType, ResultAdds, ResultKeeps DEF Fine
<1>5. \/ t.versions = l.versions /\ VersionRows(row, l, t) = row.versions
      \/ /\ t.versions # l.versions
         /\ ~IsContact(q.user, l)
         /\ VersionRows(row, l, t) = Append(row.versions, v)
  BY <1>1, <1>2, VersionsKept
<1>6. row' \in Submission
  BY <1>1, <1>2, <1>3, MergedType
<1> HIDE DEF t
<1>7. /\ row'.status = Dirty(row.status, l.status, t.status)
      /\ row'.creator = row.creator
      /\ row'.revision = Dirty(row.revision, l.revision, t.revision)
      /\ row'.ref = Dirty(row.ref, l.ref, t.ref)
      /\ row'.assigned = Dirty(row.assigned, l.assigned, t.assigned)
      /\ row'.archived = Dirty(row.archived, l.archived, t.archived)
      /\ row'.versions = VersionRows(row, l, t)
      /\ row'.approvedVersion = IF t.versions = l.versions THEN row.approvedVersion
                                ELSE Len(VersionRows(row, l, t))
  BY <1>3 DEF Merged
<1>8. /\ row.versions \in Seq(Version) /\ l.versions \in Seq(Version) /\ v \in Version
      /\ Len(row.versions) \in Nat /\ Len(l.versions) \in Nat
      /\ DOMAIN row.versions = 1..Len(row.versions)
  BY <1>1, <1>4, LenProperties DEF Submission, Version
<1> HIDE DEF l, v
<1>9. \/ row'.versions = row.versions /\ t.versions = l.versions
      \/ /\ row'.versions = Append(row.versions, v) /\ t.versions # l.versions
         /\ Len(row'.versions) = Len(row.versions) + 1
         /\ DOMAIN row'.versions = 1..(Len(row.versions) + 1)
         /\ \A i \in 1..Len(row.versions) : row'.versions[i] = row.versions[i]
         /\ row'.versions[Len(row.versions) + 1] = v
         /\ ~IsContact(q.user, l)
  BY <1>5, <1>7, <1>8, AppendProperties, LenProperties
<1>10. TypeOK'
  BY <1>1, <1>3, <1>6 DEF TypeOK
<1>11. row'.approvedVersion = Len(row'.versions)
  BY <1>1, <1>7, <1>9
<1>12. Shown(row')
  <2> SUFFICES ASSUME row'.status \in CatalogueStatuses PROVE Len(row'.versions) > 0
    BY DEF Shown
  <2>1. CASE row'.versions # row.versions
    BY <1>8, <1>9, <2>1
  <2>2. CASE row'.versions = row.versions /\ row'.status = row.status
    BY <1>1, <2>2 DEF Shown
  <2>3. CASE row'.versions = row.versions /\ row'.status # row.status
    <3>1. t.versions = l.versions
      <4>1. Append(row.versions, v) # row.versions
        BY <1>8, AppendProperties
      <4> QED
        BY <1>9, <2>3, <4>1
    <3>2. t.status \in CatalogueStatuses /\ t.status # l.status
      BY <1>7, <2>3 DEF Dirty
    <3>3. l.status \in CatalogueStatuses
      BY <1>4, <3>1, <3>2 DEF Adds
    <3> QED
      BY <1>2, <1>8, <2>3, <3>3 DEF Before, Sound, Shown
  <2> QED
    BY <2>1, <2>2, <2>3
<1>13. DutiesSeparated'
  <2> SUFFICES ASSUME NEW i \in DOMAIN row'.versions
               PROVE  row'.versions[i].approver \notin
                        {row'.creator} \union row'.versions[i].content.owners
    BY DEF DutiesSeparated
  <2>1. CASE i \in DOMAIN row.versions
    <3>1. row'.versions[i] = row.versions[i]
      BY <1>8, <1>9, <2>1
    <3> QED
      BY <1>1, <1>7, <2>1, <3>1 DEF DutiesSeparated
  <2>2. CASE i \notin DOMAIN row.versions
    <3>1. i = Len(row.versions) + 1 /\ row'.versions[i] = v /\ ~IsContact(q.user, l)
      BY <1>8, <1>9, <2>2
    <3>2. l.creator = row'.creator
      BY <1>2, <1>7 DEF Before
    <3> QED
      BY <3>1, <3>2 DEF v, IsContact, Contacts
  <2> QED
    BY <2>1, <2>2
<1>14. Grown(row, row') /\ Sound(row')
  <2>0. /\ row.revision \in Nat /\ l.revision \in Nat /\ row.revision > 0
        /\ l.revision > 0 /\ Named(row) /\ Numbered(row)
    BY <1>1, <1>2, <1>4 DEF Sound, Submission
  <2>1. row.assigned # NoUser => row'.assigned # NoUser
    BY <1>4, <1>7 DEF Dirty, Keeps
  <2>2. row.ref # 0 => row'.ref # 0
    BY <1>1, <1>4, <1>7 DEF Dirty, Adds
  <2>3. row'.revision > 0 /\ (row.revision > 1 => row'.revision > 1)
    BY <1>4, <1>7, <2>0 DEF Dirty, Keeps
  <2>4. Named(row')
    <3>1. CASE t.status = l.status
      BY <1>7, <2>0, <2>1, <3>1 DEF Dirty, Named
    <3>2. CASE t.status # l.status
      <4>1. row'.status = t.status /\ Named(t)
        BY <1>4, <1>7, <3>2 DEF Dirty, Keeps
      <4>2. t.assigned # NoUser => row'.assigned # NoUser
        BY <1>2, <1>7 DEF Dirty, Grown
      <4> QED
        BY <4>1, <4>2 DEF Named
    <3> QED
      BY <3>1, <3>2
  <2>5. Numbered(row')
    <3> SUFFICES ASSUME row'.ref = 0, row'.status \notin {"draft", "withdrawn"}
                 PROVE  row'.revision > 1
      BY DEF Numbered
    <3>1. row.ref = 0 /\ l.ref = 0 /\ t.ref = 0
      <4>1. row.ref = 0
        BY <2>2
      <4>2. l.ref = 0
        BY <1>2, <4>1 DEF Grown
      <4> QED
        BY <1>1, <1>4, <1>7, <4>1, <4>2 DEF Adds, Dirty
    <3>2. CASE t.status = l.status
      BY <1>7, <2>0, <2>3, <3>1, <3>2 DEF Dirty, Numbered
    <3>3. CASE t.status # l.status
      <4>1. t.revision > 1
        BY <1>4, <1>7, <3>1, <3>3 DEF Dirty, Keeps, Numbered
      <4>2. CASE t.revision = l.revision
        BY <1>2, <1>7, <4>1, <4>2 DEF Dirty, Grown
      <4>3. CASE t.revision # l.revision
        BY <1>7, <4>1, <4>3 DEF Dirty
      <4> QED
        BY <4>2, <4>3
    <3> QED
      BY <3>2, <3>3
  <2> QED
    BY <1>12, <2>1, <2>2, <2>3, <2>4, <2>5 DEF Grown, Sound
<1>15. Loads'
  <2>1. Len(row.versions) <= Len(row'.versions)
    BY <1>8, <1>9
  <2>2. inflight = [i \in Request |-> inflight[i]]
    BY DEF IInv, Loads
  <2>3. inflight' = [i \in Request |-> IF i = r THEN Idle ELSE inflight[i]]
    BY <1>3, <2>2
  <2>4. ASSUME NEW i \in Request
        PROVE  \/ inflight'[i] = Idle
               \/ Fine(inflight'[i]) /\ Before(inflight'[i].snap, row')
    <3>1. CASE inflight'[i] = Idle
      BY <3>1
    <3>2. CASE inflight'[i] # Idle
      <4>1. inflight'[i] = inflight[i] /\ inflight[i] # Idle
        BY <2>3, <3>2
      <4>2. Fine(inflight[i]) /\ Before(inflight[i].snap, row)
        BY <4>1 DEF IInv, Loads
      <4>3. Len(inflight[i].snap.versions) \in Nat
        BY <4>2, LenProperties DEF Fine, Submission
      <4>4. Before(inflight[i].snap, row')
        <5>1. Len(row'.versions) \in Nat
          BY <1>8, <1>9
        <5> QED
          BY <1>7, <1>8, <1>14, <2>1, <4>2, <4>3, <5>1 DEF Before, Grown
      <4> QED
        BY <4>1, <4>2, <4>4
    <3> QED
      BY <3>1, <3>2
  <2>5. inflight' = [i \in Request |-> inflight'[i]]
    BY <2>3
  <2> QED
    BY <2>4, <2>5 DEF Loads
<1>16. Lasting
  <2>1. row.archived => row'.archived
    BY <1>1, <1>4, <1>7 DEF Dirty, Submission
  <2> QED
    BY <1>14, <2>1 DEF Lasting, Grown
<1> QED
  BY <1>1, <1>10, <1>11, <1>12, <1>13, <1>14, <1>15, <1>16 DEF IInv

\* Every step keeps the invariant and what lasts.
LEMMA NextIInv == IInv /\ [Next]_vars => IInv' /\ (Lasting \/ UNCHANGED row)
<1> SUFFICES ASSUME IInv, [Next]_vars PROVE IInv' /\ (Lasting \/ UNCHANGED row)
  OBVIOUS
<1>1. CASE UNCHANGED vars
  BY <1>1 DEF vars, IInv, TypeOK, Loads, DutiesSeparated
<1>2. CASE Next
  <2> PICK r \in Request :
        \/ LoadAction(r) \/ LoadEdit(r) \/ LoadUpload(r) \/ LoadDetach(r)
        \/ LoadDelete(r) \/ LoadComment(r) \/ Commit(r) \/ Abandon(r)
    BY <1>2 DEF Next
  <2>1. CASE Commit(r)
    BY <2>1, CommitStep
  <2>2. CASE ~Commit(r)
    <3>1. Loading(r)
      BY <2>2, LoadsOnly DEF IInv
    <3> QED
      BY <3>1, LoadStep DEF Loading
  <2> QED
    BY <2>1, <2>2
<1> QED
  BY <1>1, <1>2

\* The invariant holds in every behaviour.
LEMMA Invariance == Spec => []IInv
<1>1. IInv /\ [Next]_vars => IInv'
  BY NextIInv
<1> QED
  BY <1>1, InitIInv, PTL DEF Spec

-----------------------------------------------------------------------------
(* The theorems.                                                           *)

\* The committed record stays well typed, however requests overlap.
THEOREM TypeCorrect == Spec => []TypeOK
<1>1. IInv => TypeOK
  BY DEF IInv
<1> QED
  BY <1>1, Invariance, PTL

\* No overlap puts a record in the catalogue that nobody ever approved.
THEOREM ApprovedFirst == Spec => []NeverUnapproved
<1>1. IInv => NeverUnapproved
  <2> SUFFICES ASSUME IInv, CatalogueVisible(row)
               PROVE  row.approvedVersion \in DOMAIN row.versions
    BY DEF NeverUnapproved
  <2>1. row.versions \in Seq(Version)
    BY DEF IInv, TypeOK, Submission
  <2>2. Len(row.versions) > 0 /\ row.approvedVersion = Len(row.versions)
    BY DEF IInv, Sound, Shown, CatalogueVisible
  <2> QED
    BY <2>1, <2>2, LenProperties
<1> QED
  BY <1>1, Invariance, PTL

\* No stored version was approved by one of its contacts, even if they changed
\* while the approval was under way.
THEOREM DutiesAlwaysSeparated == Spec => []DutiesSeparated
<1>1. IInv => DutiesSeparated
  BY DEF IInv
<1> QED
  BY <1>1, Invariance, PTL

\* No overlap leaves a record past the start of its review without the reviewer
\* that a resubmission or a reopening sends it back to.
THEOREM ReviewerStaysNamed == Spec => []ReviewerNamed
<1>1. IInv => ReviewerNamed
  BY DEF IInv, Sound, Named, ReviewerNamed
<1> QED
  BY <1>1, Invariance, PTL

\* No overlap gets a record in its first revision under way without a number.
THEOREM NumberedUnlessReopened == Spec => []UnnumberedWasReopened
<1>1. IInv => UnnumberedWasReopened
  BY DEF IInv, Sound, Numbered, UnnumberedWasReopened
<1> QED
  BY <1>1, Invariance, PTL

\* No late commit brings back a deleted record or takes a number away.
THEOREM DeletionStands == Spec => NeverUndone
<1>1. IInv /\ [Next]_vars =>
        [/\ row.archived => row'.archived
         /\ row.ref # 0 => row'.ref # 0]_vars
  BY NextIInv DEF Lasting
<1> QED
  BY <1>1, Invariance, PTL DEF Spec, NeverUndone

-----------------------------------------------------------------------------
(* With one request in flight at a time every commit is a request of       *)
(* Workflow: the row it loaded is the row it writes. The definitions of    *)
(* Workflow and its Lifecycle and Policy, seen through Serial, are those   *)
(* this module extends.                                                    *)

\* Who is who is the same ...
LEMMA SamePolicy ==
    ASSUME NEW u, NEW s
    PROVE  /\ Serial!IsAdmin(u) = IsAdmin(u) /\ Serial!IsStaff(u) = IsStaff(u)
           /\ Serial!IsPublisher(u) = IsPublisher(u)
           /\ Serial!IsContact(u, s) = IsContact(u, s)
           /\ Serial!InScope(u, "reviewer", s) = InScope(u, "reviewer", s)
           /\ Serial!InScope(u, "approver", s) = InScope(u, "approver", s)
           /\ Serial!Terminal = Terminal /\ Serial!Editable = Editable
<1>1. Serial!Role = Role
  BY DEF Role, Serial!Role
<1>2. ASSUME NEW role, NEW g PROVE Serial!HasRole(u, role, g) = HasRole(u, role, g)
  BY DEF HasRole, Serial!HasRole
<1>3. Serial!IsStaff(u) = IsStaff(u)
  BY <1>1, <1>2 DEF IsStaff, Serial!IsStaff
<1>4. Serial!IsAdmin(u) = IsAdmin(u) /\ Serial!IsPublisher(u) = IsPublisher(u)
  BY <1>2 DEF IsAdmin, Serial!IsAdmin, IsPublisher, Serial!IsPublisher
<1>5. /\ Serial!InScope(u, "reviewer", s) = InScope(u, "reviewer", s)
      /\ Serial!InScope(u, "approver", s) = InScope(u, "approver", s)
  BY <1>2 DEF InScope, Serial!InScope
<1>6. Serial!IsContact(u, s) = IsContact(u, s)
  BY DEF IsContact, Serial!IsContact, Contacts, Serial!Contacts
<1>7. Serial!Terminal = Terminal /\ Serial!Editable = Editable
  BY DEF Terminal, Serial!Terminal, Editable, Serial!Editable
<1> QED
  BY <1>3, <1>4, <1>5, <1>6, <1>7

\* ... so are the guards of the handlers ...
LEMMA SameGuards ==
    ASSUME NEW u, NEW s
    PROVE  /\ Serial!CanView(u, s) = CanView(u, s)
           /\ Serial!CanEdit(u, s) = CanEdit(u, s)
           /\ Serial!CanComment(u, s) = CanComment(u, s)
           /\ Serial!CanWithdraw(u, s) = CanWithdraw(u, s)
           /\ Serial!CanClaim(u, s) = CanClaim(u, s)
           /\ Serial!CanRequestUpdates(u, s) = CanRequestUpdates(u, s)
           /\ Serial!CanDecideApproval(u, s) = CanDecideApproval(u, s)
           /\ Serial!CanConfirmReady(u, s) = CanConfirmReady(u, s)
           /\ Serial!CanPublish(u, s) = CanPublish(u, s)
           /\ Serial!CanConfirmReview(u, s) = CanConfirmReview(u, s)
           /\ Serial!CanReopen(u, s) = CanReopen(u, s)
           /\ Serial!CanDelete(u, s) = CanDelete(u, s)
           /\ Serial!Complete(s.content) = Complete(s.content)
           /\ Serial!MayResubmit(u, s) = MayResubmit(u, s)
           /\ Serial!MayCompleteReview(u, s) = MayCompleteReview(u, s)
<1>1. Serial!CanView(u, s) = CanView(u, s)
  BY SamePolicy DEF CanView, Serial!CanView
<1>2. Serial!CanEdit(u, s) = CanEdit(u, s)
  BY SamePolicy DEF CanEdit, Serial!CanEdit
<1>3. Serial!CanComment(u, s) = CanComment(u, s)
  BY <1>1, SamePolicy DEF CanComment, Serial!CanComment
<1>4. Serial!CanWithdraw(u, s) = CanWithdraw(u, s)
  BY SamePolicy DEF CanWithdraw, Serial!CanWithdraw
<1>5. /\ Serial!CanClaim(u, s) = CanClaim(u, s)
      /\ Serial!CanRequestUpdates(u, s) = CanRequestUpdates(u, s)
      /\ Serial!CanDecideApproval(u, s) = CanDecideApproval(u, s)
  BY SamePolicy DEF CanClaim, Serial!CanClaim, CanRequestUpdates,
     Serial!CanRequestUpdates, CanDecideApproval, Serial!CanDecideApproval
<1>6. /\ Serial!CanConfirmReady(u, s) = CanConfirmReady(u, s)
      /\ Serial!CanPublish(u, s) = CanPublish(u, s)
      /\ Serial!CanConfirmReview(u, s) = CanConfirmReview(u, s)
  BY SamePolicy DEF CanConfirmReady, Serial!CanConfirmReady, CanPublish,
     Serial!CanPublish, CanConfirmReview, Serial!CanConfirmReview
<1>7. /\ Serial!CanReopen(u, s) = CanReopen(u, s)
      /\ Serial!CanDelete(u, s) = CanDelete(u, s)
  BY SamePolicy DEF CanReopen, Serial!CanReopen, CanDelete, Serial!CanDelete
<1>8. Serial!Complete(s.content) = Complete(s.content)
  BY DEF Complete, Serial!Complete
<1>9. Serial!MayResubmit(u, s) = MayResubmit(u, s)
  <2>1. Serial!CanResubmit(u, s) = CanResubmit(u, s)
    BY SamePolicy DEF CanResubmit, Serial!CanResubmit
  <2> QED
    BY <1>8, <2>1 DEF MayResubmit, Serial!MayResubmit
<1>10. Serial!MayCompleteReview(u, s) = MayCompleteReview(u, s)
  <2>1. Serial!CanCompleteReview(u, s) = CanCompleteReview(u, s)
    BY SamePolicy DEF CanCompleteReview, Serial!CanCompleteReview
  <2>2. Serial!Unresolved(s) = Unresolved(s)
    BY DEF Unresolved, Serial!Unresolved
  <2> QED
    BY <1>8, <2>1, <2>2 DEF MayCompleteReview, Serial!MayCompleteReview
<1> QED
  BY <1>1, <1>2, <1>3, <1>4, <1>5, <1>6, <1>7, <1>8, <1>9, <1>10

\* ... and what they write.
LEMMA SameHandlers ==
    ASSUME NEW u, NEW s, NEW n
    PROVE  /\ Serial!Submitted(s, n) = Submitted(s, n)
           /\ Serial!Claimed(s, u) = Claimed(s, u)
           /\ Serial!UpdatesRequested(s) = UpdatesRequested(s)
           /\ Serial!Resubmitted(s) = Resubmitted(s)
           /\ Serial!ReviewCompleted(s) = ReviewCompleted(s)
           /\ Serial!Approved(s, u) = Approved(s, u)
           /\ Serial!Rejected(s, u) = Rejected(s, u)
           /\ Serial!ReadyConfirmed(s) = ReadyConfirmed(s)
           /\ Serial!Published(s) = Published(s)
           /\ Serial!Reopened(s) = Reopened(s)
           /\ Serial!Withdrawn(s) = Withdrawn(s)
           /\ Serial!ReviewConfirmed(s) = ReviewConfirmed(s)
           /\ Serial!Deleted(s) = Deleted(s)
           /\ Serial!New(u) = New(u)
<1>1. /\ Serial!Submitted(s, n) = Submitted(s, n)
      /\ Serial!Claimed(s, u) = Claimed(s, u)
      /\ Serial!UpdatesRequested(s) = UpdatesRequested(s)
      /\ Serial!Resubmitted(s) = Resubmitted(s)
      /\ Serial!ReviewCompleted(s) = ReviewCompleted(s)
  BY DEF Submitted, Serial!Submitted, Claimed, Serial!Claimed, UpdatesRequested,
     Serial!UpdatesRequested, Resubmitted, Serial!Resubmitted, ReviewCompleted,
     Serial!ReviewCompleted
<1>2. /\ Serial!Approved(s, u) = Approved(s, u)
      /\ Serial!Rejected(s, u) = Rejected(s, u)
      /\ Serial!ReadyConfirmed(s) = ReadyConfirmed(s)
      /\ Serial!Published(s) = Published(s)
      /\ Serial!Deleted(s) = Deleted(s)
      /\ Serial!New(u) = New(u)
  BY DEF Approved, Serial!Approved, Rejected, Serial!Rejected, ReadyConfirmed,
     Serial!ReadyConfirmed, Published, Serial!Published, Deleted, Serial!Deleted,
     New, Serial!New
<1>3. \A c, reason : Serial!Closed(c, reason) = Closed(c, reason)
  BY DEF Closed, Serial!Closed
<1>4. Serial!Reopened(s) = Reopened(s)
  BY <1>3 DEF Reopened, Serial!Reopened
<1>5. Serial!Withdrawn(s) = Withdrawn(s)
  BY <1>3 DEF Withdrawn, Serial!Withdrawn
<1>6. Serial!ReviewConfirmed(s) = ReviewConfirmed(s)
  BY <1>3 DEF ReviewConfirmed, Serial!ReviewConfirmed
<1> QED
  BY <1>1, <1>2, <1>4, <1>5, <1>6

\* The form and the uploads too.
LEMMA SameForm ==
    ASSUME NEW u, NEW s, NEW f, NEW files, NEW up, NEW intent, NEW n
    PROVE  /\ Serial!Edited(s, f, files) = Edited(s, f, files)
           /\ Serial!Stored(files, up) = Stored(files, up)
           /\ Serial!Saved(u, s, f, up, files, intent, n)
                = Saved(u, s, f, up, files, intent, n)
<1>1. \A x : Serial!Edited(x, f, files) = Edited(x, f, files)
  BY DEF Edited, Serial!Edited, Filled, Serial!Filled
<1>2. \A x, y : Serial!Fits(x, y) = Fits(x, y)
  BY DEF Fits, Serial!Fits, Cardinality, Serial!Cardinality
<1>3. Serial!Stored(files, up) = Stored(files, up)
  BY <1>2 DEF Stored, Serial!Stored, Cardinality, Serial!Cardinality
<1>4. \A x : /\ Serial!SubmitsOnSave(x, intent, f.clean /\ Fits(s.content.files, up))
                  = SubmitsOnSave(x, intent, f.clean /\ Fits(s.content.files, up))
             /\ Serial!ResubmitsOnSave(u, x, intent, f.clean /\ Fits(s.content.files, up))
                  = ResubmitsOnSave(u, x, intent, f.clean /\ Fits(s.content.files, up))
  BY SameGuards DEF SubmitsOnSave, Serial!SubmitsOnSave, ResubmitsOnSave,
     Serial!ResubmitsOnSave
<1>5. \A x : /\ Serial!Submitted(x, n) = Submitted(x, n)
             /\ Serial!Resubmitted(x) = Resubmitted(x)
  BY SameHandlers
<1>6. Serial!Saved(u, s, f, up, files, intent, n) = Saved(u, s, f, up, files, intent, n)
  BY <1>1, <1>2, <1>4, <1>5 DEF Saved, Serial!Saved
<1> QED
  BY <1>1, <1>3, <1>6

\* Who attaches nothing leaves the files as they are.
LEMMA NothingStored ==
    ASSUME IsFiniteSet(File), NEW files \in SUBSET File
    PROVE  files \in Stored(files, {})
<1>1. Cardinality(files) \in Nat
  BY FS_Subset, FS_CardinalityType
<1>2. files \union {} = files
  OBVIOUS
<1>3. CASE Fits(files, {})
  BY <1>2, <1>3 DEF Stored
<1>4. CASE ~Fits(files, {})
  <2>1. Cardinality(files) > MaxFiles
    BY <1>1, <1>2, <1>4, LifecycleAssumption DEF Fits
  <2>2. {} \in {h \in SUBSET {} : IF Cardinality(files) > MaxFiles THEN h = {}
                                 ELSE Cardinality(files \union h) = MaxFiles}
    BY <2>1
  <2> QED
    BY <1>2, <1>4, <2>2 DEF Stored
<1> QED
  BY <1>3, <1>4

\* What a request leaves of the fields it does not write.
LEMMA ResultLeaves ==
    ASSUME NEW q, Fine(q), NEW n \in Nat
    PROVE  LET t == Result(q, q.snap, n) IN
           /\ q.op # "edit" => /\ t.content.owners = q.snap.content.owners
                               /\ t.ref = q.snap.ref
           /\ t.approvedVersion = IF t.versions = q.snap.versions
                                  THEN q.snap.approvedVersion ELSE Len(t.versions)
<1> DEFINE s == q.snap
           t == Result(q, s, n)
<1>0. s \in Submission /\ q.user \in User /\ q.op \in Ops /\ s.content \in Content
  BY DEF Fine, Submission
<1>1. CASE q.op = "approve"
  <2> DEFINE v == [revision |-> s.revision, content |-> s.content, approver |-> q.user]
  <2>1. /\ t.content = s.content /\ t.ref = s.ref
        /\ t.versions = Append(s.versions, v)
        /\ t.approvedVersion = Len(s.versions) + 1
    BY <1>0, <1>1 DEF Result, Approved, Submission
  <2>2. v \in Version /\ s.versions \in Seq(Version)
    BY <1>0 DEF Version, Submission
  <2>3. Len(t.versions) = Len(s.versions) + 1 /\ Len(s.versions) \in Nat
    BY <2>1, <2>2, AppendProperties, LenProperties
  <2> HIDE DEF t
  <2>4. t.versions # s.versions
    BY <2>3
  <2> QED
    BY <2>1, <2>3, <2>4 DEF t
<1>2. CASE q.op = "edit"
  <2> DEFINE e == Edited(s, q.form, s.content.files)
  <2>1. e.versions = s.versions /\ e.approvedVersion = s.approvedVersion
    BY <1>0 DEF Edited, Submission
  <2>2. e \in Submission
    <3>1. q.form \in Form /\ s.content.files \in SUBSET File
      BY <1>0, <1>2 DEF Fine, Submission, Content
    <3> QED
      BY <1>0, <3>1, SavedType
  <2>3. t \in {e, Submitted(e, n), Resubmitted(e)}
    BY <1>2 DEF Result, Saved
  <2> HIDE DEF e, t
  <2>4. t.versions = e.versions /\ t.approvedVersion = e.approvedVersion
    BY <2>2, <2>3 DEF Submitted, Resubmitted, Submission
  <2> QED
    BY <1>2, <2>1, <2>4 DEF t
<1>3. CASE q.op \in {"claim", "request_updates", "resubmit", "complete_review",
                     "reject", "confirm_ready", "publish", "reopen", "withdraw",
                     "confirm_review"}
  <2>1. t \in {Claimed(s, q.user), UpdatesRequested(s), Resubmitted(s),
               ReviewCompleted(s), Rejected(s, q.user), ReadyConfirmed(s),
               Published(s), Reopened(s), Withdrawn(s), ReviewConfirmed(s)}
    BY <1>3 DEF Result
  <2> HIDE DEF t
  <2>2. /\ t.versions = s.versions /\ t.approvedVersion = s.approvedVersion
        /\ t.content = s.content /\ t.ref = s.ref
    BY <1>0, <2>1 DEF Submission, Claimed, UpdatesRequested, Resubmitted,
       ReviewCompleted, Rejected, ReadyConfirmed, Published, Reopened, Withdrawn,
       ReviewConfirmed
  <2> QED
    BY <2>2 DEF t
<1>4. CASE q.op \in {"upload", "detach", "comment", "resolve", "delete"}
  <2>1. \/ t = Deleted(s)
        \/ t = [s EXCEPT !.content.files = q.files]
        \/ t = [s EXCEPT !.content.files = s.content.files \ q.files]
        \/ t = [s EXCEPT !.comments[q.comment] = "open"]
        \/ t = [s EXCEPT !.comments[q.comment] =
                  IF @ = "resolved" THEN "open" ELSE "resolved"]
    BY <1>4 DEF Result
  <2> HIDE DEF t
  <2>2. /\ t.versions = s.versions /\ t.approvedVersion = s.approvedVersion
        /\ t.content.owners = s.content.owners /\ t.ref = s.ref
    BY <1>0, <2>1 DEF Submission, Content, Deleted
  <2> QED
    BY <2>2 DEF t
<1> QED
  BY <1>0, <1>1, <1>2, <1>3, <1>4 DEF Ops, Actions

\* A commit to the row that was loaded writes what the handler made of it.
LEMMA MergedAlone ==
    ASSUME NEW q, Fine(q), NEW n \in Nat
    PROVE  Merged(q.snap, q.snap, Result(q, q.snap, n), q.op = "edit")
             = Result(q, q.snap, n)
<1> DEFINE s == q.snap
           t == Result(q, s, n)
           m == Merged(s, s, t, q.op = "edit")
<1>1. s \in Submission /\ t \in Submission /\ Adds(q, s, t, n) /\ q.user \in User
  BY ResultType, ResultAdds DEF Fine
<1>2. /\ q.op # "edit" => t.content.owners = s.content.owners
      /\ t.approvedVersion = IF t.versions = s.versions
                             THEN s.approvedVersion ELSE Len(t.versions)
  BY ResultLeaves
<1> HIDE DEF s, t
<1>3. /\ Rows(s.decisions, s.decisions, t.decisions) = t.decisions
      /\ Rows(s.cycles, s.cycles, t.cycles) = t.cycles
  BY <1>1, RowsAlone DEF Adds, Submission
<1>4. VersionRows(s, s, t) = t.versions
  <2>1. [revision |-> s.revision, content |-> s.content, approver |-> q.user]
          \in Version
    BY <1>1 DEF Submission, Version
  <2>2. s.versions \in Seq(Version) /\ t.versions \in Seq(Version)
    BY <1>1 DEF Submission
  <2>3. Len(s.versions) <= Len(t.versions)
    <3>1. CASE t.versions = s.versions
      BY <2>2, <3>1, LenProperties
    <3>2. CASE t.versions # s.versions
      <4>1. Len(t.versions) = Len(s.versions) + 1
        BY <1>1, <2>1, <2>2, <3>2, AppendProperties DEF Adds
      <4> QED
        BY <2>2, <4>1, LenProperties
    <3> QED
      BY <3>1, <3>2
  <2> QED
    BY <2>2, <2>3, RowsAlone DEF VersionRows
<1>5. \A x, y : Dirty(x, x, y) = y
  BY DEF Dirty
<1>6. m.content = t.content
  <2>1. s.content \in Content /\ t.content \in Content
    BY <1>1 DEF Submission
  <2>2. Members(s.content.files, s.content.files, t.content.files) = t.content.files
    BY DEF Members
  <2>3. (IF q.op = "edit"
           THEN (s.content.owners \ s.content.owners) \union t.content.owners
           ELSE s.content.owners) = t.content.owners
    BY <1>2
  <2>4. m.content = [text |-> t.content.text, group |-> t.content.group,
                     owners |-> t.content.owners, ack |-> t.content.ack,
                     files |-> t.content.files]
    BY <1>5, <2>2, <2>3 DEF Merged
  <2> HIDE DEF m
  <2> QED
    BY <2>1, <2>4 DEF Content
<1>7. m.comments = t.comments
  <2>1. m.comments = [c \in CommentId |-> t.comments[c]]
    BY <1>5 DEF Merged
  <2> HIDE DEF m
  <2> QED
    BY <1>1, <2>1 DEF Submission
<1>8. /\ m.status = Dirty(s.status, s.status, t.status)
      /\ m.revision = Dirty(s.revision, s.revision, t.revision)
      /\ m.ref = Dirty(s.ref, s.ref, t.ref)
      /\ m.assigned = Dirty(s.assigned, s.assigned, t.assigned)
      /\ m.archived = Dirty(s.archived, s.archived, t.archived)
      /\ m.decisions = Rows(s.decisions, s.decisions, t.decisions)
      /\ m.cycles = Rows(s.cycles, s.cycles, t.cycles)
      /\ m.versions = VersionRows(s, s, t)
      /\ m.creator = s.creator
      /\ m.approvedVersion = IF t.versions = s.versions THEN s.approvedVersion
                             ELSE Len(VersionRows(s, s, t))
  BY DEF Merged
<1>9. /\ m.status = t.status /\ m.revision = t.revision /\ m.ref = t.ref
      /\ m.assigned = t.assigned /\ m.archived = t.archived
      /\ m.decisions = t.decisions /\ m.cycles = t.cycles /\ m.versions = t.versions
      /\ m.creator = t.creator /\ m.approvedVersion = t.approvedVersion
  BY <1>1, <1>2, <1>3, <1>4, <1>5, <1>8 DEF Adds
<1>10. m = [status |-> m.status, revision |-> m.revision, ref |-> m.ref,
           creator |-> m.creator, content |-> m.content, assigned |-> m.assigned,
           approvedVersion |-> m.approvedVersion, versions |-> m.versions,
           decisions |-> m.decisions, cycles |-> m.cycles,
           comments |-> m.comments, archived |-> m.archived]
  BY DEF Merged
<1> HIDE DEF m
<1>11. m = t
  BY <1>1, <1>6, <1>7, <1>9, <1>10 DEF Submission
<1> QED
  BY <1>11 DEF m, s, t

\* What the guards of a load say of the request besides that it is allowed.
Bounded(q) ==
    /\ q.op \in {"resubmit", "reopen"} => q.snap.revision < MaxRevision
    /\ q.op \in {"publish", "confirm_review"} => Len(q.snap.cycles) < MaxCycles
    /\ q.op = "edit" =>
         /\ q.form \in FormInput
         /\ q.intent \in {"save", "submit", "resubmit"}
         /\ q.intent = "resubmit" => q.snap.revision < MaxRevision
    /\ q.op = "upload" =>
         \E up \in UploadInput : /\ up \cap q.snap.content.files = {}
                                 /\ q.files \in Stored(q.snap.content.files, up)
    /\ q.op = "detach" => \E f \in q.snap.content.files : q.files = {f}
    /\ q.op = "comment" => q.snap.comments[q.comment] = "absent"
    /\ q.op = "resolve" => q.snap.comments[q.comment] # "absent"

\* The row stands still while the only request works.
Held == \A r \in Request : \/ inflight[r] = Idle
                           \/ inflight[r].snap = row /\ Bounded(inflight[r])

OneAtATime == /\ \E r : Request = {r}
              /\ {} \in UploadInput
              /\ IsFiniteSet(File)

\* What begins is within the bounds.
LEMMA BeginBounded ==
    ASSUME IInv, NEW r \in Request,
           \/ LoadAction(r) \/ LoadEdit(r) \/ LoadUpload(r) \/ LoadDetach(r)
           \/ LoadDelete(r) \/ LoadComment(r)
    PROVE  \E q : Begin(r, q) /\ q.snap = row /\ Bounded(q)
<1>1. CASE LoadAction(r)
  <2>1. PICK u \in User, op \in Actions :
          /\ op \in {"resubmit", "reopen"} => row.revision < MaxRevision
          /\ op \in {"publish", "confirm_review"} => Len(row.cycles) < MaxCycles
          /\ Begin(r, [op |-> op, user |-> u, snap |-> row])
    BY <1>1 DEF LoadAction
  <2> DEFINE q == [op |-> op, user |-> u, snap |-> row]
  <2>2. q.op = op /\ q.snap = row
    OBVIOUS
  <2>3. Begin(r, q)
    BY <2>1
  <2> HIDE DEF q
  <2>4. Bounded(q)
    BY <2>1, <2>2 DEF Bounded, Actions
  <2> QED
    BY <2>2, <2>3, <2>4
<1>2. CASE LoadEdit(r)
  <2>1. PICK u \in User, f \in FormInput, intent \in {"save", "submit", "resubmit"} :
          /\ intent = "resubmit" => row.revision < MaxRevision
          /\ Begin(r, [op |-> "edit", user |-> u, snap |-> row,
                       form |-> f, intent |-> intent])
    BY <1>2 DEF LoadEdit
  <2> DEFINE q == [op |-> "edit", user |-> u, snap |-> row, form |-> f,
                   intent |-> intent]
  <2>2. /\ q.op = "edit" /\ q.snap = row
        /\ q.form = f /\ q.intent = intent
    OBVIOUS
  <2>3. Begin(r, q)
    BY <2>1
  <2> HIDE DEF q
  <2>4. Bounded(q)
    BY <2>1, <2>2 DEF Bounded
  <2> QED
    BY <2>2, <2>3, <2>4
<1>3. CASE LoadUpload(r)
  <2>1. PICK u \in User, up \in UploadInput :
          /\ up \cap row.content.files = {}
          /\ \E files \in Stored(row.content.files, up) :
             Begin(r, [op |-> "upload", user |-> u, snap |-> row, files |-> files])
    BY <1>3 DEF LoadUpload
  <2>2. PICK files \in Stored(row.content.files, up) :
             Begin(r, [op |-> "upload", user |-> u, snap |-> row, files |-> files])
    BY <2>1
  <2> DEFINE q == [op |-> "upload", user |-> u, snap |-> row, files |-> files]
  <2>3. /\ q.op = "upload" /\ q.snap = row
        /\ q.files = files
    OBVIOUS
  <2>4. Begin(r, q)
    BY <2>2
  <2> HIDE DEF q
  <2>5. Bounded(q)
    BY <2>1, <2>2, <2>3 DEF Bounded
  <2> QED
    BY <2>3, <2>4, <2>5
<1>4. CASE LoadDetach(r)
  <2>1. PICK u \in User, f \in row.content.files :
          Begin(r, [op |-> "detach", user |-> u, snap |-> row, files |-> {f}])
    BY <1>4 DEF LoadDetach
  <2> DEFINE q == [op |-> "detach", user |-> u, snap |-> row, files |-> {f}]
  <2>2. /\ q.op = "detach" /\ q.snap = row
        /\ q.files = {f}
    OBVIOUS
  <2>3. Begin(r, q)
    BY <2>1
  <2> HIDE DEF q
  <2>4. Bounded(q)
    BY <2>1, <2>2 DEF Bounded
  <2> QED
    BY <2>2, <2>3, <2>4
<1>5. CASE LoadDelete(r)
  <2>1. PICK u \in User : Begin(r, [op |-> "delete", user |-> u, snap |-> row])
    BY <1>5 DEF LoadDelete
  <2> DEFINE q == [op |-> "delete", user |-> u, snap |-> row]
  <2>2. q.op = "delete" /\ q.snap = row
    OBVIOUS
  <2>3. Begin(r, q)
    BY <2>1
  <2> HIDE DEF q
  <2>4. Bounded(q)
    BY <2>2 DEF Bounded
  <2> QED
    BY <2>2, <2>3, <2>4
<1>6. CASE LoadComment(r)
  <2>1. PICK u \in User, c \in CommentId, op \in {"comment", "resolve"} :
          /\ op = "comment" => row.comments[c] = "absent"
          /\ op = "resolve" => row.comments[c] # "absent"
          /\ Begin(r, [op |-> op, user |-> u, snap |-> row, comment |-> c])
    BY <1>6 DEF LoadComment
  <2> DEFINE q == [op |-> op, user |-> u, snap |-> row, comment |-> c]
  <2>2. /\ q.op = op /\ q.snap = row
        /\ q.comment = c
    OBVIOUS
  <2>3. Begin(r, q)
    BY <2>1
  <2> HIDE DEF q
  <2>4. Bounded(q)
    BY <2>1, <2>2 DEF Bounded
  <2> QED
    BY <2>2, <2>3, <2>4
<1> QED
  BY <1>1, <1>2, <1>3, <1>4, <1>5, <1>6

\* The row does not move under the request, which stays within its bounds.
LEMMA HeldStep ==
    ASSUME IInv, Held, OneAtATime, [Next]_vars
    PROVE  Held'
<1>1. CASE UNCHANGED vars
  BY <1>1 DEF vars, Held, Bounded
<1>2. CASE Next
  <2> PICK r \in Request :
        \/ LoadAction(r) \/ LoadEdit(r) \/ LoadUpload(r) \/ LoadDetach(r)
        \/ LoadDelete(r) \/ LoadComment(r) \/ Commit(r) \/ Abandon(r)
    BY <1>2 DEF Next
  <2>0. Request = {r} /\ inflight = [i \in Request |-> inflight[i]]
    BY DEF OneAtATime, IInv, Loads
  <2>1. CASE Commit(r) \/ Abandon(r)
    <3>1. inflight' = [inflight EXCEPT ![r] = Idle]
      BY <2>1 DEF Commit, Abandon
    <3>2. inflight'[r] = Idle
      BY <2>0, <3>1
    <3> QED
      BY <2>0, <3>2 DEF Held
  <2>2. CASE ~(Commit(r) \/ Abandon(r))
    <3>1. PICK q : Begin(r, q) /\ q.snap = row /\ Bounded(q)
      BY <2>2, BeginBounded
    <3>2. inflight' = [inflight EXCEPT ![r] = q] /\ row' = row
      BY <3>1 DEF Begin
    <3>3. inflight'[r] = q
      BY <2>0, <3>2
    <3>4. \A i \in Request : inflight'[i].snap = row' /\ Bounded(inflight'[i])
      BY <2>0, <3>1, <3>2, <3>3
    <3> QED
      BY <3>4 DEF Held
  <2> QED
    BY <2>1, <2>2
<1> QED
  BY <1>1, <1>2

\* So a commit is the request of Workflow whose handler it ran.
LEMMA CommitIsStep ==
    ASSUME IInv, Held, OneAtATime, NEW r \in Request, Commit(r)
    PROVE  Serial!Next
<1> DEFINE q == inflight[r]
           u == q.user
           n == lastRef + 1
           t == Result(q, row, n)
<1>1. n \in Nat /\ row \in Submission
  BY DEF IInv, TypeOK
<1>2. Fine(q) /\ q.snap = row /\ Bounded(q) /\ u \in User
  BY DEF Commit, Held, IInv, Loads, Fine
<1>3. /\ row' = Merged(row, row, t, q.op = "edit")
      /\ lastRef' = IF t.ref = row.ref THEN lastRef ELSE n
  BY <1>2 DEF Commit
<1> HIDE DEF q, n, t
<1>4. row' = t
  BY <1>1, <1>2, <1>3, MergedAlone DEF t
<1>5. q.op # "edit" => lastRef' = lastRef
  BY <1>1, <1>2, <1>3, ResultLeaves DEF t
<1>6. CASE q.op = "claim"
  <2>1. Acts(u, row) /\ CanClaim(u, row) /\ t = Claimed(row, u)
    BY <1>2, <1>6 DEF Fine, Allowed, Result, t
  <2>2. Serial!Claim(u)
    BY <1>4, <1>5, <1>6, <2>1, SameGuards, SameHandlers DEF Acts, Serial!Claim,
       Serial!Acting, Serial!Loaded, Serial!Write
  <2> QED
    BY <1>2, <2>2 DEF Serial!Next
<1>7. CASE q.op = "request_updates"
  <2>1. Acts(u, row) /\ CanRequestUpdates(u, row) /\ t = UpdatesRequested(row)
    BY <1>2, <1>7 DEF Fine, Allowed, Result, t
  <2>2. Serial!RequestUpdates(u)
    BY <1>4, <1>5, <1>7, <2>1, SameGuards, SameHandlers DEF Acts, Serial!RequestUpdates,
       Serial!Acting, Serial!Loaded, Serial!Write
  <2> QED
    BY <1>2, <2>2 DEF Serial!Next
<1>8. CASE q.op = "resubmit"
  <2>1. /\ Acts(u, row) /\ MayResubmit(u, row) /\ t = Resubmitted(row)
        /\ row.revision < MaxRevision
    BY <1>2, <1>8 DEF Fine, Allowed, Result, Bounded, t
  <2>2. Serial!Resubmit(u)
    BY <1>4, <1>5, <1>8, <2>1, SameGuards, SameHandlers DEF Acts, Serial!Resubmit,
       Serial!Acting, Serial!Loaded, Serial!Write
  <2> QED
    BY <1>2, <2>2 DEF Serial!Next
<1>9. CASE q.op = "complete_review"
  <2>1. Acts(u, row) /\ MayCompleteReview(u, row) /\ t = ReviewCompleted(row)
    BY <1>2, <1>9 DEF Fine, Allowed, Result, t
  <2>2. Serial!CompleteReview(u)
    BY <1>4, <1>5, <1>9, <2>1, SameGuards, SameHandlers DEF Acts, Serial!CompleteReview,
       Serial!Acting, Serial!Loaded, Serial!Write
  <2> QED
    BY <1>2, <2>2 DEF Serial!Next
<1>10. CASE q.op = "approve"
  <2>1. Acts(u, row) /\ CanDecideApproval(u, row) /\ t = Approved(row, u)
    BY <1>2, <1>10 DEF Fine, Allowed, Result, t
  <2>2. Serial!Approve(u)
    BY <1>4, <1>5, <1>10, <2>1, SameGuards, SameHandlers DEF Acts, Serial!Approve,
       Serial!Acting, Serial!Loaded, Serial!Write
  <2> QED
    BY <1>2, <2>2 DEF Serial!Next
<1>11. CASE q.op = "reject"
  <2>1. Acts(u, row) /\ CanDecideApproval(u, row) /\ t = Rejected(row, u)
    BY <1>2, <1>11 DEF Fine, Allowed, Result, t
  <2>2. Serial!Reject(u)
    BY <1>4, <1>5, <1>11, <2>1, SameGuards, SameHandlers DEF Acts, Serial!Reject,
       Serial!Acting, Serial!Loaded, Serial!Write
  <2> QED
    BY <1>2, <2>2 DEF Serial!Next
<1>12. CASE q.op = "confirm_ready"
  <2>1. Acts(u, row) /\ CanConfirmReady(u, row) /\ t = ReadyConfirmed(row)
    BY <1>2, <1>12 DEF Fine, Allowed, Result, t
  <2>2. Serial!ConfirmReady(u)
    BY <1>4, <1>5, <1>12, <2>1, SameGuards, SameHandlers DEF Acts, Serial!ConfirmReady,
       Serial!Acting, Serial!Loaded, Serial!Write
  <2> QED
    BY <1>2, <2>2 DEF Serial!Next
<1>13. CASE q.op = "publish"
  <2>1. /\ Acts(u, row) /\ CanPublish(u, row) /\ t = Published(row)
        /\ Len(row.cycles) < MaxCycles
    BY <1>2, <1>13 DEF Fine, Allowed, Result, Bounded, t
  <2>2. Serial!Publish(u)
    BY <1>4, <1>5, <1>13, <2>1, SameGuards, SameHandlers DEF Acts, Serial!Publish,
       Serial!Acting, Serial!Loaded, Serial!Write
  <2> QED
    BY <1>2, <2>2 DEF Serial!Next
<1>14. CASE q.op = "reopen"
  <2>1. /\ Acts(u, row) /\ CanReopen(u, row) /\ t = Reopened(row)
        /\ row.revision < MaxRevision
    BY <1>2, <1>14 DEF Fine, Allowed, Result, Bounded, t
  <2>2. Serial!Reopen(u)
    BY <1>4, <1>5, <1>14, <2>1, SameGuards, SameHandlers DEF Acts, Serial!Reopen,
       Serial!Acting, Serial!Loaded, Serial!Write
  <2> QED
    BY <1>2, <2>2 DEF Serial!Next
<1>15. CASE q.op = "withdraw"
  <2>1. Acts(u, row) /\ CanWithdraw(u, row) /\ t = Withdrawn(row)
    BY <1>2, <1>15 DEF Fine, Allowed, Result, t
  <2>2. Serial!Withdraw(u)
    BY <1>4, <1>5, <1>15, <2>1, SameGuards, SameHandlers DEF Acts, Serial!Withdraw,
       Serial!Acting, Serial!Loaded, Serial!Write
  <2> QED
    BY <1>2, <2>2 DEF Serial!Next
<1>16. CASE q.op = "confirm_review"
  <2>1. /\ Acts(u, row) /\ CanConfirmReview(u, row) /\ t = ReviewConfirmed(row)
        /\ Len(row.cycles) < MaxCycles
    BY <1>2, <1>16 DEF Fine, Allowed, Result, Bounded, t
  <2>2. Serial!ConfirmReview(u)
    BY <1>4, <1>5, <1>16, <2>1, SameGuards, SameHandlers DEF Acts, Serial!ConfirmReview,
       Serial!Acting, Serial!Loaded, Serial!Write
  <2> QED
    BY <1>2, <2>2 DEF Serial!Next
<1>17. CASE q.op = "edit"
  <2>1. /\ ~row.archived /\ CanEdit(u, row)
        /\ t = Saved(u, row, q.form, {}, row.content.files, q.intent, n)
        /\ q.form \in FormInput /\ q.intent \in {"save", "submit", "resubmit"}
        /\ q.intent = "resubmit" => row.revision < MaxRevision
    BY <1>2, <1>17 DEF Fine, Allowed, Result, Bounded, t
  <2>2. row.content.files \in Serial!Stored(row.content.files, {})
    <3>1. row.content.files \in SUBSET File
      BY <1>1 DEF Submission, Content
    <3>2. row.content.files \in Stored(row.content.files, {})
      BY <3>1, NothingStored DEF OneAtATime
    <3> QED
      BY <3>2, SameForm
  <2>3. row' = Serial!Saved(u, row, q.form, {}, row.content.files, q.intent, lastRef + 1)
    BY <1>4, <2>1, SameForm DEF n
  <2>4. lastRef' = Serial!Minted(q.intent, row, row')
    BY <1>3, <1>4 DEF Serial!Minted, n
  <2>5. {} \in {x \in UploadInput : x \cap row.content.files = {}}
    BY DEF OneAtATime
  <2>6. Serial!CanEdit(u, row)
    BY <2>1, SameGuards
  <2>7. Serial!Edit(u)
    BY <2>1, <2>2, <2>3, <2>4, <2>5, <2>6 DEF Serial!Edit, Serial!Loaded
  <2> QED
    BY <1>2, <2>7 DEF Serial!Next
<1>18. CASE q.op = "upload"
  <2>1. /\ ~row.archived /\ CanEdit(u, row)
        /\ t = [row EXCEPT !.content.files = q.files]
    BY <1>2, <1>18 DEF Fine, Allowed, Result, t
  <2>2. PICK up \in UploadInput : /\ up \cap row.content.files = {}
                                  /\ q.files \in Stored(row.content.files, up)
    BY <1>2, <1>18 DEF Bounded
  <2>3. q.files \in Serial!Stored(row.content.files, up)
    BY <2>2, SameForm
  <2>4. Serial!Write([row EXCEPT !.content.files = q.files])
    BY <1>4, <1>5, <1>18, <2>1 DEF Serial!Write
  <2>5. Serial!CanEdit(u, row)
    BY <2>1, SameGuards
  <2>6. Serial!Upload(u)
    BY <2>1, <2>2, <2>3, <2>4, <2>5 DEF Serial!Upload, Serial!Loaded
  <2> QED
    BY <1>2, <2>6 DEF Serial!Next
<1>19. CASE q.op = "detach"
  <2>1. /\ ~row.archived /\ CanEdit(u, row)
        /\ t = [row EXCEPT !.content.files = row.content.files \ q.files]
    BY <1>2, <1>19 DEF Fine, Allowed, Result, t
  <2>2. PICK f \in row.content.files : q.files = {f}
    BY <1>2, <1>19 DEF Bounded
  <2>3. Serial!Write([row EXCEPT !.content.files = @ \ {f}])
    BY <1>4, <1>5, <1>19, <2>1, <2>2 DEF Serial!Write
  <2>4. Serial!CanEdit(u, row)
    BY <2>1, SameGuards
  <2>5. Serial!DeleteAttachment(u)
    BY <2>1, <2>3, <2>4 DEF Serial!DeleteAttachment, Serial!Loaded
  <2> QED
    BY <1>2, <2>5 DEF Serial!Next
<1>20. CASE q.op = "comment"
  <2>1. /\ ~row.archived /\ CanComment(u, row) /\ IsStaff(u)
        /\ t = [row EXCEPT !.comments[q.comment] = "open"]
        /\ q.comment \in CommentId /\ row.comments[q.comment] = "absent"
    BY <1>2, <1>20 DEF Fine, Allowed, Result, Bounded, t
  <2>2. Serial!Write([row EXCEPT !.comments[q.comment] = "open"])
    BY <1>4, <1>5, <1>20, <2>1 DEF Serial!Write
  <2>3. Serial!CanComment(u, row) /\ Serial!IsStaff(u)
    BY <2>1, SameGuards, SamePolicy
  <2>4. Serial!AddBlockingComment(u)
    BY <2>1, <2>2, <2>3 DEF Serial!AddBlockingComment, Serial!Loaded
  <2> QED
    BY <1>2, <2>4 DEF Serial!Next
<1>21. CASE q.op = "resolve"
  <2>1. /\ IsStaff(u) \/ IsContact(u, row)
        /\ t = [row EXCEPT !.comments[q.comment] =
                  IF @ = "resolved" THEN "open" ELSE "resolved"]
        /\ q.comment \in CommentId /\ row.comments[q.comment] # "absent"
    BY <1>2, <1>21 DEF Fine, Allowed, Result, Bounded, t
  <2>2. Serial!Write([row EXCEPT !.comments[q.comment] =
                        IF @ = "resolved" THEN "open" ELSE "resolved"])
    BY <1>4, <1>5, <1>21, <2>1 DEF Serial!Write
  <2>3. Serial!IsStaff(u) \/ Serial!IsContact(u, row)
    BY <2>1, SamePolicy
  <2>4. ~row.archived
    BY <1>2, <1>21 DEF Fine, Allowed
  <2>5. Serial!ResolveComment(u)
    BY <2>1, <2>2, <2>3, <2>4 DEF Serial!ResolveComment, Serial!Loaded
  <2> QED
    BY <1>2, <2>5 DEF Serial!Next
<1>22. CASE q.op = "delete"
  <2>1. ~row.archived /\ CanDelete(u, row) /\ t = Deleted(row)
    BY <1>2, <1>22 DEF Fine, Allowed, Result, t
  <2>2. Serial!DeleteSubmission(u)
    BY <1>4, <1>5, <1>22, <2>1, SameGuards, SameHandlers DEF
       Serial!DeleteSubmission, Serial!Loaded, Serial!Write
  <2> QED
    BY <1>2, <2>2 DEF Serial!Next
<1> QED
  BY <1>2, <1>6, <1>7, <1>8, <1>9, <1>10, <1>11, <1>12, <1>13, <1>14, <1>15,
     <1>16, <1>17, <1>18, <1>19, <1>20, <1>21, <1>22 DEF Fine, Ops, Actions

\* A record begins as one of Workflow without attachments.
LEMMA InitIsInit ==
    ASSUME Init, OneAtATime
    PROVE  Serial!Init /\ Held
<1>1. PICK u \in User, f \in FormInput :
        LET e == Edited(New(u), f, {}) IN
         \/ row = e /\ lastRef = 0
         \/ /\ f.clean /\ Complete(e.content)
            /\ row = Submitted(e, 1) /\ lastRef = 1
  BY DEF Init
<1> DEFINE e == Edited(New(u), f, {})
<1>2. e = Serial!Edited(Serial!New(u), f, {})
  BY SameForm, SameHandlers
<1>3. {} \in UploadInput /\ {} \in Serial!Stored({}, {})
  BY NothingStored, SameForm DEF OneAtATime
<1> HIDE DEF e
<1>4. CASE row = e /\ lastRef = 0
  <2>1. Serial!CreateDraft(u)
    BY <1>2, <1>3, <1>4 DEF Serial!CreateDraft
  <2> QED
    BY <1>4, <2>1 DEF Serial!Init, Init, Held
<1>5. CASE f.clean /\ Complete(e.content) /\ row = Submitted(e, 1) /\ lastRef = 1
  <2>1. Serial!Complete(e.content) /\ row = Serial!Submitted(e, 1)
    BY <1>5, SameGuards, SameHandlers
  <2>2. Serial!Fits({}, {})
    <3>1. Cardinality({}) = 0
      BY FS_EmptySet
    <3>2. Fits({}, {})
      BY <3>1, LifecycleAssumption DEF Fits
    <3> QED
      BY <3>2 DEF Fits, Serial!Fits, Cardinality, Serial!Cardinality
  <2>3. Serial!CreateSubmitted(u)
    BY <1>2, <1>3, <1>5, <2>1, <2>2 DEF Serial!CreateSubmitted
  <2> QED
    BY <1>5, <2>3 DEF Serial!Init, Init, Held
<1> QED
  BY <1>1, <1>4, <1>5 DEF e

\* When requests do not overlap, the transactions do what Workflow says: its
\* theorems are then theorems about the program as it runs.
THEOREM SerialIsWorkflow == OneAtATime => (Spec => ImplementsWorkflow)
<1> SUFFICES ASSUME OneAtATime PROVE Spec => ImplementsWorkflow
  OBVIOUS
<1>1. Init => Serial!Init /\ Held
  BY InitIsInit
<1>2. IInv /\ Held /\ [Next]_vars => Held' /\ [Serial!Next]_Serial!vars
  <2> SUFFICES ASSUME IInv, Held, [Next]_vars
               PROVE  Held' /\ [Serial!Next]_Serial!vars
    OBVIOUS
  <2>1. Held'
    BY HeldStep
  <2>2. CASE UNCHANGED vars
    BY <2>1, <2>2 DEF vars, Serial!vars
  <2>3. CASE Next
    <3> PICK r \in Request :
          \/ LoadAction(r) \/ LoadEdit(r) \/ LoadUpload(r) \/ LoadDetach(r)
          \/ LoadDelete(r) \/ LoadComment(r) \/ Commit(r) \/ Abandon(r)
      BY <2>3 DEF Next
    <3>1. CASE Commit(r)
      BY <2>1, <3>1, CommitIsStep
    <3>2. CASE ~Commit(r)
      <4>1. Loading(r)
        BY <3>2, LoadsOnly DEF IInv
      <4> QED
        BY <2>1, <4>1 DEF Loading, Serial!vars
    <3> QED
      BY <3>1, <3>2
  <2> QED
    BY <2>2, <2>3
<1> QED
  BY <1>1, <1>2, Invariance, PTL DEF Spec, ImplementsWorkflow, Serial!Spec
=============================================================================
