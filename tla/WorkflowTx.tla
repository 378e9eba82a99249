----------------------------- MODULE WorkflowTx -----------------------------
(***************************************************************************)
(* The same requests as they really run: several at once, in two worker    *)
(* processes, each in a READ COMMITTED transaction that loads the record,  *)
(* decides on what it loaded and commits later. The row is neither locked  *)
(* nor versioned while a request waits for its form or its turn. A commit  *)
(* writes the columns and child rows the handler changed, on top of what   *)
(* others committed since. (The first flush takes the row lock and holds   *)
(* it to the commit, so the flushes and the commit are one step.)          *)
(***************************************************************************)
EXTENDS Lifecycle

CONSTANTS
    Request,      \* identities of the requests that can be in flight
    FormInput, UploadInput, MaxRevision, MaxCycles,  \* as in Workflow
    MaxMinted,    \* bound of the model: reference numbers given out
    MaxDecisions  \* bound of the model: approvals and rejections recorded

ASSUME WorkflowTxAssumption ==
    /\ FormInput \subseteq Form
    /\ UploadInput \subseteq SUBSET File
    /\ {MaxRevision, MaxCycles, MaxMinted, MaxDecisions} \subseteq Nat

VARIABLES
    row,      \* the committed submission
    lastRef,  \* reference_sequences.last_value
    inflight  \* what each request is doing on which snapshot, or Idle

vars == <<row, lastRef, inflight>>

Idle == [op |-> "idle"]

Actions == {"claim", "request_updates", "resubmit", "complete_review",
            "approve", "reject", "confirm_ready", "publish", "reopen",
            "withdraw", "confirm_review"}

-----------------------------------------------------------------------------
(* What a request r may do on record s, and what it makes of it.           *)

\* Mutant: an archived record is found all the same.
ActsOnArchived(u, s) == CanView(u, s)

Acts(u, s) == ~s.archived /\ CanView(u, s)

Allowed(r, s) ==
    CASE r.op = "claim"           -> Acts(r.user, s) /\ CanClaim(r.user, s)
      [] r.op = "request_updates" -> Acts(r.user, s) /\ CanRequestUpdates(r.user, s)
      [] r.op = "resubmit"        -> Acts(r.user, s) /\ MayResubmit(r.user, s)
      [] r.op = "complete_review" -> Acts(r.user, s) /\ MayCompleteReview(r.user, s)
      [] r.op \in {"approve", "reject"} ->
                                     Acts(r.user, s) /\ CanDecideApproval(r.user, s)
      [] r.op = "confirm_ready"   -> Acts(r.user, s) /\ CanConfirmReady(r.user, s)
      [] r.op = "publish"         -> Acts(r.user, s) /\ CanPublish(r.user, s)
      [] r.op = "reopen"          -> Acts(r.user, s) /\ CanReopen(r.user, s)
      [] r.op = "withdraw"        -> Acts(r.user, s) /\ CanWithdraw(r.user, s)
      [] r.op = "confirm_review"  -> Acts(r.user, s) /\ CanConfirmReview(r.user, s)
      [] r.op \in {"edit", "upload", "detach"} -> ~s.archived /\ CanEdit(r.user, s)
      [] r.op = "comment" -> ~s.archived /\ CanComment(r.user, s) /\ IsStaff(r.user)
      [] r.op = "resolve" -> ~s.archived /\ (IsStaff(r.user) \/ IsContact(r.user, s))
      [] r.op = "delete"  -> ~s.archived /\ CanDelete(r.user, s)

Result(r, s, n) ==
    CASE r.op = "claim"           -> Claimed(s, r.user)
      [] r.op = "request_updates" -> UpdatesRequested(s)
      [] r.op = "resubmit"        -> Resubmitted(s)
      [] r.op = "complete_review" -> ReviewCompleted(s)
      [] r.op = "approve"         -> Approved(s, r.user)
      [] r.op = "reject"          -> Rejected(s, r.user)
      [] r.op = "confirm_ready"   -> ReadyConfirmed(s)
      [] r.op = "publish"         -> Published(s)
      [] r.op = "reopen"          -> Reopened(s)
      [] r.op = "withdraw"        -> Withdrawn(s)
      [] r.op = "confirm_review"  -> ReviewConfirmed(s)
      [] r.op = "edit"            ->
             Saved(r.user, s, r.form, {}, s.content.files, r.intent, n)
      [] r.op = "upload"  -> [s EXCEPT !.content.files = r.files]
      [] r.op = "detach"  -> [s EXCEPT !.content.files = @ \ r.files]
      [] r.op = "comment" -> [s EXCEPT !.comments[r.comment] = "open"]
      [] r.op = "resolve" -> [s EXCEPT !.comments[r.comment] =
                                  IF @ = "resolved" THEN "open" ELSE "resolved"]
      [] r.op = "delete"  -> Deleted(s)

-----------------------------------------------------------------------------
(* The unit of work: only what differs from the loaded record is written.  *)

Dirty(old, loaded, new) == IF new = loaded THEN old ELSE new

\* Rows of a table keyed by position: updates of loaded rows, then inserts.
Rows(old, loaded, new) ==
    [i \in DOMAIN old |->
        IF i \in DOMAIN loaded THEN Dirty(old[i], loaded[i], new[i]) ELSE old[i]]
      \o SubSeq(new, Len(loaded) + 1, Len(new))

\* Sets of rows: deletes of loaded rows and inserts.
Members(old, loaded, new) == (old \ (loaded \ new)) \union (new \ loaded)

\* A new version holds the content its request loaded.
\* Mutant: it is built from the row as it is at the commit.
VersionsOfRow(old, loaded, new) ==
    [i \in DOMAIN Rows(old.versions, loaded.versions, new.versions) |->
        IF i \in DOMAIN old.versions THEN old.versions[i]
        ELSE [new.versions[Len(new.versions)] EXCEPT !.content = old.content]]

VersionRows(old, loaded, new) ==
    Rows(old.versions, loaded.versions, new.versions)

\* Mutant: every column is written back, changed or not.
MergedWhole(old, loaded, new, rewritesOwners) == new

\* Mutant: whoever saves anything writes the number back.
MergedNumber(old, loaded, new, rewritesOwners) ==
    [old EXCEPT !.status   = Dirty(@, loaded.status, new.status),
                !.revision = Dirty(@, loaded.revision, new.revision),
                !.content  = Dirty(@, loaded.content, new.content),
                !.assigned = Dirty(@, loaded.assigned, new.assigned),
                !.archived = Dirty(@, loaded.archived, new.archived),
                !.ref      = new.ref]

\* The form deletes every owner row it loaded and inserts its own.
Merged(old, loaded, new, rewritesOwners) ==
    LET versions == VersionRows(old, loaded, new) IN
    [status    |-> Dirty(old.status, loaded.status, new.status),
     revision  |-> Dirty(old.revision, loaded.revision, new.revision),
     ref       |-> Dirty(old.ref, loaded.ref, new.ref),
     creator   |-> old.creator,
     content   |->
        [text   |-> Dirty(old.content.text, loaded.content.text, new.content.text),
         group  |-> Dirty(old.content.group, loaded.content.group, new.content.group),
         owners |-> IF rewritesOwners
                    THEN (old.content.owners \ loaded.content.owners)
                           \union new.content.owners
                    ELSE old.content.owners,
         ack    |-> Dirty(old.content.ack, loaded.content.ack, new.content.ack),
         files  |-> Members(old.content.files, loaded.content.files,
                            new.content.files)],
     assigned  |-> Dirty(old.assigned, loaded.assigned, new.assigned),
     approvedVersion |-> IF new.versions = loaded.versions
                         THEN old.approvedVersion ELSE Len(versions),
     versions  |-> versions,
     decisions |-> Rows(old.decisions, loaded.decisions, new.decisions),
     cycles    |-> Rows(old.cycles, loaded.cycles, new.cycles),
     comments  |-> [c \in CommentId |->
                      Dirty(old.comments[c], loaded.comments[c], new.comments[c])],
     archived  |-> Dirty(old.archived, loaded.archived, new.archived)]

-----------------------------------------------------------------------------
Init ==
    /\ \E u \in User, f \in FormInput :
         LET e == Edited(New(u), f, {}) IN
         \/ row = e /\ lastRef = 0
         \/ /\ f.clean /\ Complete(e.content)
            /\ row = Submitted(e, 1) /\ lastRef = 1
    /\ inflight = [r \in Request |-> Idle]

Begin(r, req) ==
    /\ inflight[r] = Idle
    /\ Allowed(req, row)
    /\ inflight' = [inflight EXCEPT ![r] = req]
    /\ UNCHANGED <<row, lastRef>>

\* Loading: a request that is refused on what it loaded writes nothing, so
\* only those that will go through are followed.
LoadAction(r) ==
    \E u \in User, op \in Actions :
        /\ op \in {"resubmit", "reopen"} => row.revision < MaxRevision
        /\ op \in {"publish", "confirm_review"} => Len(row.cycles) < MaxCycles
        /\ op \in {"approve", "reject"} => Len(row.decisions) < MaxDecisions
        /\ Begin(r, [op |-> op, user |-> u, snap |-> row])

\* The intents to submit and to resubmit only matter in the status they start
\* from; elsewhere they are a save.
LoadEdit(r) ==
    \E u \in User, f \in FormInput, intent \in {"save", "submit", "resubmit"} :
        /\ intent = "submit" => row.status = "draft"
        /\ intent = "resubmit" => /\ row.status = "updates_required"
                                  /\ row.revision < MaxRevision
        /\ Begin(r, [op |-> "edit", user |-> u, snap |-> row,
                     form |-> f, intent |-> intent])

\* New files and comments are new rows, never the same row in two requests.
LoadUpload(r) ==
    \E u \in User, up \in UploadInput :
        /\ up # {} /\ up \cap row.content.files = {}
        /\ \A q \in Request :
              inflight[q].op = "upload" => up \cap inflight[q].files = {}
        /\ \E files \in Stored(row.content.files, up) :
              Begin(r, [op |-> "upload", user |-> u, snap |-> row, files |-> files])

LoadDetach(r) ==
    \E u \in User, f \in row.content.files :
        Begin(r, [op |-> "detach", user |-> u, snap |-> row, files |-> {f}])

LoadDelete(r) ==
    \E u \in User : Begin(r, [op |-> "delete", user |-> u, snap |-> row])

LoadComment(r) ==
    \E u \in User, c \in CommentId :
        \/ /\ row.comments[c] = "absent"
           /\ \A q \in Request :
                 inflight[q].op = "comment" => inflight[q].comment # c
           /\ Begin(r, [op |-> "comment", user |-> u, snap |-> row, comment |-> c])
        \/ /\ row.comments[c] # "absent"
           /\ Begin(r, [op |-> "resolve", user |-> u, snap |-> row, comment |-> c])

\* The reference counter is read under its own row lock, when it is needed.
Commit(r) ==
    LET q   == inflight[r]
        new == Result(q, q.snap, lastRef + 1)
    IN  /\ q # Idle
        /\ row' = Merged(row, q.snap, new, q.op = "edit")
        /\ lastRef' = IF new.ref = q.snap.ref THEN lastRef ELSE lastRef + 1
        /\ lastRef' <= MaxMinted
        /\ Len(row'.cycles) <= MaxCycles
        /\ Len(row'.decisions) <= MaxDecisions
        /\ inflight' = [inflight EXCEPT ![r] = Idle]

\* The transaction is rolled back: the worker stops, or of two requests that
\* insert the counter row of a new year the other was first.
Abandon(r) ==
    /\ inflight[r] # Idle
    /\ inflight' = [inflight EXCEPT ![r] = Idle]
    /\ UNCHANGED <<row, lastRef>>

Next == \E r \in Request :
    \/ LoadAction(r) \/ LoadEdit(r) \/ LoadUpload(r) \/ LoadDetach(r)
    \/ LoadDelete(r) \/ LoadComment(r)
    \/ Commit(r) \/ Abandon(r)

Spec == Init /\ [][Next]_vars

-----------------------------------------------------------------------------
(* Properties. Those of this part hold whatever the requests interleave.   *)

\* The committed record stays within its types.
TypeOK == row \in Submission /\ lastRef \in Nat

\* No interleaving shows a record in the catalogue that nobody ever approved.
NeverUnapproved ==
    CatalogueVisible(row) => row.approvedVersion \in DOMAIN row.versions

\* A stored version never names its approver as a contact, although the
\* contacts of the live record may change under the approver's request.
DutiesSeparated ==
    \A i \in DOMAIN row.versions :
        row.versions[i].approver \notin
            {row.creator} \union row.versions[i].content.owners

\* From the first review on there is a named reviewer to send a resubmission or
\* a reopened record back to, although claims, resubmissions and reopenings
\* commit on records they loaded before one another.
ReviewerNamed ==
    row.status \in Status \ {"draft", "submitted", "withdrawn"} =>
        row.assigned # NoUser

\* The only way round the number that submitting assigns is to withdraw a draft
\* and have it reopened: no late commit of a claim, a withdrawal or a save puts a
\* record that is still in its first revision under way without its number.
UnnumberedWasReopened ==
    row.ref = 0 /\ row.status \notin {"draft", "withdrawn"} => row.revision > 1

\* A deleted record stays deleted, and a numbered one stays numbered, though
\* requests that loaded it before may still commit.
NeverUndone == [][/\ row.archived => row'.archived
                  /\ row.ref # 0 => row'.ref # 0]_vars

\* The numbers are gap-free, as ReferenceSequence (models.py:75) says: every number
\* the counter gave out is the number of a record. Two submissions of one draft,
\* each of which loaded it without a number, take two and keep one.
GapFree == 1..lastRef = {row.ref} \ {0}

-----------------------------------------------------------------------------
(* With one request in flight at a time.                                   *)

\* The transactions implement Workflow.
Serial == INSTANCE Workflow WITH sub <- row
ImplementsWorkflow == Serial!Spec

\* Without admins, what the export package holds of a catalogue record is what
\* its approver saw: no edit, upload or deletion gets past the approval.
ApprovedContentFrozen == Serial!ApprovedContentFrozen

\* Without admins, nothing incomplete gets past the review, whatever a save leaves
\* behind when it could not submit.
ReviewedIsComplete == Serial!ReviewedIsComplete
=============================================================================
