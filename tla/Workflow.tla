------------------------------ MODULE Workflow ------------------------------
(***************************************************************************)
(* The life of one submission when its requests run one after another:     *)
(* every action is a whole request, from loading the row to the commit.    *)
(* A request the code refuses (403, 404 or a WorkflowError and a rollback) *)
(* changes nothing and is a stuttering step.                               *)
(***************************************************************************)
EXTENDS Lifecycle

CONSTANTS
    FormInput,    \* the forms people post
    UploadInput,  \* the sets of files they attach to one request
    MaxRevision,  \* bound of the model: revisions of the record
    MaxCycles     \* bound of the model: review cycles opened

ASSUME WorkflowAssumption ==
    /\ FormInput \subseteq Form
    /\ UploadInput \subseteq SUBSET File
    /\ MaxRevision \in Nat
    /\ MaxCycles \in Nat

VARIABLES
    sub,     \* the submission
    lastRef  \* reference_sequences.last_value

vars == <<sub, lastRef>>

-----------------------------------------------------------------------------
\* create: the record is stored as a draft, or submitted at once; a posted
\* submission with errors is rolled back and leaves no record behind.
CreateDraft(u) ==
    \E f \in FormInput, up \in UploadInput :
        \E files \in Stored({}, up) : sub = Edited(New(u), f, files)

CreateSubmitted(u) ==
    \E f \in FormInput, up \in UploadInput :
        LET e == Edited(New(u), f, up) IN
        /\ f.clean /\ Fits({}, up) /\ Complete(e.content)
        /\ sub = Submitted(e, 1)

Init == \E u \in User : \/ CreateDraft(u) /\ lastRef = 0
                        \/ CreateSubmitted(u) /\ lastRef = 1

-----------------------------------------------------------------------------
Write(s) == sub' = s /\ UNCHANGED lastRef

\* An archived record is not found by any request.
Loaded == ~sub.archived

\* The action endpoint also refuses people who may not see the record.
Acting(u) == Loaded /\ CanView(u, sub)

\* The counter moves only when the record takes its number.
\* Mutant: the number is taken when the owner asks to submit.
MintedOnRequest(intent, s, t) ==
    IF intent = "submit" /\ s.ref = 0 THEN lastRef + 1 ELSE lastRef

Minted(intent, s, t) == IF t.ref = s.ref THEN lastRef ELSE lastRef + 1

Edit(u) ==
    /\ Loaded
    /\ CanEdit(u, sub)
    /\ \E f \in FormInput, intent \in {"save", "submit", "resubmit"},
          up \in {x \in UploadInput : x \cap sub.content.files = {}} :
         /\ intent = "resubmit" => sub.revision < MaxRevision
         /\ \E files \in Stored(sub.content.files, up) :
              sub' = Saved(u, sub, f, up, files, intent, lastRef + 1)
         /\ lastRef' = Minted(intent, sub, sub')

Upload(u) ==
    /\ Loaded
    /\ CanEdit(u, sub)
    /\ \E up \in {x \in UploadInput : x \cap sub.content.files = {}} :
         \E files \in Stored(sub.content.files, up) :
           Write([sub EXCEPT !.content.files = files])

DeleteAttachment(u) ==
    /\ Loaded
    /\ CanEdit(u, sub)
    /\ \E f \in sub.content.files :
         Write([sub EXCEPT !.content.files = @ \ {f}])

DeleteSubmission(u) == Loaded /\ CanDelete(u, sub) /\ Write(Deleted(sub))

\* Only a comment of staff can block; other comments change nothing here.
AddBlockingComment(u) ==
    /\ Loaded
    /\ CanComment(u, sub) /\ IsStaff(u)
    /\ \E c \in CommentId : /\ sub.comments[c] = "absent"
                            /\ Write([sub EXCEPT !.comments[c] = "open"])

\* Resolving is a toggle, in every status.
ResolveComment(u) ==
    /\ Loaded
    /\ IsStaff(u) \/ IsContact(u, sub)
    /\ \E c \in CommentId :
         /\ sub.comments[c] # "absent"
         /\ Write([sub EXCEPT !.comments[c] =
                     IF @ = "resolved" THEN "open" ELSE "resolved"])

-----------------------------------------------------------------------------
Claim(u) == Acting(u) /\ CanClaim(u, sub) /\ Write(Claimed(sub, u))

RequestUpdates(u) ==
    Acting(u) /\ CanRequestUpdates(u, sub) /\ Write(UpdatesRequested(sub))

Resubmit(u) ==
    /\ Acting(u) /\ MayResubmit(u, sub)
    /\ sub.revision < MaxRevision
    /\ Write(Resubmitted(sub))

CompleteReview(u) ==
    Acting(u) /\ MayCompleteReview(u, sub) /\ Write(ReviewCompleted(sub))

Approve(u) == Acting(u) /\ CanDecideApproval(u, sub) /\ Write(Approved(sub, u))

Reject(u) == Acting(u) /\ CanDecideApproval(u, sub) /\ Write(Rejected(sub, u))

ConfirmReady(u) ==
    Acting(u) /\ CanConfirmReady(u, sub) /\ Write(ReadyConfirmed(sub))

Publish(u) ==
    /\ Acting(u) /\ CanPublish(u, sub)
    /\ Len(sub.cycles) < MaxCycles
    /\ Write(Published(sub))

Reopen(u) ==
    /\ Acting(u) /\ CanReopen(u, sub)
    /\ sub.revision < MaxRevision
    /\ Write(Reopened(sub))

Withdraw(u) == Acting(u) /\ CanWithdraw(u, sub) /\ Write(Withdrawn(sub))

ConfirmReview(u) ==
    /\ Acting(u) /\ CanConfirmReview(u, sub)
    /\ Len(sub.cycles) < MaxCycles
    /\ Write(ReviewConfirmed(sub))

Next == \E u \in User :
    \/ Edit(u) \/ Upload(u) \/ DeleteAttachment(u) \/ DeleteSubmission(u)
    \/ AddBlockingComment(u) \/ ResolveComment(u)
    \/ Claim(u) \/ RequestUpdates(u) \/ Resubmit(u) \/ CompleteReview(u)
    \/ Approve(u) \/ Reject(u) \/ ConfirmReady(u) \/ Publish(u)
    \/ Reopen(u) \/ Withdraw(u) \/ ConfirmReview(u)

Spec == Init /\ [][Next]_vars

-----------------------------------------------------------------------------
(* Properties.                                                             *)

\* The record and the counter stay within their types.
TypeOK == sub \in Submission /\ lastRef \in Nat

\* A record the catalogue shows was approved in its current revision, and
\* that approval is both the newest version (what the catalogue page renders)
\* and the one approved_version_id names.
CatalogueIsApproved ==
    sub.status \in CatalogueStatuses =>
        /\ sub.approvedVersion = Len(sub.versions)
        /\ sub.approvedVersion \in DOMAIN sub.versions
        /\ sub.versions[sub.approvedVersion].revision = sub.revision

\* Exactly one review cycle is open while the record is published: over
\* confirmations, and over reopenings and the publication of the next revision,
\* no cycle stays open beside its successor. When the old one is closed, at the
\* reopening (as it is) or at the publication (as the documents have it), is left
\* open here.
OneOpenCycle ==
    sub.status = "published" => \E i \in DOMAIN sub.cycles : OpenCycles(sub) = {i}

\* A revision is decided at most once: no revision is approved twice, or
\* approved after it was rejected; a decision is only revisited in a newer one.
OneDecisionPerRevision ==
    \A i, j \in DOMAIN sub.decisions :
        i < j => sub.decisions[i].revision < sub.decisions[j].revision

\* Nobody appears both as the approver of a stored version and as a contact
\* of the record in it, admins included.
DutiesSeparated ==
    \A i \in DOMAIN sub.versions :
        sub.versions[i].approver \notin
            {sub.creator} \union sub.versions[i].content.owners

\* Every number the counter gave out is the number of the record: whatever is
\* edited, withdrawn and reopened, a record is numbered at most once.
NoNumberLost == 1..lastRef = {sub.ref} \ {0}

\* Without admins, what the export package holds of a catalogue record is what
\* its approver saw: no edit, upload or deletion gets past the approval.
ApprovedContentFrozen ==
    CatalogueVisible(sub) =>
        sub.content = sub.versions[sub.approvedVersion].content

\* Without admins, a record whose review was completed stays complete until it
\* leaves the approval and publishing stages.
ReviewedIsComplete ==
    sub.status \in {"awaiting_approval"} \union CatalogueStatuses /\ ~sub.archived =>
        Complete(sub.content)

\* The books behind the two invariants above: approved_version_id always names
\* the newest version, no decision is of a later revision than the record's, and
\* a record that awaits a decision has none in its revision yet.
Undecided == {"draft", "submitted", "under_review", "updates_required",
              "awaiting_approval"}
BooksKept ==
    /\ sub.approvedVersion = Len(sub.versions)
    /\ \A i \in DOMAIN sub.decisions :
         /\ sub.decisions[i].revision <= sub.revision
         /\ sub.status \in Undecided =>
              sub.decisions[i].revision < sub.revision
=============================================================================
