------------------------------- MODULE Policy -------------------------------
(***************************************************************************)
(* Authorisation of app/policy.py, over a submission record s (the fields  *)
(* are typed in Lifecycle) and the active rows of the user_roles table.    *)
(* A role row with no business group applies everywhere; a query without a *)
(* business group matches every row of the role.                           *)
(***************************************************************************)
EXTENDS Integers, FiniteSets, Sequences

CONSTANTS
    User,     \* signed-in people, by email
    Group,    \* business groups
    NoUser,   \* None in an email column
    NoGroup,  \* None in business_group_id
    RoleRow   \* the role rows that are not revoked

Role == {"reviewer", "approver", "publisher", "admin"}

ASSUME PolicyAssumption ==
    /\ NoUser \notin User
    /\ NoGroup \notin Group
    /\ RoleRow \subseteq [email: User, role: Role, group: Group \union {NoGroup}]

Status == {"draft", "submitted", "under_review", "updates_required",
           "awaiting_approval", "approved", "ready_to_publish", "published",
           "rejected", "withdrawn"}

Terminal == {"rejected", "withdrawn"}
Editable == {"draft", "submitted", "updates_required"}
CatalogueStatuses == {"approved", "ready_to_publish", "published"}

-----------------------------------------------------------------------------
HasRole(u, role, g) ==
    \E r \in RoleRow : /\ r.email = u
                       /\ r.role = role
                       /\ NoGroup \in {r.group, g} \/ r.group = g

IsAdmin(u)     == HasRole(u, "admin", NoGroup)
IsPublisher(u) == HasRole(u, "publisher", NoGroup)
IsStaff(u)     == \E role \in Role : HasRole(u, role, NoGroup)

InScope(u, role, s) == HasRole(u, role, s.content.group)

\* The recorder row carries the creator's email, so contacts are the creator
\* and the named owners.
Contacts(s) == {s.creator} \union s.content.owners
IsContact(u, s) == u \in Contacts(s)

CatalogueVisible(s) == s.status \in CatalogueStatuses /\ ~s.archived

-----------------------------------------------------------------------------
CanView(u, s) ==
    \/ IsAdmin(u) \/ IsContact(u, s) \/ IsPublisher(u)
    \/ InScope(u, "reviewer", s) \/ InScope(u, "approver", s)

\* Mutant: the owners may edit until the record is published.
CanEditUntilPublished(u, s) ==
    /\ s.status \notin Terminal \union {"published"}
    /\ IsAdmin(u) \/ IsContact(u, s)

CanEdit(u, s) ==
    IF IsAdmin(u) THEN s.status \notin Terminal
                  ELSE IsContact(u, s) /\ s.status \in Editable

CanComment(u, s) == CanView(u, s) /\ s.status \notin Terminal

CanWithdraw(u, s) ==
    /\ s.status \notin Terminal \union {"published"}
    /\ IsAdmin(u) \/ IsContact(u, s)

CanClaim(u, s) ==
    /\ s.status = "submitted"
    /\ IsAdmin(u) \/ InScope(u, "reviewer", s)

CanRequestUpdates(u, s) ==
    \/ s.status = "under_review" /\ (IsAdmin(u) \/ InScope(u, "reviewer", s))
    \/ s.status = "awaiting_approval" /\ (IsAdmin(u) \/ InScope(u, "approver", s))

CanResubmit(u, s) ==
    /\ s.status = "updates_required"
    /\ IsAdmin(u) \/ IsContact(u, s)

\* Separation of duties, from which an admin is exempt here ...
CanCompleteReview(u, s) ==
    /\ s.status = "under_review"
    /\ IsAdmin(u) \/ (InScope(u, "reviewer", s) /\ ~IsContact(u, s))

\* Mutant: the exemption of admins extended to the decision.
CanDecideAsAdmin(u, s) ==
    /\ s.status = "awaiting_approval"
    /\ IsAdmin(u) \/ (InScope(u, "approver", s) /\ ~IsContact(u, s))

\* ... but not here.
CanDecideApproval(u, s) ==
    /\ s.status = "awaiting_approval"
    /\ ~IsContact(u, s)
    /\ IsAdmin(u) \/ InScope(u, "approver", s)

CanConfirmReady(u, s) == s.status = "approved" /\ (IsAdmin(u) \/ IsPublisher(u))

CanPublish(u, s) ==
    s.status = "ready_to_publish" /\ (IsAdmin(u) \/ IsPublisher(u))

CanConfirmReview(u, s) ==
    s.status = "published" /\ (IsAdmin(u) \/ IsContact(u, s))

CanReopen(u, s) ==
    \/ s.status = "published" /\ (IsAdmin(u) \/ IsContact(u, s))
    \/ s.status \in Terminal /\ IsAdmin(u)

CanDelete(u, s) == IsAdmin(u) \/ IsPublisher(u)
=============================================================================
