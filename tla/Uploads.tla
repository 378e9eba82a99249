------------------------------ MODULE Uploads ------------------------------
(***************************************************************************)
(* The attachments of one submission: rows in the database, blobs in the    *)
(* store, and requests that change both without a transaction around them.  *)
(* Uploads run on the event loop of a worker and give it up only while they *)
(* await the next file; deletions run in threads. Every request that records *)
(* an event updates the submission and so holds its row lock until it       *)
(* commits. The status of the submission lets attachments be changed        *)
(* throughout (Workflow says when it does not).                             *)
(***************************************************************************)
EXTENDS Integers, FiniteSets

CONSTANTS
    Req,      \* requests that may overlap
    Worker,   \* processes, each with one event loop
    Homes,    \* ways in which requests may be spread over workers
    Nobody,   \* the row lock is free
    Max,      \* max_attachments_per_submission
    MaxId,    \* bound of the model: attachments ever inserted
    MaxFaults \* bound of the model: errors, crashes and refused deletions

ASSUME UploadsAssumption ==
    /\ Nobody \notin Req
    /\ Homes \subseteq [Req -> Worker]
    /\ {Max, MaxId, MaxFaults} \subseteq Nat

VARIABLES
    home,      \* the worker that serves a request, fixed at the start
    row,       \* attachments, committed: per id none, live or deleted
    blobs,     \* paths of the blobs in the store
    nextId,    \* the sequence of ids, which no rollback sets back
    archived,  \* the submission is deleted
    holder,    \* the request that holds the row lock of the submission
    req,       \* per request, where it is and what it holds
    dropped,   \* history: attachments whose blob a deletion of them deleted
    overlap,   \* history: an upload has begun while another was under way
    left,      \* history: attachments of failed uploads, and those whose blob
               \* the store would not delete
    faults     \* errors, crashes and refused deletions so far

vars == <<home, row, blobs, nextId, archived, holder, req, dropped, overlap, left, faults>>

Id == 1 .. MaxId

Fault == faults < MaxFaults /\ faults' = faults + 1

\* All files have one name, the worst case. Mutant: the id is not in the path.
PathOfName(a) == "submission/name"

Path(a) == <<"submission", a, "name">>

Live == {a \in Id : row[a] = "live"}

Idle == [kind |-> "none", at |-> "idle"]

\* count is the length of the loaded list and what was added to it, own the
\* attachments a request has inserted or means to delete, todo those of which
\* the blob is still to be deleted.
Request(kind, at, own) ==
    [kind |-> kind, at |-> at, count |-> Cardinality(Live), own |-> own,
     todo |-> own]

Async(r) == req[r].kind = "upload"

\* The event loop runs one request until that awaits or ends.
LoopFree(w) ==
    \A r \in Req : home[r] = w /\ Async(r) => req[r].at = "reading"

Locked(r) == holder \notin {Nobody, r}

To(r, at) == req' = [req EXCEPT ![r].at = at]

-----------------------------------------------------------------------------
(* Uploads, by the upload form or with the fields of the submission.        *)

Begin(r) ==
    /\ req[r] = Idle /\ ~archived
    /\ \/ /\ LoopFree(home[r])
          /\ req' = [req EXCEPT ![r] = Request("upload", "reading", {})]
          /\ overlap' = (overlap \/ \E x \in Req : Async(x))
       \/ /\ \E a \in Live :
               req' = [req EXCEPT ![r] = Request("detach", "dropping", {a})]
          /\ UNCHANGED overlap
       \/ /\ req' = [req EXCEPT ![r] = Request("remove", "dropping", Live)]
          /\ UNCHANGED overlap
    /\ UNCHANGED <<home, row, blobs, nextId, archived, holder, dropped, left, faults>>

\* Mutant: what a request adds itself does not count.
RoomAtFirst(r) == req[r].count - Cardinality(req[r].own) < Max

Room(r) == req[r].count < Max

Resumes(r) == /\ req[r].at = "reading" /\ Async(r)
              /\ LoopFree(home[r])

\* A file has been read: its row is inserted and its blob saved at once.
Store(r) ==
    /\ Resumes(r) /\ Room(r) /\ nextId <= MaxId
    /\ req' = [req EXCEPT ![r].at = "touching", ![r].count = @ + 1,
                          ![r].own = @ \union {nextId}]
    /\ blobs' = blobs \union {Path(nextId)}
    /\ nextId' = nextId + 1
    /\ UNCHANGED <<home, row, archived, holder, dropped, overlap, left, faults>>

\* No further file is accepted: none was chosen, the limit is reached, or the
\* rest is of a wrong type or too large. Saving fields records one more event.
Skip(r) ==
    /\ Resumes(r)
    /\ \E at \in {"closing", "ending"} : To(r, at)
    /\ UNCHANGED <<home, row, blobs, nextId, archived, holder, dropped, overlap, left, faults>>

\* Recording an event updates the submission: the loop or the thread waits here
\* while another request holds the row. After the event of a file the next file
\* is awaited, if there is one and room for it.
Touch(r) ==
    /\ req[r].at \in {"touching", "closing"} /\ ~Locked(r)
    /\ holder' = r
    /\ \/ To(r, "ending")
       \/ req[r].at = "touching" /\ Room(r) /\ To(r, "reading")
    /\ UNCHANGED <<home, row, blobs, nextId, archived, dropped, overlap, left, faults>>

-----------------------------------------------------------------------------
(* Deletions, of one attachment or with the submission.                    *)

\* Mutant: the blob stays.
BlobKept(a) == blobs

BlobDropped(a) == blobs \ {Path(a)}

\* The blob goes before the row is written. The Azure backend reports no
\* failure, so that the blob may as well stay.
Drop(r) ==
    /\ req[r].at = "dropping"
    /\ \E a \in req[r].todo :
         /\ req' = [req EXCEPT ![r].todo = @ \ {a}]
         /\ \/ /\ blobs' = BlobDropped(a)
               /\ dropped' = dropped \union {a}
               /\ UNCHANGED <<left, faults>>
            \/ /\ Fault
               /\ left' = left \union {a}
               /\ UNCHANGED <<blobs, dropped>>
    /\ UNCHANGED <<home, row, nextId, archived, holder, overlap>>

Dropped(r) ==
    /\ req[r].at = "dropping" /\ req[r].todo = {}
    /\ To(r, "closing")
    /\ UNCHANGED <<home, row, blobs, nextId, archived, holder, dropped, overlap, left, faults>>

-----------------------------------------------------------------------------
(* How requests end.                                                       *)

Unlocked(rs) == IF holder \in rs THEN Nobody ELSE holder

Written(r) ==
    [a \in Id |-> IF a \in req[r].own THEN IF Async(r) THEN "live" ELSE "deleted"
                  ELSE row[a]]

Commit(r) ==
    /\ req[r].at = "ending"
    /\ row' = Written(r)
    /\ archived' = (archived \/ req[r].kind = "remove")
    /\ holder' = Unlocked({r})
    /\ req' = [req EXCEPT ![r] = Idle]
    /\ UNCHANGED <<home, blobs, nextId, dropped, overlap, left, faults>>

\* Rolled back: the blobs stay as they are.
Ended(rs) ==
    /\ req' = [r \in Req |-> IF r \in rs THEN Idle ELSE req[r]]
    /\ holder' = Unlocked(rs)
    /\ left' = left \union UNION {req[r].own : r \in {x \in rs : Async(x)}}
    /\ UNCHANGED <<home, row, blobs, nextId, archived, dropped, overlap>>

\* An error of the store or of the database, in a request that is running.
Fail(r) ==
    /\ req[r] # Idle
    /\ ~(req[r].at \in {"touching", "closing"} /\ Locked(r))
    /\ Async(r) /\ req[r].at = "reading" => LoopFree(home[r])
    /\ Ended({r}) /\ Fault

Running(w) == {r \in Req : req[r] # Idle /\ home[r] = w}

\* The worker stops, for a deployment or a crash.
Crash(w) ==
    /\ Running(w) # {}
    /\ Ended(Running(w)) /\ Fault

Waits(r) == Async(r) /\ req[r].at \in {"touching", "closing"} /\ Locked(r)

\* Mutant: gunicorn lets a worker hang.
HangsFor(w) == FALSE

\* A worker whose loop stands still is killed after --timeout.
Hangs(w) == \E r \in Req : Waits(r) /\ home[r] = w

Kill(w) == Hangs(w) /\ Ended(Running(w)) /\ UNCHANGED faults

Init ==
    /\ home \in Homes
    /\ row = [a \in Id |-> "none"]
    /\ blobs = {} /\ nextId = 1 /\ archived = FALSE
    /\ holder = Nobody
    /\ req = [r \in Req |-> Idle]
    /\ dropped = {} /\ overlap = FALSE /\ left = {} /\ faults = 0

Step(r) ==
    \/ Store(r) \/ Skip(r) \/ Touch(r) \/ Drop(r) \/ Dropped(r) \/ Commit(r)

Next ==
    \/ \E r \in Req : Begin(r) \/ Step(r) \/ Fail(r)
    \/ \E w \in Worker : Crash(w) \/ Kill(w)

Spec == Init /\ [][Next]_vars

\* The database grants a row lock, and an event loop its turn, in the order they
\* were asked for, so that nobody is overtaken for ever.
FairSpec ==
    /\ Spec
    /\ \A r \in Req : SF_vars(Step(r))
    /\ \A w \in Worker : WF_vars(Kill(w))

-----------------------------------------------------------------------------
(* Properties.                                                             *)

\* Rows, blobs, requests and history stay within their types, and an upload's
\* own attachments are not committed before it ends.
TypeOK ==
    /\ home \in Homes
    /\ row \in [Id -> {"none", "live", "deleted"}]
    /\ nextId \in 1 .. MaxId + 1
    /\ \A a \in Id : a >= nextId => row[a] = "none"
    /\ {archived, overlap} \subseteq BOOLEAN /\ faults \in 0 .. MaxFaults
    /\ holder \in Req \union {Nobody}
    /\ dropped \union left \subseteq 1 .. nextId - 1
    /\ req \in [Req -> {Idle} \union
         [kind: {"upload", "detach", "remove"},
          at: {"reading", "touching", "dropping", "closing", "ending"},
          count: Nat, own: SUBSET Id, todo: SUBSET Id]]
    /\ \A r \in Req : req[r] # Idle =>
         /\ req[r].own \subseteq 1 .. nextId - 1 /\ req[r].todo \subseteq req[r].own
         /\ Async(r) => \A a \in req[r].own : row[a] = "none"

\* The file of a live attachment is in the store, unless a deletion of this very
\* attachment took it and then was not committed (yet): no other upload,
\* deletion, failure or restart loses it.
FilesKept ==
    \A a \in Live : Path(a) \in blobs \/ a \in dropped

\* A blob in the store belongs to a live attachment or to an upload under way,
\* unless the upload failed or the store kept what it was to delete.
NothingLeftOver ==
    \A p \in blobs :
        \E a \in Id :
            /\ p = Path(a)
            /\ a \in Live \union left \union UNION {req[r].own : r \in {x \in Req : req[x] # Idle}}

\* A submission has more attachments than the limit only if uploads overlapped:
\* one after the other, whatever fails in between, they keep to it.
LimitUnlessOverlap == Cardinality(Live) > Max => overlap

\* Every request ends, even when the loop of its worker waits for a row that a
\* request of the same loop holds: the worker is killed, and both with it.
EveryRequestEnds == \A r \in Req : req[r] # Idle ~> req[r] = Idle
=============================================================================
