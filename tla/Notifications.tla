---------------------------- MODULE Notifications ----------------------------
(***************************************************************************)
(* notification_log as an outbox. Requests and scheduler jobs commit rows; *)
(* passes of send_pending deliver them: one behind every request that      *)
(* queued something, one at the end of every job. Jobs of all workers take *)
(* one PostgreSQL advisory lock; the passes behind requests take none. A   *)
(* pass loads its rows once and writes each back after its mail, with the  *)
(* count it loaded. Only the columns it changed are written.               *)
(***************************************************************************)
EXTENDS Integers, Sequences, FiniteSets

CONSTANTS
    Request,      \* requests that queue mail or retry it, with their passes
    Job,          \* scheduler jobs, of any worker
    NoJob,        \* nobody holds the advisory lock
    Outcome,      \* what the mail provider may do
    MaxAttempts,  \* attempts after which a row is given up (5 in the code)
    Limit,        \* rows of one pass (100 in the code)
    MaxRows,      \* bound of the model: rows ever queued
    MaxRetries,   \* bound of the model: retries by admins
    MaxCrashes    \* bound of the model: passes that die

\* "unclear": the provider takes the mail and reports an error, such as a timeout.
ASSUME NotificationsAssumption ==
    /\ NoJob \notin Job
    /\ Request \cap Job = {}
    /\ Outcome \subseteq {"accepted", "refused", "unclear"}
    /\ {MaxAttempts, Limit} \subseteq Nat \ {0}
    /\ {MaxRows, MaxRetries, MaxCrashes} \subseteq Nat

Sender == Request \union Job

VARIABLES
    row,       \* the table, in the order of queued_at
    sender,    \* what each request or job is doing
    lock,      \* the job that holds the advisory lock
    tried,     \* per row, history: calls of the provider, counted to MaxAttempts
    accepted,  \* per row, history: mails taken by the provider, counted to 2
    doubt,     \* history: rows whose mail may go out again (below)
    retries,   \* retries committed
    crashes    \* passes that died

vars == <<row, sender, lock, tried, accepted, doubt, retries, crashes>>
calls   == <<tried, accepted>>
history == <<calls, doubt>>
bounds  == <<retries, crashes>>

Row == [status: {"queued", "sent", "failed"}, attempts: Nat]
Fresh == [status |-> "queued", attempts |-> 0]

\* own: rows the session already holds, with no attempts; a later SELECT does
\* not refresh them. todo: the rows of the pass, as the session holds them.
Held(i, r) == [id |-> i, status |-> r.status, attempts |-> r.attempts]
Idle == [pc |-> "idle", own |-> {}, todo |-> <<>>]
Bound(n, most) == IF n < most THEN n + 1 ELSE most

Init ==
    /\ row = <<>> /\ tried = <<>> /\ accepted = <<>> /\ doubt = {}
    /\ sender = [s \in Sender |-> Idle]
    /\ lock = NoJob
    /\ retries = 0 /\ crashes = 0

-----------------------------------------------------------------------------
(* Queueing.                                                               *)

AddRow == /\ Len(row) < MaxRows
          /\ row' = Append(row, Fresh)
          /\ tried' = Append(tried, 0) /\ accepted' = Append(accepted, 0)
          /\ UNCHANGED <<doubt, bounds>>

\* A submission request delivers in a background task with a session of its
\* own; sign-in and role changes go on in the session that queued the row.
QueueByRequest(s) ==
    /\ s \in Request /\ sender[s] = Idle
    /\ AddRow
    /\ \E own \in {{}, {Len(row) + 1}} :
         sender' = [sender EXCEPT ![s] = [Idle EXCEPT !.pc = "select", !.own = own]]
    /\ UNCHANGED lock

\* A job that does not get the lock is skipped.
StartJob(s) ==
    /\ s \in Job /\ sender[s] = Idle
    /\ lock = NoJob
    /\ lock' = s
    /\ sender' = [sender EXCEPT ![s].pc = "work"]
    /\ UNCHANGED <<row, history, bounds>>

\* Reminders and review notices, each in a commit of its own.
QueueByJob(s) ==
    /\ sender[s].pc = "work"
    /\ AddRow
    /\ sender' = [sender EXCEPT ![s].own = @ \union {Len(row) + 1}]
    /\ UNCHANGED lock

-----------------------------------------------------------------------------
(* send_pending.                                                           *)

\* Mutant: the status is not asked for.
PendingAny(i) == row[i].attempts < MaxAttempts

Pending(i) == row[i].status = "queued" /\ row[i].attempts < MaxAttempts

\* The rows a session is about to mail or to record.
Takes(x) == IF x.pc \in {"send", "sent", "error"}
            THEN {x.todo[k].id : k \in DOMAIN x.todo} ELSE {}
Taken == UNION {Takes(sender[t]) : t \in Sender}

\* The first Limit of a set of rows, in their order.
Batch(ids) ==
    LET n == IF Cardinality(ids) < Limit THEN Cardinality(ids) ELSE Limit IN
    {first \in [1 .. n -> ids] :
        /\ \A j, k \in 1 .. n : j < k => first[j] < first[k]
        /\ \A i \in ids : \/ \E k \in 1 .. n : first[k] = i
                          \/ \A k \in 1 .. n : first[k] < i}

Select(s) ==
    /\ sender[s].pc \in {"work", "select"}
    /\ \E first \in Batch({i \in DOMAIN row : Pending(i)}) :
         /\ sender' = [sender EXCEPT ![s] =
              [pc |-> "send", own |-> {},
               todo |-> [k \in DOMAIN first |->
                           Held(first[k], IF first[k] \in sender[s].own THEN Fresh
                                          ELSE row[first[k]])]]]
         /\ doubt' = doubt \union {i \in Taken : \E k \in DOMAIN first : first[k] = i}
    /\ UNCHANGED <<row, lock, calls, bounds>>

Send(s) ==
    /\ sender[s].pc = "send" /\ sender[s].todo # <<>>
    /\ \E o \in Outcome :
         LET i == Head(sender[s].todo).id IN
         /\ tried' = [tried EXCEPT ![i] = Bound(@, MaxAttempts)]
         /\ accepted' = IF o = "refused" THEN accepted
                        ELSE [accepted EXCEPT ![i] = Bound(@, 2)]
         /\ doubt' = IF o = "unclear" THEN doubt \union {i} ELSE doubt
         /\ sender' = [sender EXCEPT ![s].pc =
                          IF o = "accepted" THEN "sent" ELSE "error"]
    /\ UNCHANGED <<row, lock, bounds>>

\* Mutants: an error is taken for a delivery; the last attempt is not made; all
\* columns are written, as they were loaded.
WrittenSent(old, attempts, outcome) == [attempts |-> attempts, status |-> "sent"]

WrittenEarly(old, attempts, outcome) ==
    [attempts |-> attempts,
     status   |-> IF outcome = "sent" THEN "sent"
                  ELSE IF attempts + 1 >= MaxAttempts THEN "failed" ELSE old.status]

WrittenWhole(old, attempts, outcome) ==
    [attempts |-> attempts,
     status   |-> IF outcome = "sent" THEN "sent"
                  ELSE IF attempts >= MaxAttempts THEN "failed" ELSE "queued"]

\* The row as the pass writes it back: the status only if it changed.
Written(old, attempts, outcome) ==
    [attempts |-> attempts,
     status   |-> IF outcome = "sent" THEN "sent"
                  ELSE IF attempts >= MaxAttempts THEN "failed" ELSE old.status]

Record(s) ==
    /\ sender[s].pc \in {"sent", "error"}
    /\ LET h == Head(sender[s].todo) IN
       row' = [row EXCEPT ![h.id] = Written(@, h.attempts + 1, sender[s].pc)]
    /\ sender' = [sender EXCEPT ![s].pc = "send", ![s].todo = Tail(@)]
    /\ UNCHANGED <<lock, history, bounds>>

\* Mutant: the lock outlives the job.
ReleasedNever(s) == lock

Released(s) == IF lock = s THEN NoJob ELSE lock

Finish(s) ==
    /\ sender[s].pc = "send" /\ sender[s].todo = <<>>
    /\ sender' = [sender EXCEPT ![s] = Idle]
    /\ lock' = Released(s)
    /\ UNCHANGED <<row, history, bounds>>

\* The process stops, or a commit fails: the pass ends and the lock is freed.
Crash(s) ==
    /\ sender[s] # Idle
    /\ crashes < MaxCrashes
    /\ crashes' = crashes + 1
    /\ doubt' = IF sender[s].pc = "sent" THEN doubt \union {Head(sender[s].todo).id}
                ELSE doubt
    /\ sender' = [sender EXCEPT ![s] = Idle]
    /\ lock' = Released(s)
    /\ UNCHANGED <<row, calls, retries>>

-----------------------------------------------------------------------------
(* An admin retries a row, whatever has become of it since the page showed  *)
(* it; the request loads it, commits the reset and makes a pass.           *)

LoadRetry(s) ==
    /\ s \in Request /\ sender[s] = Idle
    /\ retries < MaxRetries
    /\ \E i \in DOMAIN row :
         sender' = [sender EXCEPT ![s] =
                      [pc |-> "reset", own |-> {i}, todo |-> <<Held(i, row[i])>>]]
    /\ retries' = retries + 1
    /\ UNCHANGED <<row, lock, history, crashes>>

\* What the reset writes over the row, given the row it loaded.
Reset(old, loaded) ==
    [status   |-> IF loaded.status = "queued" THEN old.status ELSE "queued",
     attempts |-> IF loaded.attempts = 0 THEN old.attempts ELSE 0]

CommitRetry(s) ==
    /\ sender[s].pc = "reset"
    /\ LET h == Head(sender[s].todo) IN
       /\ row' = [row EXCEPT ![h.id] = Reset(@, h)]
       /\ doubt' = doubt \union {h.id}
    /\ sender' = [sender EXCEPT ![s].pc = "select", ![s].todo = <<>>]
    /\ UNCHANGED <<lock, calls, bounds>>

-----------------------------------------------------------------------------
Pass(s) == Select(s) \/ Send(s) \/ Record(s) \/ Finish(s)
JobStep == \E s \in Job : StartJob(s) \/ Pass(s)

Next == \E s \in Sender :
    \/ QueueByRequest(s) \/ StartJob(s) \/ QueueByJob(s)
    \/ Select(s) \/ Send(s) \/ Record(s) \/ Finish(s) \/ Crash(s)
    \/ LoadRetry(s) \/ CommitRetry(s)

\* The scheduler runs: some job always comes round and its pass goes on. A
\* request's own pass is owed nothing, its worker may stop.
Spec == Init /\ [][Next]_vars /\ WF_vars(JobStep)

-----------------------------------------------------------------------------
(* Properties.                                                             *)

\* The table, the sessions and the counters stay within their types.
TypeOK ==
    /\ row \in Seq(Row)
    /\ tried \in [DOMAIN row -> 0 .. MaxAttempts]
    /\ accepted \in [DOMAIN row -> 0 .. 2]
    /\ sender \in [Sender ->
         [pc: {"idle", "work", "select", "send", "sent", "error", "reset"},
          own: SUBSET DOMAIN row,
          todo: Seq([id: DOMAIN row, status: {"queued", "sent", "failed"},
                     attempts: Nat])]]
    /\ lock \in Job \union {NoJob}
    /\ doubt \subseteq DOMAIN row
    /\ retries \in 0 .. MaxRetries /\ crashes \in 0 .. MaxCrashes

\* A row marked sent was taken by the provider, whichever passes wrote it.
SentWasAccepted ==
    \A i \in DOMAIN row : row[i].status = "sent" => accepted[i] > 0

\* A row is given up only after the provider was tried MaxAttempts times,
\* although passes count on what they loaded.
FailedAfterAllAttempts ==
    \A i \in DOMAIN row : row[i].status = "failed" => tried[i] = MaxAttempts

\* Nobody is mailed twice but for a reason: two passes held the row at once, the
\* provider took the mail and reported an error, the pass died before it could
\* record the mail, or an admin retried the row. Those rows are in doubt.
MailedOnce == \A i \in DOMAIN row : accepted[i] > 1 => i \in doubt

\* What was sent or given up is queued again by an admin's retry of that row
\* only, never by a pass that still holds it as queued.
OnlyRetriesRequeue ==
    [][\A i \in DOMAIN row :
         row[i].status # "queued" /\ row'[i].status = "queued" =>
            \E s \in Request : /\ sender[s].pc = "reset"
                               /\ Head(sender[s].todo).id = i]_vars

\* Every row is sent or given up, whatever dies behind the requests and however
\* a retry meets a pass; two retries that meet may strand a row (below).
IsQueued(i)  == i \in DOMAIN row /\ row[i].status = "queued"
IsSettled(i) == i \in DOMAIN row /\ row[i].status # "queued"
EveryRowSettles == \A i \in 1..MaxRows : IsQueued(i) ~> IsSettled(i)

-----------------------------------------------------------------------------
(* What the code says and overlapping retries break.                       *)

\* send_pending: a row that is still queued is delivered or retried later.
NoneStranded == \A i \in DOMAIN row : row[i].status = "queued" => Pending(i)
=============================================================================
