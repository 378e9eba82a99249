---------------------------- MODULE ReviewCycles ----------------------------
(***************************************************************************)
(* The six-month content review: the cycles that publications and           *)
(* confirmations open, and the hourly job that writes to the owners about   *)
(* them. A run of the job loads the open cycles once and commits one        *)
(* message after the other, beside requests that load a submission, close   *)
(* the cycles they found open and commit, in any order. Time is a count of  *)
(* days. Runs do not overlap, since jobs hold the advisory lock.            *)
(***************************************************************************)
EXTENDS Integers, Sequences, FiniteSets

CONSTANTS
    Sub,        \* submissions
    Req,        \* requests that may overlap
    Length,     \* days of a cycle: 30 * review_cycle_months
    Notice,     \* review_notice_days_before
    Week,       \* days between two messages about a cycle: 7
    Patience,   \* days overdue from which on admins are copied: 30
    MaxDay,     \* bound of the model: the last day
    MaxCycles   \* bound of the model: cycles opened

ASSUME ReviewCyclesAssumption ==
    /\ {Notice, Week, Patience, MaxDay, MaxCycles} \subseteq Nat
    /\ Length \in Nat /\ Notice < Length /\ Week > 0

VARIABLES
    today,      \* days since the start
    published,  \* submissions whose status is published
    archived,   \* deleted submissions
    cycles,     \* review_cycles, in the order of their ids
    sent,       \* history: per cycle, the messages queued about it
    req,        \* per request, what it loaded, or Idle
    job,        \* the run of the job, or NoRun
    swept       \* history: a run that began today has gone through

vars == <<today, published, archived, cycles, sent, req, job, swept>>

Never == -1

Cycle == [sub: Sub, due: Nat, notified: BOOLEAN, last: Nat \union {Never},
          open: BOOLEAN]

Opened(s) == [sub |-> s, due |-> today + Length, notified |-> FALSE,
              last |-> Never, open |-> TRUE]

OpenOf(s) == {c \in DOMAIN cycles : cycles[c].sub = s /\ cycles[c].open}

ClosedAll(ids) ==
    [c \in DOMAIN cycles |->
        IF c \in ids THEN [cycles[c] EXCEPT !.open = FALSE] ELSE cycles[c]]

Live(s) == s \in published /\ s \notin archived

NoRun == [now |-> Never, todo |-> <<>>, known |-> [s \in Sub |-> "unknown"]]
Idle  == [kind |-> "none"]

-----------------------------------------------------------------------------
(* Requests. Each is refused unless the submission it loaded is in the     *)
(* right status; none looks again before it commits.                       *)

Kinds == {"publish", "confirm", "reopen", "withdraw"}

Permitted(kind, s) ==
    /\ s \notin archived
    /\ kind \in {"confirm", "reopen"} <=> s \in published

Load(r) ==
    /\ req[r] = Idle
    /\ \E s \in Sub, kind \in Kinds :
         /\ Permitted(kind, s)
         /\ req' = [req EXCEPT ![r] = [kind |-> kind, sub |-> s, open |-> OpenOf(s)]]
    /\ UNCHANGED <<today, published, archived, cycles, sent, job, swept>>

\* Mutant: a confirmation opens no new cycle.
ConfirmedOnly(s, ids) == ClosedAll(ids)

\* Publishing closes none; the rows a request closes are those it loaded open.
Published(s)      == Append(cycles, Opened(s))
Confirmed(s, ids) == Append(ClosedAll(ids), Opened(s))

Commit(r) ==
    /\ req[r] # Idle
    /\ LET s == req[r].sub IN
       \/ /\ req[r].kind = "publish" /\ Len(cycles) < MaxCycles
          /\ cycles' = Published(s)
          /\ published' = published \union {s}
       \/ /\ req[r].kind = "confirm" /\ Len(cycles) < MaxCycles
          /\ cycles' = Confirmed(s, req[r].open)
          /\ UNCHANGED published
       \/ /\ req[r].kind \in {"reopen", "withdraw"}
          /\ cycles' = ClosedAll(req[r].open)
          /\ published' = published \ {s}
    /\ sent' = [c \in DOMAIN cycles' |-> IF c \in DOMAIN sent THEN sent[c] ELSE <<>>]
    /\ req' = [req EXCEPT ![r] = Idle]
    /\ UNCHANGED <<today, archived, job, swept>>

\* Deleting leaves the cycles as they are.
Archive(s) ==
    /\ s \notin archived
    /\ archived' = archived \union {s}
    /\ UNCHANGED <<today, published, cycles, sent, req, job, swept>>

-----------------------------------------------------------------------------
(* The job.                                                                *)

\* Mutant: closed cycles are loaded as well.
AllCycles == DOMAIN cycles

OpenCycles == {c \in DOMAIN cycles : cycles[c].open}

\* By due date, and those of one day in the order in which they were opened.
Ordered(ids) ==
    {todo \in [1 .. Cardinality(ids) -> ids] :
        \A i, j \in DOMAIN todo : i < j =>
            /\ cycles[todo[i]].due <= cycles[todo[j]].due
            /\ cycles[todo[i]].due = cycles[todo[j]].due => todo[i] < todo[j]}

Start ==
    /\ job = NoRun
    /\ \E todo \in Ordered(OpenCycles) :
         job' = [NoRun EXCEPT !.now = today, !.todo = todo]
    /\ UNCHANGED <<today, published, archived, cycles, sent, req, swept>>

\* The submission is loaded when its first cycle comes up, and not again.
KnownLive(s) ==
    IF job.known[s] = "unknown" THEN Live(s) ELSE job.known[s] = "live"

\* notified_at and last_reminder_at are written by the job alone, so that the
\* rows it loaded are still right about them.
NoticeDue(x) == ~x.notified /\ job.now >= x.due - Notice

\* Mutants: the week is not waited for, or is a day longer.
OverdueAtOnce(x) == ~NoticeDue(x) /\ job.now > x.due

OverdueLate(x) ==
    /\ ~NoticeDue(x)
    /\ job.now > x.due
    /\ x.last = Never \/ job.now - x.last > Week

Overdue(x) ==
    /\ ~NoticeDue(x)
    /\ job.now > x.due
    /\ x.last = Never \/ job.now - x.last >= Week

\* Mutant: admins are copied only a week late.
CopiedLate(x) == job.now - x.due >= Patience + Week

Copied(x) == job.now - x.due >= Patience

\* late is history: the cycle was closed while the run went on.
Message(kind, x, copied) ==
    [kind |-> kind, day |-> job.now, copied |-> copied, late |-> ~x.open]

\* Mutant: the notice does not count as a reminder.
NoticeForgotten(x) == [x EXCEPT !.notified = FALSE, !.last = job.now]

Noticed(x)  == [x EXCEPT !.notified = TRUE, !.last = job.now]

\* One cycle: the message and the row in one commit.
Turn ==
    /\ job.todo # <<>>
    /\ LET c == Head(job.todo)
           x == cycles[c]
       IN  /\ \/ /\ KnownLive(x.sub) /\ NoticeDue(x)
                 /\ cycles' = [cycles EXCEPT ![c] = Noticed(x)]
                 /\ sent' = [sent EXCEPT ![c] = Append(@, Message("due", x, FALSE))]
              \/ /\ KnownLive(x.sub) /\ Overdue(x)
                 /\ cycles' = [cycles EXCEPT ![c].last = job.now]
                 /\ sent' = [sent EXCEPT ![c] = Append(@, Message("overdue", x, Copied(x)))]
              \/ /\ ~(KnownLive(x.sub) /\ (NoticeDue(x) \/ Overdue(x)))
                 /\ UNCHANGED <<cycles, sent>>
           /\ job' = [job EXCEPT
                        !.todo = Tail(@),
                        !.known[x.sub] = IF KnownLive(x.sub) THEN "live" ELSE "not"]
    /\ UNCHANGED <<today, published, archived, req, swept>>

Finish ==
    /\ job # NoRun /\ job.todo = <<>>
    /\ job' = NoRun
    /\ swept' = (swept \/ job.now = today)
    /\ UNCHANGED <<today, published, archived, cycles, sent, req>>

\* The worker stops, or an error ends the run; committed messages remain.
Break ==
    /\ job # NoRun
    /\ job' = NoRun
    /\ UNCHANGED <<today, published, archived, cycles, sent, req, swept>>

\* A run may go past midnight, not past a whole day; requests take moments and
\* are not carried over. The job may also be down for days.
NextDay ==
    /\ today < MaxDay
    /\ \A r \in Req : req[r] = Idle
    /\ job = NoRun \/ job.now = today
    /\ today' = today + 1
    /\ swept' = FALSE
    /\ UNCHANGED <<published, archived, cycles, sent, req, job>>

Init ==
    /\ today = 0
    /\ published = {} /\ archived = {}
    /\ cycles = <<>> /\ sent = <<>>
    /\ req = [r \in Req |-> Idle]
    /\ job = NoRun
    /\ swept = FALSE

Next ==
    \/ NextDay \/ Start \/ Turn \/ Finish \/ Break
    \/ \E r \in Req : Load(r) \/ Commit(r)
    \/ \E s \in Sub : Archive(s)

Spec == Init /\ [][Next]_vars

-----------------------------------------------------------------------------
(* Properties.                                                             *)

\* Rows, messages, loaded requests and the run stay within their types.
TypeOK ==
    /\ today \in 0..MaxDay /\ swept \in BOOLEAN
    /\ published \subseteq Sub /\ archived \subseteq Sub
    /\ cycles \in Seq(Cycle)
    /\ sent \in Seq(Seq([kind: {"due", "overdue"}, day: Nat,
                      copied: BOOLEAN, late: BOOLEAN]))
    /\ Len(sent) = Len(cycles)
    /\ req \in [Req -> {Idle} \union
                 [kind: Kinds, sub: Sub, open: SUBSET DOMAIN cycles]]
    /\ job \in [now: Never..today, todo: Seq(DOMAIN cycles),
                known: [Sub -> {"unknown", "live", "not"}]]

\* A published offering is always under review: overlapping confirmations,
\* publications and reopenings may leave it several open cycles, never none.
PublishedIsTracked ==
    \A s \in Sub : s \in published => OpenOf(s) # {}

\* The owners are told once that a cycle falls due, before any reminder that it
\* is overdue, however late the job is and however its runs break off.
NoticeFirst ==
    \A c \in DOMAIN sent : \A i \in DOMAIN sent[c] :
        sent[c][i].kind = "due" <=> i = 1

\* Two messages about a cycle are a week apart at least.
WeekApart ==
    \A c \in DOMAIN sent : \A i \in 2 .. Len(sent[c]) :
        sent[c][i].day - sent[c][i - 1].day >= Week

\* Of a cycle that has been closed the owners hear at most once more: from the
\* run that had loaded it, if there is one.
ClosedIsQuiet ==
    \A c \in DOMAIN sent : \A i, j \in DOMAIN sent[c] :
        sent[c][i].late /\ sent[c][j].late => i = j

\* A submission whose newest cycle was opened before today.
Settled(s) == \A c \in DOMAIN cycles :
                  cycles[c].sub = s => cycles[c].due - Length < today

Age(c) == today - sent[c][Len(sent[c])].day

\* Once a run went through on a day, every open cycle of an offering that was
\* published before that day has had its notice if the notice is due, and a
\* message within the week if the cycle is overdue.
NobodyForgotten ==
    swept =>
        \A s \in Sub : Live(s) /\ Settled(s) =>
            \A c \in OpenOf(s) :
                /\ today >= cycles[c].due - Notice => sent[c] # <<>>
                /\ today > cycles[c].due => Age(c) < Week

\* Neglect reaches the admins: once a run went through a week or more after the
\* cycle was overdue long enough, they have been copied, unless a job that was
\* down for that long has only just sent the notice.
NeglectIsEscalated ==
    swept =>
        \A s \in Sub : Live(s) /\ Settled(s) =>
            \A c \in OpenOf(s) :
                today - cycles[c].due >= Patience + Week =>
                    sent[c][Len(sent[c])].copied \/ Len(sent[c]) = 1
=============================================================================
