----------------------------- MODULE Reminders -----------------------------
(***************************************************************************)
(* The hourly job that reminds whoever owns the next action of a           *)
(* submission, beside the requests that act on it. A run loads the         *)
(* waiting submissions once, takes them in any order, and commits one      *)
(* reminder after the other; it knows a submission as it loaded it, but    *)
(* looks up the reminders already recorded each time. Time is a count of   *)
(* days, of which day 0 is a Monday: the code compares dates only. Runs    *)
(* do not overlap, since jobs hold the advisory lock (see Notifications).  *)
(***************************************************************************)
EXTENDS Integers, Sequences, FiniteSets

CONSTANTS
    Sub,         \* submissions
    Threshold,   \* business days an action may be outstanding, per status
    Staffed,     \* the shared audiences that have somebody to write to
    MaxDay,      \* bound of the model: the last day
    MaxActions   \* bound of the model: events of requests, per submission

Waiting == {"submitted", "under_review", "updates_required",
            "awaiting_approval", "approved", "ready_to_publish"}

\* Every other status, from draft to withdrawn: nobody is reminded.
Stage == Waiting \union {"idle"}

\* Owners and the assigned reviewer are always somebody.
Pool == {"reviewer_pool", "approvers", "publishers", "admins"}

ASSUME RemindersAssumption ==
    /\ Threshold \in [Waiting -> Nat \ {0}]
    /\ Staffed \subseteq Pool
    /\ MaxDay \in Nat
    /\ MaxActions \in [Sub -> Nat]

VARIABLES
    today,   \* days since the first Monday
    status,  \* per submission, its stage
    log,     \* per submission, its events in the order of their timestamps
    job,     \* the run of the job, or NoRun
    swept    \* history: the day of the newest run that went through, or -1

vars == <<today, status, log, job, swept>>

NoRun == [now |-> -1, todo |-> {}]

-----------------------------------------------------------------------------
(* Dates.                                                                  *)

Weekday(d) == d % 7 < 5

BusinessDays(start, end) == Cardinality({d \in start + 1 .. end : Weekday(d)})

-----------------------------------------------------------------------------
(* Events. Those of requests set last_action_at, reminders do not.         *)

ActionEvent(t) == [kind |-> "action", day |-> today, stage |-> t, copied |-> FALSE]
ReminderEvent(t, copied) ==
    [kind |-> "reminder", day |-> today, stage |-> t, copied |-> copied]

Reminded(events) == {i \in DOMAIN events : events[i].kind = "reminder"}
Acted(events) == {i \in DOMAIN events : events[i].kind = "action"}

\* The newest of a set of events, which is not empty.
Newest(ids) == CHOOSE i \in ids : \A j \in ids : j <= i

\* The event of last_action_at.
LastAction(s) == Newest(Acted(log[s]))

\* What a transition may lead to; "idle" stands for all that is not waiting.
Leads == [submitted         |-> {"under_review", "idle"},
          under_review      |-> {"updates_required", "awaiting_approval", "idle"},
          updates_required  |-> {"under_review", "idle"},
          awaiting_approval |-> {"updates_required", "approved", "idle"},
          approved          |-> {"ready_to_publish", "idle"},
          ready_to_publish  |-> {"idle"},
          idle              |-> {"submitted", "under_review"}]

-----------------------------------------------------------------------------
(* Who is written to, and from which reminder on somebody is copied.       *)

Audience(t) ==
    CASE t = "submitted"         -> "reviewer_pool"
      [] t = "under_review"      -> "reviewer"
      [] t = "updates_required"  -> "owners"
      [] t = "awaiting_approval" -> "approvers"
      [] t \in {"approved", "ready_to_publish"} -> "publishers"

HasRecipients(t) == Audience(t) \in Pool => Audience(t) \in Staffed

\* Mutant: somebody is copied one reminder late.
PatienceLonger(t) == IF t = "updates_required" THEN 4 ELSE 3

Patience(t) == IF t = "updates_required" THEN 3 ELSE 2

\* The owners' reminder is copied to the reviewer, every other to the admins.
HasCopies(t) == t = "updates_required" \/ "admins" \in Staffed

Copies(t, count) == count >= Patience(t) /\ HasCopies(t)

-----------------------------------------------------------------------------
(* One submission of a run, loaded as [sub, stage, since]; since is the    *)
(* event of last_action_at.                                                *)

\* Mutants: reminders of earlier runs are not looked up, and one sent exactly
\* the threshold ago still counts as fresh.
NeverRecent(x) == FALSE

RecentTooLong(x) ==
    LET sent == Reminded(log[x.sub]) IN
    /\ sent # {}
    /\ BusinessDays(log[x.sub][Newest(sent)].day, job.now) <= Threshold[x.stage]

\* The newest reminder of any stage is too fresh to send another.
RecentlyReminded(x) ==
    LET sent == Reminded(log[x.sub]) IN
    /\ sent # {}
    /\ BusinessDays(log[x.sub][Newest(sent)].day, job.now) < Threshold[x.stage]

Outstanding(x) ==
    BusinessDays(log[x.sub][x.since].day, job.now) >= Threshold[x.stage]

ReminderCount(x) == Cardinality({i \in Reminded(log[x.sub]) : i > x.since})

Due(x) ==
    /\ Outstanding(x)
    /\ ~RecentlyReminded(x)
    /\ HasRecipients(x.stage) \/ Copies(x.stage, ReminderCount(x))

-----------------------------------------------------------------------------
Init ==
    /\ today = 0
    /\ status \in [Sub -> {"submitted", "idle"}]
    /\ log = [s \in Sub |-> <<ActionEvent(status[s])>>]
    /\ job = NoRun
    /\ swept = -1

\* A run may go past midnight, not past a whole day.
NextDay ==
    /\ today < MaxDay
    /\ job = NoRun \/ job.now = today
    /\ today' = today + 1
    /\ UNCHANGED <<status, log, job, swept>>

\* A request: a transition, or an event that leaves the status as it is (a
\* comment, an edit, an attachment, a download of the export).
Act(s) ==
    /\ Cardinality(Acted(log[s])) < MaxActions[s]
    /\ \E t \in Leads[status[s]] \union {status[s]} :
         /\ status' = [status EXCEPT ![s] = t]
         /\ log' = [log EXCEPT ![s] = Append(@, ActionEvent(t))]
    /\ UNCHANGED <<today, job, swept>>

\* At weekends the job returns at once.
Start ==
    /\ job = NoRun
    /\ Weekday(today)
    /\ job' = [now  |-> today,
               todo |-> {[sub |-> s, stage |-> status[s], since |-> LastAction(s)] :
                            s \in {x \in Sub : status[x] \in Waiting}}]
    /\ UNCHANGED <<today, status, log, swept>>

Remind(s) ==
    \E x \in job.todo :
        /\ x.sub = s
        /\ log' = IF Due(x)
                  THEN [log EXCEPT ![s] =
                          Append(@, ReminderEvent(x.stage,
                                      Copies(x.stage, ReminderCount(x))))]
                  ELSE log
        /\ job' = [job EXCEPT !.todo = @ \ {x}]
        /\ UNCHANGED <<today, status, swept>>

Finish ==
    /\ job # NoRun
    /\ job.todo = {}
    /\ job' = NoRun
    /\ swept' = job.now
    /\ UNCHANGED <<today, status, log>>

\* The worker stops, or an error ends the run; committed reminders remain.
Break ==
    /\ job # NoRun
    /\ job' = NoRun
    /\ UNCHANGED <<today, status, log, swept>>

Next ==
    \/ NextDay \/ Start \/ Finish \/ Break
    \/ \E s \in Sub : Act(s) \/ Remind(s)

Spec == Init /\ [][Next]_vars

-----------------------------------------------------------------------------
(* Properties.                                                             *)

Event == [kind: {"action", "reminder"}, day: 0..MaxDay, stage: Stage,
          copied: BOOLEAN]

\* Days, stages, events and the run stay within their types.
TypeOK ==
    /\ today \in 0..MaxDay
    /\ status \in [Sub -> Stage]
    /\ log \in [Sub -> Seq(Event)]
    /\ job.now \in -1..today
    /\ \A x \in job.todo : /\ x.sub \in Sub /\ x.stage \in Waiting
                           /\ x.since \in Acted(log[x.sub])
    /\ swept \in -1..today

\* Two reminders of a submission are at least the threshold of the later one
\* apart, in whatever stages, and however runs break off and start again.
RemindersSpaced ==
    \A s \in Sub : \A i, j \in Reminded(log[s]) :
        i < j => BusinessDays(log[s][i].day, log[s][j].day)
                   >= Threshold[log[s][j].stage]

\* After a run went through on a day, no action is left that is outstanding
\* beyond its threshold with nobody reminded inside it, as long as there is
\* somebody to write to: stale rows, earlier stages' reminders and broken
\* runs lose nothing.
NobodyForgotten ==
    swept = today =>
        \A s \in Sub :
            LET t == status[s] IN
            (/\ t \in Waiting /\ HasRecipients(t)
             /\ BusinessDays(log[s][LastAction(s)].day, today) >= Threshold[t])
            => \E i \in Reminded(log[s]) :
                  BusinessDays(log[s][i].day, today) < Threshold[t]

\* A reminder that follows two (for the owners three) of the same unanswered
\* action is copied to the admins (the reviewer), if there are any.
EscalatedInTime ==
    \A s \in Sub : \A i \in Reminded(log[s]) :
        LET since  == Newest({a \in Acted(log[s]) : a < i})
            before == {j \in Reminded(log[s]) : since < j /\ j < i}
        IN  (Cardinality(before) >= IF log[s][i].stage = "updates_required" THEN 3 ELSE 2)
            /\ HasCopies(log[s][i].stage)
              => log[s][i].copied
=============================================================================
