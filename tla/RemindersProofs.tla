-------------------------- MODULE RemindersProofs --------------------------
(***************************************************************************)
(* What the reminder job keeps whatever the number of submissions, events   *)
(* and days: reminders keep their distance, a run that goes through forgets *)
(* nobody, and an action that stays unanswered is escalated in time.        *)
(***************************************************************************)
EXTENDS Reminders, FiniteSetTheorems, WellFoundedInduction, TLAPS

\* Every submission begins with an action, and its events are in order.
InOrder ==
    \A s \in Sub :
        /\ 1 \in Acted(log[s])
        /\ \A i \in DOMAIN log[s] : log[s][i].day <= today
        /\ \A i, j \in DOMAIN log[s] : i <= j => log[s][i].day <= log[s][j].day

RunTyped == job \in [now: Int, todo: SUBSET [sub: Sub, stage: Waiting, since: Nat]]

Typed == TypeOK /\ RunTyped /\ InOrder

\* Whoever owns an action that is outstanding has been reminded of late.
Served(s) ==
    (/\ status[s] \in Waiting /\ HasRecipients(status[s])
     /\ BusinessDays(log[s][LastAction(s)].day, today) >= Threshold[status[s]])
    => \E i \in Reminded(log[s]) :
          BusinessDays(log[s][i].day, today) < Threshold[status[s]]

ActedToday(s) == log[s][LastAction(s)].day = today

\* A row of the run that is still what the table says.
Current(x) == x.stage = status[x.sub] /\ x.since = LastAction(x.sub)

\* How far a run of today has come; what it holds that is stale was acted on
\* today.
CaughtUp ==
    /\ NobodyForgotten
    /\ job.now = today =>
         /\ \A s \in Sub : (\E x \in job.todo : x.sub = s) \/ Served(s)
         /\ \A x \in job.todo : Current(x) \/ ActedToday(x.sub)

IInv == Typed /\ RemindersSpaced /\ EscalatedInTime /\ CaughtUp

-----------------------------------------------------------------------------
(* Dates and the newest event.                                             *)

LEMMA BusinessDaysType ==
    ASSUME NEW a \in Int, NEW b \in Int
    PROVE  /\ IsFiniteSet({d \in a + 1 .. b : Weekday(d)})
           /\ BusinessDays(a, b) \in Nat
<1>1. IsFiniteSet(a + 1 .. b)
  BY FS_Interval
<1>2. {d \in a + 1 .. b : Weekday(d)} \in SUBSET (a + 1 .. b)
  OBVIOUS
<1>3. IsFiniteSet({d \in a + 1 .. b : Weekday(d)})
  BY <1>1, <1>2, FS_Subset
<1> QED
  BY <1>3, FS_CardinalityType DEF BusinessDays

\* A longer time has no fewer business days.
LEMMA BusinessDaysGrow ==
    ASSUME NEW a \in Int, NEW b \in Int, NEW c \in Int, NEW d \in Int, c <= a, b <= d
    PROVE  BusinessDays(a, b) <= BusinessDays(c, d)
<1>1. {e \in a + 1 .. b : Weekday(e)} \in SUBSET {e \in c + 1 .. d : Weekday(e)}
  OBVIOUS
<1> QED
  BY <1>1, BusinessDaysType, FS_Subset DEF BusinessDays

LEMMA NoBusinessDays ==
    ASSUME NEW a \in Int
    PROVE  BusinessDays(a, a) = 0
<1>1. {e \in a + 1 .. a : Weekday(e)} = {}
  OBVIOUS
<1> QED
  BY <1>1, FS_EmptySet DEF BusinessDays

\* One more day, as the loop of business_days_between takes them.
LEMMA OneMoreDay ==
    ASSUME NEW a \in Int, NEW b \in Int, a <= b
    PROVE  BusinessDays(a, b + 1) = BusinessDays(a, b) + (IF Weekday(b + 1) THEN 1 ELSE 0)
<1> DEFINE D == {d \in a + 1 .. b : Weekday(d)}
           E == {d \in a + 1 .. b + 1 : Weekday(d)}
<1>1. IsFiniteSet(D) /\ Cardinality(D) \in Nat
  BY BusinessDaysType, FS_CardinalityType
<1>2. b + 1 \notin D
  OBVIOUS
<1>3. CASE Weekday(b + 1)
  <2>1. E = D \union {b + 1}
    BY <1>3
  <2>2. Cardinality(E) = Cardinality(D) + 1
    BY <1>1, <1>2, <2>1, FS_AddElement
  <2> QED
    BY <1>3, <2>2 DEF BusinessDays
<1>4. CASE ~Weekday(b + 1)
  <2>1. E = D
    BY <1>4
  <2> QED
    BY <1>1, <1>4, <2>1 DEF BusinessDays
<1> QED
  BY <1>3, <1>4

\* BusinessDays is what the loop of business_days_between returns: a count that
\* begins with nothing on the day a and goes up with each weekday after it.
THEOREM CountedDayByDay ==
    ASSUME NEW a \in Int, NEW n \in Nat, NEW days \in [0 .. n -> Nat],
           days[0] = 0,
           \A k \in 0 .. n - 1 :
              days[k + 1] = days[k] + (IF Weekday(a + k + 1) THEN 1 ELSE 0)
    PROVE  days[n] = BusinessDays(a, a + n)
<1> DEFINE Wrong == {k \in 0 .. n : days[k] # BusinessDays(a, a + k)}
           R == OpToRel(<, Nat)
<1>1. IsWellFoundedOn(R, Nat)
  BY NatLessThanWellFounded
<1>2. \A x, y \in Nat : x < y => <<x, y>> \in R
  BY DEF OpToRel
<1> HIDE DEF R
<1>3. SUFFICES ASSUME Wrong # {} PROVE FALSE
  BY <1>3
<1>4. Wrong \subseteq Nat
  OBVIOUS
<1> HIDE DEF Wrong
<1>5. PICK k \in Wrong : \A y \in Wrong : ~(<<y, k>> \in R)
  BY <1>1, <1>3, <1>4, WFMin
<1>6. k \in 0 .. n /\ days[k] # BusinessDays(a, a + k)
  BY DEF Wrong
<1>7. CASE k = 0
  BY <1>6, <1>7, NoBusinessDays
<1>8. CASE k # 0
  <2>1. k - 1 \in 0 .. n - 1 /\ k - 1 \in 0 .. n /\ k - 1 < k /\ k - 1 \in Nat /\ k \in Nat
    BY <1>6, <1>8
  <2>2. k - 1 \notin Wrong
    BY <1>2, <1>5, <2>1
  <2>3. days[k - 1] = BusinessDays(a, a + (k - 1))
    BY <2>1, <2>2 DEF Wrong
  <2>4. days[k] = days[k - 1] + (IF Weekday(a + k) THEN 1 ELSE 0)
    <3>1. (k - 1) + 1 = k /\ a + (k - 1) + 1 = a + k
      BY <2>1
    <3> QED
      BY <2>1, <3>1
  <2>5. BusinessDays(a, a + k) = BusinessDays(a, a + (k - 1)) + (IF Weekday(a + k) THEN 1 ELSE 0)
    <3>1. a + (k - 1) \in Int /\ a <= a + (k - 1) /\ a + (k - 1) + 1 = a + k
      BY <2>1
    <3> QED
      BY <3>1, OneMoreDay
  <2> QED
    BY <1>6, <2>3, <2>4, <2>5
<1> QED
  BY <1>7, <1>8

\* The newest of some events exists, since time has an end.
LEMMA NewestIs ==
    ASSUME NEW n \in Nat, NEW ids \in SUBSET (1 .. n), ids # {}
    PROVE  Newest(ids) \in ids /\ \A i \in ids : i <= Newest(ids)
<1> DEFINE T == {n - i : i \in ids}
           R == OpToRel(<, Nat)
<1>1. T \subseteq Nat /\ T # {}
  <2>1. \A i \in 1 .. n : n - i \in Nat
    OBVIOUS
  <2> QED
    BY <2>1
<1>2. IsWellFoundedOn(R, Nat)
  BY NatLessThanWellFounded
<1>3. \A x, y \in Nat : x < y => <<x, y>> \in R
  BY DEF OpToRel
<1> HIDE DEF R
<1>4. PICK x \in T : \A y \in T : ~(<<y, x>> \in R)
  BY <1>1, <1>2, WFMin
<1>5. \A y \in T : x <= y
  <2> HIDE DEF T
  <2>1. \A y \in T : ~(y < x) /\ x \in Nat /\ y \in Nat
    BY <1>1, <1>3, <1>4
  <2> QED
    BY <2>1
<1>6. PICK k \in ids : x = n - k
  OBVIOUS
<1>7. \A i \in ids : i <= k
  <2> SUFFICES ASSUME NEW i \in ids PROVE i <= k
    OBVIOUS
  <2>1. x <= n - i
    BY <1>5
  <2>2. i \in Int /\ k \in Int
    OBVIOUS
  <2> HIDE DEF T
  <2> QED
    BY <1>6, <2>1, <2>2
<1> QED
  BY <1>7 DEF Newest

LEMMA EventsType ==
    ASSUME TypeOK, NEW s \in Sub
    PROVE  /\ log[s] \in Seq(Event) /\ Len(log[s]) \in Nat
           /\ DOMAIN log[s] = 1 .. Len(log[s])
           /\ \A i \in DOMAIN log[s] : log[s][i] \in Event /\ log[s][i].day \in Nat
           /\ Acted(log[s]) \subseteq 1 .. Len(log[s])
           /\ Reminded(log[s]) \subseteq 1 .. Len(log[s])
           /\ Acted(log[s]) \intersect Reminded(log[s]) = {}
<1>1. log[s] \in Seq(Event)
  BY DEF TypeOK
<1>2. \A i \in DOMAIN log[s] : log[s][i] \in Event
  BY <1>1
<1>3. \A e \in Event : e.day \in Nat
  BY RemindersAssumption DEF Event
<1> QED
  BY <1>1, <1>2, <1>3 DEF Acted, Reminded

LEMMA LastActionIs ==
    ASSUME Typed, NEW s \in Sub
    PROVE  /\ LastAction(s) \in Acted(log[s]) /\ LastAction(s) \in DOMAIN log[s]
           /\ \A i \in Acted(log[s]) : i <= LastAction(s)
<1>1. Acted(log[s]) # {}
  BY DEF Typed, InOrder
<1> QED
  BY <1>1, EventsType, NewestIs DEF Typed, LastAction

-----------------------------------------------------------------------------
(* How the log of a submission grows.                                      *)

Noted(s, e) == log' = [log EXCEPT ![s] = Append(@, e)]

LEMMA Grown ==
    ASSUME TypeOK, NEW s \in Sub, NEW e \in Event, Noted(s, e)
    PROVE  /\ log' \in [Sub -> Seq(Event)]
           /\ \A t \in Sub : t # s => log'[t] = log[t]
           /\ DOMAIN log'[s] = 1 .. Len(log[s]) + 1
           /\ log'[s][Len(log[s]) + 1] = e
           /\ \A i \in 1 .. Len(log[s]) : log'[s][i] = log[s][i]
           /\ Acted(log'[s]) = Acted(log[s]) \union
                (IF e.kind = "action" THEN {Len(log[s]) + 1} ELSE {})
           /\ Reminded(log'[s]) = Reminded(log[s]) \union
                (IF e.kind = "reminder" THEN {Len(log[s]) + 1} ELSE {})
<1> DEFINE n == Len(log[s])
<1>1. /\ log \in [Sub -> Seq(Event)] /\ log[s] \in Seq(Event) /\ n \in Nat
      /\ DOMAIN log[s] = 1 .. n
  BY EventsType DEF TypeOK
<1>2. log'[s] = Append(log[s], e) /\ \A t \in Sub : t # s => log'[t] = log[t]
  BY <1>1 DEF Noted
<1>3. log' \in [Sub -> Seq(Event)]
  <2>1. Append(log[s], e) \in Seq(Event)
    BY <1>1
  <2> QED
    BY <1>1, <2>1 DEF Noted
<1>4. /\ DOMAIN log'[s] = 1 .. n + 1 /\ log'[s][n + 1] = e
      /\ \A i \in 1 .. n : log'[s][i] = log[s][i]
  BY <1>1, <1>2
<1> HIDE DEF n
<1>5. \A i \in 1 .. n + 1 : i \in 1 .. n \/ i = n + 1
  BY <1>1
<1>6. 1 .. n \subseteq 1 .. n + 1 /\ n + 1 \in 1 .. n + 1
  BY <1>1
<1>7. Acted(log'[s]) = Acted(log[s]) \union (IF e.kind = "action" THEN {n + 1} ELSE {})
  BY <1>1, <1>4, <1>5, <1>6 DEF Acted
<1>8. Reminded(log'[s]) = Reminded(log[s]) \union
                            (IF e.kind = "reminder" THEN {n + 1} ELSE {})
  BY <1>1, <1>4, <1>5, <1>6 DEF Reminded
<1> QED
  BY <1>2, <1>3, <1>4, <1>7, <1>8 DEF n

\* What a request notes, and what the run.
LEMMA ActNotes ==
    ASSUME TypeOK, NEW s \in Sub, Act(s)
    PROVE  \E t \in Stage :
             /\ ActionEvent(t) \in Event /\ ActionEvent(t).kind = "action"
             /\ ActionEvent(t).day = today
             /\ Noted(s, ActionEvent(t)) /\ status' = [status EXCEPT ![s] = t]
<1>1. \A t \in Stage : Leads[t] \subseteq Stage
  BY DEF Stage, Waiting, Leads
<1>2. status[s] \in Stage
  BY DEF TypeOK
<1>3. PICK t \in Leads[status[s]] \union {status[s]} :
         /\ status' = [status EXCEPT ![s] = t]
         /\ log' = [log EXCEPT ![s] = Append(@, ActionEvent(t))]
  BY DEF Act
<1>4. t \in Stage
  BY <1>1, <1>2, <1>3
<1> QED
  BY <1>3, <1>4 DEF Noted, ActionEvent, Event, TypeOK

LEMMA ReminderEventType ==
    ASSUME TypeOK, NEW t \in Waiting, NEW n
    PROVE  ReminderEvent(t, Copies(t, n)) \in Event
<1>1. Copies(t, n) \in BOOLEAN
  BY DEF Copies
<1> QED
  BY <1>1 DEF ReminderEvent, Event, Stage, TypeOK

LEMMA RemindNotes ==
    ASSUME Typed, NEW s \in Sub, Remind(s)
    PROVE  \E x \in job.todo :
             /\ x.sub = s /\ x.stage \in Waiting /\ x.since \in Acted(log[s])
             /\ job' = [job EXCEPT !.todo = @ \ {x}]
             /\ job'.todo = job.todo \ {x} /\ job'.now = job.now
             /\ \/ LET e == ReminderEvent(x.stage, Copies(x.stage, ReminderCount(x)))
                   IN  Due(x) /\ e \in Event /\ Noted(s, e)
                \/ ~Due(x) /\ log' = log
<1>1. PICK x \in job.todo :
        /\ x.sub = s
        /\ log' = IF Due(x)
                  THEN [log EXCEPT ![s] =
                          Append(@, ReminderEvent(x.stage,
                                      Copies(x.stage, ReminderCount(x))))]
                  ELSE log
        /\ job' = [job EXCEPT !.todo = @ \ {x}]
  BY DEF Remind
<1>2. x.stage \in Waiting /\ x.since \in Acted(log[s])
  BY <1>1 DEF Typed, TypeOK
<1>3. ReminderEvent(x.stage, Copies(x.stage, ReminderCount(x))) \in Event
  BY <1>2, ReminderEventType DEF Typed
<1>4. job'.todo = job.todo \ {x} /\ job'.now = job.now
  BY <1>1 DEF Typed, RunTyped
<1> QED
  BY <1>1, <1>2, <1>3, <1>4 DEF Noted

\* A step leaves the log as it is or notes one event of today.
LEMMA StepNotes ==
    ASSUME Typed, [Next]_vars
    PROVE  \/ log' = log
           \/ \E s \in Sub, e \in Event :
                Noted(s, e) /\ e.day = today /\ today' = today
<1>1. ASSUME NEW s \in Sub, Act(s)
      PROVE  \E e \in Event : Noted(s, e) /\ e.day = today /\ today' = today
  BY <1>1, ActNotes DEF Typed, Act
<1>2. ASSUME NEW s \in Sub, Remind(s)
      PROVE  \/ log' = log
             \/ \E e \in Event : Noted(s, e) /\ e.day = today /\ today' = today
  <2>1. today' = today
    BY <1>2 DEF Remind
  <2> QED
    BY <1>2, <2>1, RemindNotes DEF ReminderEvent
<1>3. CASE NextDay \/ Start \/ Finish \/ Break \/ UNCHANGED vars
  BY <1>3 DEF NextDay, Start, Finish, Break, vars
<1> QED
  BY <1>1, <1>2, <1>3 DEF Next

-----------------------------------------------------------------------------
(* Types, and the order of events.                                         *)

LEMMA TypedInit == Init => Typed
<1> SUFFICES ASSUME Init PROVE Typed
  OBVIOUS
<1> USE RemindersAssumption
<1>1. \A s \in Sub : /\ log[s] = <<ActionEvent(status[s])>>
                     /\ log[s] \in Seq(Event) /\ ActionEvent(status[s]).day = 0
                     /\ ActionEvent(status[s]).kind = "action"
  <2>1. today = 0 /\ 0 \in 0 .. MaxDay
    BY DEF Init
  <2>2. \A s \in Sub : ActionEvent(status[s]) \in Event
    BY <2>1 DEF Init, ActionEvent, Event, Stage, Waiting
  <2>3. \A e \in Event : <<e>> \in Seq(Event)
    OBVIOUS
  <2>4. \A s \in Sub : log[s] = <<ActionEvent(status[s])>>
    BY DEF Init
  <2> QED
    BY <2>1, <2>2, <2>3, <2>4 DEF ActionEvent
<1>2. log \in [Sub -> Seq(Event)]
  BY <1>1 DEF Init
<1>3. RunTyped /\ job.now = -1 /\ job.todo = {}
  BY DEF Init, NoRun, RunTyped
<1>4. TypeOK
  BY <1>2, <1>3 DEF Init, TypeOK, Stage, Waiting
<1>5. InOrder
  <2> SUFFICES ASSUME NEW s \in Sub
               PROVE  /\ 1 \in Acted(log[s])
                      /\ \A i \in DOMAIN log[s] : i = 1 /\ log[s][i].day = 0
    BY DEF InOrder, Init
  <2>1. DOMAIN log[s] = {1} /\ log[s][1] = ActionEvent(status[s])
    BY <1>1
  <2> QED
    BY <1>1, <2>1 DEF Acted
<1> QED
  BY <1>3, <1>4, <1>5 DEF Typed

LEMMA OrderStep ==
    ASSUME Typed, [Next]_vars
    PROVE  InOrder'
<1>1. today' \in Nat /\ today <= today'
  BY DEF Next, Typed, TypeOK, NextDay, Start, Finish, Break, Act, Remind, vars
<1>2. CASE log' = log
  <2>1. \A s \in Sub : \A i \in DOMAIN log[s] : log[s][i].day \in Nat
    BY EventsType DEF Typed
  <2> QED
    BY <1>1, <1>2, <2>1 DEF Typed, TypeOK, InOrder
<1>3. ASSUME NEW s \in Sub, NEW e \in Event, Noted(s, e), e.day = today, today' = today
      PROVE  InOrder'
  <2> DEFINE n == Len(log[s])
  <2>1. /\ n \in Nat /\ DOMAIN log[s] = 1 .. n /\ Acted(log[s]) \subseteq 1 .. n
        /\ \A i \in 1 .. n : log[s][i].day \in Nat
    BY EventsType DEF Typed
  <2>2. /\ \A t \in Sub : t # s => log'[t] = log[t]
        /\ DOMAIN log'[s] = 1 .. n + 1 /\ log'[s][n + 1] = e
        /\ \A i \in 1 .. n : log'[s][i] = log[s][i]
        /\ Acted(log[s]) \subseteq Acted(log'[s])
    BY <1>3, Grown DEF Typed
  <2>3. \A t \in Sub : t # s => /\ 1 \in Acted(log'[t])
                                /\ \A i \in DOMAIN log'[t] : log'[t][i].day <= today'
                                /\ \A i, j \in DOMAIN log'[t] : i <= j =>
                                      log'[t][i].day <= log'[t][j].day
    BY <1>3, <2>2 DEF Typed, InOrder
  <2>4. 1 \in Acted(log'[s])
    BY <2>2 DEF Typed, InOrder
  <2> HIDE DEF n
  <2>5. \A i \in 1 .. n : log[s][i].day <= today
    BY <2>1 DEF Typed, InOrder
  <2>6. \A i \in DOMAIN log'[s] : log'[s][i].day <= today'
    <3> SUFFICES ASSUME NEW i \in 1 .. n + 1 PROVE log'[s][i].day <= today
      BY <1>3, <2>2
    <3>1. CASE i = n + 1
      BY <1>1, <1>3, <2>2, <3>1
    <3>2. CASE i \in 1 .. n
      BY <2>2, <2>5, <3>2
    <3> QED
      BY <2>1, <3>1, <3>2
  <2>7. \A i, j \in DOMAIN log'[s] : i <= j => log'[s][i].day <= log'[s][j].day
    <3> SUFFICES ASSUME NEW i \in 1 .. n + 1, NEW j \in 1 .. n + 1, i <= j
                 PROVE  log'[s][i].day <= log'[s][j].day
      BY <2>2
    <3>1. CASE j = n + 1
      BY <1>3, <2>2, <2>6, <3>1
    <3>2. CASE j \in 1 .. n
      <4>1. i \in 1 .. n
        BY <2>1, <3>2
      <4>2. log[s][i].day <= log[s][j].day
        BY <2>1, <3>2, <4>1 DEF Typed, InOrder
      <4> QED
        BY <2>2, <3>2, <4>1, <4>2
    <3> QED
      BY <2>1, <3>1, <3>2
  <2> QED
    BY <2>3, <2>4, <2>6, <2>7 DEF InOrder
<1> QED
  BY <1>2, <1>3, StepNotes

LEMMA TypedStep ==
    ASSUME Typed, [Next]_vars
    PROVE  Typed'
<1> USE RemindersAssumption
<1>1. InOrder'
  BY OrderStep
\* Rows of the run stay rows of the log as the log grows.
<1>2. log' \in [Sub -> Seq(Event)] /\ \A s \in Sub : Acted(log[s]) \subseteq Acted(log'[s])
  <2>1. CASE log' = log
    BY <2>1 DEF Typed, TypeOK
  <2>2. ASSUME NEW s \in Sub, NEW e \in Event, Noted(s, e)
        PROVE  /\ log' \in [Sub -> Seq(Event)]
               /\ \A t \in Sub : Acted(log[t]) \subseteq Acted(log'[t])
    BY <2>2, Grown DEF Typed
  <2> QED
    BY <2>1, <2>2, StepNotes
<1>3. CASE NextDay
  BY <1>1, <1>2, <1>3 DEF NextDay, Typed, TypeOK, RunTyped
<1>4. CASE Start
  <2> DEFINE todo == {[sub |-> s, stage |-> status[s], since |-> LastAction(s)] :
                         s \in {x \in Sub : status[x] \in Waiting}}
  <2>1. job' = [now |-> today, todo |-> todo]
    BY <1>4 DEF Start
  <2>2. \A x \in todo : /\ x.sub \in Sub /\ x.stage \in Waiting
                        /\ x.since \in Acted(log[x.sub])
    BY LastActionIs
  <2>3. \A s \in Sub : LastAction(s) \in Nat
    BY LastActionIs, EventsType DEF Typed
  <2>4. todo \subseteq [sub: Sub, stage: Waiting, since: Nat]
    BY <2>3
  <2> HIDE DEF todo
  <2>5. RunTyped'
    BY <2>1, <2>4 DEF RunTyped, Typed, TypeOK
  <2> QED
    BY <1>1, <1>2, <1>4, <2>1, <2>2, <2>5 DEF Start, Typed, TypeOK
<1>5. CASE Finish \/ Break
  <2>1. job' = NoRun /\ NoRun.now = -1 /\ NoRun.todo = {}
    BY <1>5 DEF Finish, Break, NoRun
  <2>2. RunTyped'
    BY <2>1 DEF RunTyped, NoRun
  <2>3. UNCHANGED <<today, status, log>> /\ swept' \in -1 .. today
    BY <1>5 DEF Finish, Break, Typed, TypeOK
  <2>4. job'.now \in -1 .. today /\ job'.todo = {}
    BY <2>1 DEF Typed, TypeOK
  <2> QED
    BY <1>1, <1>2, <2>2, <2>3, <2>4 DEF Typed, TypeOK
<1>6. ASSUME NEW s \in Sub, Act(s) PROVE Typed'
  <2>1. status' \in [Sub -> Stage]
    BY <1>6, ActNotes DEF Typed, TypeOK
  <2> QED
    BY <1>1, <1>2, <1>6, <2>1 DEF Act, Typed, TypeOK, RunTyped
<1>7. ASSUME NEW s \in Sub, Remind(s) PROVE Typed'
  <2>1. PICK x \in job.todo : job' = [job EXCEPT !.todo = @ \ {x}]
    BY <1>7 DEF Remind
  <2>2. job'.todo = job.todo \ {x} /\ job'.now = job.now /\ RunTyped'
    BY <2>1 DEF Typed, RunTyped
  <2> QED
    BY <1>1, <1>2, <1>7, <2>2 DEF Remind, Typed, TypeOK
<1>8. CASE UNCHANGED vars
  BY <1>8 DEF vars, Typed, TypeOK, RunTyped, InOrder
<1> QED
  BY <1>3, <1>4, <1>5, <1>6, <1>7, <1>8 DEF Next

-----------------------------------------------------------------------------
(* Reminders keep their distance.                                          *)

\* Business days up to today that some event is old.
LEMMA AgeType ==
    ASSUME Typed, NEW s \in Sub, NEW i \in DOMAIN log[s]
    PROVE  /\ BusinessDays(log[s][i].day, today) \in Nat
           /\ BusinessDays(log[s][i].day, job.now) \in Nat
           /\ BusinessDays(log[s][i].day, job.now) <= BusinessDays(log[s][i].day, today)
<1>1. log[s][i].day \in Int /\ today \in Int /\ job.now \in Int /\ job.now <= today
  BY EventsType DEF Typed, TypeOK
<1> DEFINE a == log[s][i].day
           b == job.now
<1>2. a \in Int /\ b \in Int /\ today \in Int /\ a <= a /\ b <= today
  BY <1>1
<1> HIDE DEF a, b
<1>3. /\ BusinessDays(a, b) <= BusinessDays(a, today)
      /\ BusinessDays(a, b) \in Nat /\ BusinessDays(a, today) \in Nat
  BY <1>2, BusinessDaysGrow, BusinessDaysType
<1> QED
  BY <1>3 DEF a, b

\* A reminder that is due is far from all before it.
LEMMA DueIsFar ==
    ASSUME Typed, NEW x \in job.todo, Due(x), NEW i \in Reminded(log[x.sub])
    PROVE  BusinessDays(log[x.sub][i].day, today) >= Threshold[x.stage]
<1> DEFINE s == x.sub
           n == Newest(Reminded(log[s]))
<1>1. s \in Sub /\ x.stage \in Waiting
  BY DEF Typed, TypeOK
<1>2. n \in Reminded(log[s]) /\ i <= n /\ n \in DOMAIN log[s] /\ i \in DOMAIN log[s]
  BY <1>1, EventsType, NewestIs DEF Typed, Reminded
<1>3. log[s][i].day <= log[s][n].day /\ log[s][i].day \in Nat /\ log[s][n].day \in Nat
  BY <1>1, <1>2, EventsType DEF Typed, InOrder
<1>4. ~(BusinessDays(log[s][n].day, job.now) < Threshold[x.stage])
  BY <1>2 DEF Due, RecentlyReminded
<1>5. job.now \in Int /\ today \in Int /\ job.now <= today
  BY DEF Typed, TypeOK
<1>6. /\ BusinessDays(log[s][n].day, job.now) <= BusinessDays(log[s][i].day, today)
      /\ BusinessDays(log[s][n].day, job.now) \in Nat
      /\ BusinessDays(log[s][i].day, today) \in Nat
  <2> DEFINE a == log[s][n].day
             b == job.now
             c == log[s][i].day
  <2>1. a \in Int /\ b \in Int /\ c \in Int /\ today \in Int /\ c <= a /\ b <= today
    BY <1>3, <1>5
  <2> HIDE DEF a, b, c
  <2>2. /\ BusinessDays(a, b) <= BusinessDays(c, today)
        /\ BusinessDays(a, b) \in Nat /\ BusinessDays(c, today) \in Nat
    BY <2>1, BusinessDaysGrow, BusinessDaysType
  <2> QED
    BY <2>2 DEF a, b, c
<1>7. Threshold[x.stage] \in Nat
  BY <1>1, RemindersAssumption
<1> QED
  BY <1>4, <1>6, <1>7

LEMMA SpacedStep ==
    ASSUME Typed, RemindersSpaced, [Next]_vars
    PROVE  RemindersSpaced'
<1> DEFINE Far(s, i, j) == BusinessDays(log'[s][i].day, log'[s][j].day)
                             >= Threshold[log'[s][j].stage]
<1>1. CASE log' = log
  BY <1>1 DEF RemindersSpaced
<1>2. ASSUME NEW s \in Sub, NEW e \in Event, Noted(s, e),
             e.kind = "reminder" =>
                \A i \in Reminded(log[s]) :
                    BusinessDays(log[s][i].day, e.day) >= Threshold[e.stage]
      PROVE  RemindersSpaced'
  <2> DEFINE n == Len(log[s])
  <2>1. n \in Nat /\ Reminded(log[s]) \subseteq 1 .. n
    BY EventsType DEF Typed
  <2>2. /\ \A t \in Sub : t # s => log'[t] = log[t]
        /\ log'[s][n + 1] = e
        /\ \A i \in 1 .. n : log'[s][i] = log[s][i]
        /\ Reminded(log'[s]) = Reminded(log[s]) \union
                                 (IF e.kind = "reminder" THEN {n + 1} ELSE {})
    BY <1>2, Grown DEF Typed
  <2>3. \A i, j \in Reminded(log'[s]) : i < j => Far(s, i, j)
    <3> SUFFICES ASSUME NEW i \in Reminded(log'[s]), NEW j \in Reminded(log'[s]), i < j
                 PROVE  Far(s, i, j)
      OBVIOUS
    <3> HIDE DEF n
    <3>1. CASE j = n + 1
      <4>1. i \in Reminded(log[s]) /\ e.kind = "reminder"
        BY <2>1, <2>2, <3>1
      <4> QED
        BY <1>2, <2>1, <2>2, <3>1, <4>1
    <3>2. CASE j # n + 1
      <4>1. i \in Reminded(log[s]) /\ j \in Reminded(log[s])
        BY <2>1, <2>2, <3>2
      <4> QED
        BY <2>1, <2>2, <4>1 DEF RemindersSpaced
    <3> QED
      BY <3>1, <3>2
  <2> QED
    BY <2>2, <2>3 DEF RemindersSpaced
<1>3. ASSUME NEW s \in Sub, Act(s) PROVE RemindersSpaced'
  BY <1>2, <1>3, ActNotes DEF Typed
<1>4. ASSUME NEW s \in Sub, Remind(s) PROVE RemindersSpaced'
  <2>1. PICK x \in job.todo :
          /\ x.sub = s
          /\ \/ LET e == ReminderEvent(x.stage, Copies(x.stage, ReminderCount(x)))
                IN  Due(x) /\ e \in Event /\ Noted(s, e)
             \/ log' = log
    BY <1>4, RemindNotes
  <2>2. CASE Due(x)
    <3>1. \A i \in Reminded(log[s]) :
             BusinessDays(log[s][i].day, today) >= Threshold[x.stage]
      BY <2>1, <2>2, DueIsFar
    <3> QED
      BY <1>1, <1>2, <2>1, <3>1 DEF ReminderEvent
  <2> QED
    BY <1>1, <2>1, <2>2
<1>5. CASE NextDay \/ Start \/ Finish \/ Break \/ UNCHANGED vars
  BY <1>1, <1>5 DEF NextDay, Start, Finish, Break, vars
<1> QED
  BY <1>3, <1>4, <1>5 DEF Next

-----------------------------------------------------------------------------
(* Unanswered actions are escalated.                                       *)

\* The reminders of the action that reminder i is about, before it.
Earlier(events, i) ==
    {j \in Reminded(events) :
        Newest({a \in Acted(events) : a < i}) < j /\ j < i}

CopiedInTime(events, i) ==
    (Cardinality(Earlier(events, i)) >= Patience(events[i].stage))
    /\ HasCopies(events[i].stage)
      => events[i].copied

LEMMA EscalatedMeans ==
    EscalatedInTime <=> \A s \in Sub : \A i \in Reminded(log[s]) : CopiedInTime(log[s], i)
  BY DEF EscalatedInTime, CopiedInTime, Earlier, Patience

\* The run counts from the action it loaded, which is not after the last one,
\* so that it counts no reminder too few.
LEMMA DueIsCopied ==
    ASSUME Typed, NEW x \in job.todo,
           Cardinality({j \in Reminded(log[x.sub]) : LastAction(x.sub) < j})
               >= Patience(x.stage),
           HasCopies(x.stage)
    PROVE  Copies(x.stage, ReminderCount(x))
<1> DEFINE s == x.sub
           few == {j \in Reminded(log[s]) : LastAction(s) < j}
           many == {i \in Reminded(log[s]) : i > x.since}
<1>1. s \in Sub /\ x.since \in Acted(log[s])
  BY DEF Typed, TypeOK
<1>2. /\ Reminded(log[s]) \subseteq 1 .. Len(log[s]) /\ Len(log[s]) \in Nat
      /\ LastAction(s) \in Nat /\ x.since \in Nat /\ x.since <= LastAction(s)
  BY <1>1, EventsType, LastActionIs DEF Typed
<1>3. few \in SUBSET many
  BY <1>2
<1>4. IsFiniteSet(many)
  <2> DEFINE n == Len(log[s])
  <2>1. many \in SUBSET (1 .. n) /\ n \in Nat
    BY <1>2
  <2> HIDE DEF n, many
  <2>2. IsFiniteSet(1 .. n)
    BY <2>1, FS_Interval
  <2> QED
    BY <2>1, <2>2, FS_Subset
<1>5. Cardinality(few) <= Cardinality(many)
  BY <1>3, <1>4, FS_Subset
<1>6. Cardinality(few) \in Nat /\ Cardinality(many) \in Nat /\ Patience(x.stage) \in Nat
  BY <1>3, <1>4, FS_Subset, FS_CardinalityType DEF Patience
<1>7. Cardinality(few) >= Patience(x.stage) /\ ReminderCount(x) = Cardinality(many)
  BY DEF ReminderCount
<1> HIDE DEF few, many
<1> QED
  BY <1>5, <1>6, <1>7 DEF Copies

LEMMA NotedEscalated ==
    ASSUME Typed, EscalatedInTime, NEW s \in Sub, NEW e \in Event, Noted(s, e),
           e.kind = "reminder" =>
               ((Cardinality({j \in Reminded(log[s]) : LastAction(s) < j})
                     >= Patience(e.stage))
                /\ HasCopies(e.stage) => e.copied)
    PROVE  EscalatedInTime'
<1> DEFINE n == Len(log[s])
           old == log[s]
           new == log'[s]
<1>1. n \in Nat /\ Reminded(old) \subseteq 1 .. n /\ Acted(old) \subseteq 1 .. n
  BY EventsType DEF Typed
<1>2. /\ \A t \in Sub : t # s => log'[t] = log[t]
      /\ new[n + 1] = e
      /\ \A i \in 1 .. n : new[i] = old[i]
      /\ Acted(new) = Acted(old) \union
                        (IF e.kind = "action" THEN {n + 1} ELSE {})
      /\ Reminded(new) = Reminded(old) \union
                           (IF e.kind = "reminder" THEN {n + 1} ELSE {})
  BY Grown DEF Typed
<1>3. LastAction(s) = Newest(Acted(old))
  BY DEF LastAction
<1>4. \A i \in Reminded(old) : CopiedInTime(old, i)
  BY EscalatedMeans
<1> HIDE DEF n, old, new
<1>5. ASSUME NEW i \in Reminded(new) PROVE CopiedInTime(new, i)
  <2>1. CASE i \in 1 .. n
    <3>1. {a \in Acted(new) : a < i} = {a \in Acted(old) : a < i}
      BY <1>1, <1>2, <2>1
    <3> DEFINE k == Newest({a \in Acted(old) : a < i})
    <3>2. /\ Earlier(new, i) = {j \in Reminded(new) : k < j /\ j < i}
          /\ Earlier(old, i) = {j \in Reminded(old) : k < j /\ j < i}
      BY <3>1 DEF Earlier
    <3> HIDE DEF k
    <3>4. \A j : j \in Reminded(new) /\ j < i <=> j \in Reminded(old) /\ j < i
      BY <1>1, <1>2, <2>1
    <3>5. Earlier(new, i) = Earlier(old, i)
      BY <3>2, <3>4
    <3>3. i \in Reminded(old) /\ new[i] = old[i]
      BY <1>1, <1>2, <2>1
    <3> QED
      BY <1>4, <3>3, <3>5 DEF CopiedInTime
  <2>2. CASE i = n + 1
    <3>1. e.kind = "reminder" /\ new[i] = e
      BY <1>1, <1>2, <2>2
    <3>2. {a \in Acted(new) : a < i} = Acted(old)
      BY <1>1, <1>2, <2>2, <3>1
    <3>3. Earlier(new, i) = {j \in Reminded(old) : LastAction(s) < j}
      BY <1>1, <1>2, <1>3, <2>2, <3>2 DEF Earlier
    <3> QED
      BY <3>1, <3>3 DEF CopiedInTime, old
  <2> QED
    BY <1>1, <1>2, <2>1, <2>2
<1>6. \A t \in Sub : t # s => \A i \in Reminded(log'[t]) : CopiedInTime(log'[t], i)
  BY <1>2, EscalatedMeans
<1>7. \A t \in Sub : \A i \in Reminded(log'[t]) : CopiedInTime(log'[t], i)
  BY <1>5, <1>6 DEF new
<1> QED
  BY <1>7 DEF EscalatedInTime, CopiedInTime, Earlier, Patience

LEMMA EscalatedStep ==
    ASSUME Typed, EscalatedInTime, [Next]_vars
    PROVE  EscalatedInTime'
<1>1. CASE log' = log
  BY <1>1 DEF EscalatedInTime
<1>2. ASSUME NEW s \in Sub, Act(s) PROVE EscalatedInTime'
  BY <1>2, ActNotes, NotedEscalated DEF Typed
<1>3. ASSUME NEW s \in Sub, Remind(s) PROVE EscalatedInTime'
  <2>1. PICK x \in job.todo :
          /\ x.sub = s
          /\ \/ LET e == ReminderEvent(x.stage, Copies(x.stage, ReminderCount(x)))
                IN  e \in Event /\ Noted(s, e)
             \/ log' = log
    BY <1>3, RemindNotes
  <2> DEFINE e == ReminderEvent(x.stage, Copies(x.stage, ReminderCount(x)))
  <2>2. e.stage = x.stage /\ e.copied = Copies(x.stage, ReminderCount(x))
    BY DEF ReminderEvent
  <2>3. (Cardinality({j \in Reminded(log[s]) : LastAction(s) < j}) >= Patience(e.stage))
        /\ HasCopies(e.stage) => e.copied
    BY <2>1, <2>2, DueIsCopied
  <2>4. (e \in Event /\ Noted(s, e)) \/ log' = log
    BY <2>1
  <2> HIDE DEF e
  <2> QED
    BY <1>1, <2>3, <2>4, NotedEscalated
<1>4. CASE NextDay \/ Start \/ Finish \/ Break \/ UNCHANGED vars
  BY <1>1, <1>4 DEF NextDay, Start, Finish, Break, vars
<1> QED
  BY <1>2, <1>3, <1>4 DEF Next

-----------------------------------------------------------------------------
(* Nobody is forgotten by a run that goes through.                         *)

LEMMA ForgottenMeans == NobodyForgotten <=> (swept = today => \A s \in Sub : Served(s))
  BY DEF NobodyForgotten, Served

\* An action of today is not outstanding.
LEMMA ActServes ==
    ASSUME Typed, NEW s \in Sub, Act(s)
    PROVE  Served(s)' /\ ActedToday(s)'
<1> DEFINE n == Len(log[s])
<1>1. PICK t \in Stage :
        /\ ActionEvent(t) \in Event /\ ActionEvent(t).kind = "action"
        /\ ActionEvent(t).day = today /\ Noted(s, ActionEvent(t))
  BY ActNotes DEF Typed
<1>2. n \in Nat /\ Acted(log[s]) \subseteq 1 .. n
  BY EventsType DEF Typed
<1>3. /\ log'[s][n + 1] = ActionEvent(t)
      /\ Acted(log'[s]) = Acted(log[s]) \union {n + 1}
  BY <1>1, Grown DEF Typed
<1> HIDE DEF n
<1>4. Acted(log'[s]) \in SUBSET (1 .. n + 1) /\ n + 1 \in Nat /\ n + 1 \in Acted(log'[s])
  BY <1>2, <1>3
<1>5. Newest(Acted(log'[s])) = n + 1
  <2>1. /\ Newest(Acted(log'[s])) \in Acted(log'[s])
        /\ n + 1 <= Newest(Acted(log'[s]))
    BY <1>4, NewestIs
  <2> QED
    BY <1>4, <2>1
<1>6. today' = today /\ today \in Int
  BY DEF Act, Typed, TypeOK
<1>7. ActedToday(s)'
  BY <1>1, <1>3, <1>5, <1>6 DEF ActedToday, LastAction
<1>8. ASSUME status'[s] \in Waiting
      PROVE  ~(BusinessDays(log'[s][LastAction(s)'].day, today') >= Threshold[status'[s]])
  <2>1. BusinessDays(log'[s][LastAction(s)'].day, today') = 0
    BY <1>6, <1>7, NoBusinessDays DEF ActedToday
  <2>2. Threshold[status'[s]] \in Nat \ {0}
    BY <1>8, RemindersAssumption
  <2> QED
    BY <2>1, <2>2
<1> QED
  BY <1>7, <1>8 DEF Served

\* A reminder of today is a late one.
LEMMA ReminderServes ==
    ASSUME Typed, NEW s \in Sub, NEW e \in Event, Noted(s, e),
           e.kind = "reminder", e.day = today, UNCHANGED <<status, today>>
    PROVE  Served(s)'
<1> DEFINE n == Len(log[s])
<1>1. n + 1 \in Reminded(log'[s]) /\ log'[s][n + 1].day = today /\ today \in Int
  <2>1. /\ Reminded(log'[s]) = Reminded(log[s]) \union {n + 1}
        /\ log'[s][n + 1] = e
    BY Grown DEF Typed
  <2>2. today \in Int
    BY DEF Typed, TypeOK
  <2> QED
    BY <2>1, <2>2
<1>2. BusinessDays(log'[s][n + 1].day, today') = 0
  BY <1>1, NoBusinessDays
<1>3. status'[s] \in Waiting =>
         BusinessDays(log'[s][n + 1].day, today') < Threshold[status'[s]]
  <2>1. status'[s] \in Waiting => Threshold[status'[s]] \in Nat \ {0}
    BY RemindersAssumption
  <2> QED
    BY <1>2, <2>1
<1> HIDE DEF n
<1> QED
  BY <1>1, <1>3 DEF Served

\* What is current and not due today has been seen to.
LEMMA NotDueServed ==
    ASSUME Typed, NEW x \in job.todo, job.now = today, ~Due(x),
           Current(x) \/ ActedToday(x.sub)
    PROVE  Served(x.sub)
<1> DEFINE s == x.sub
<1>1. s \in Sub /\ today \in Int
  BY DEF Typed, TypeOK
<1>2. CASE ActedToday(s)
  <2>1. BusinessDays(log[s][LastAction(s)].day, today) = 0
    BY <1>1, <1>2, NoBusinessDays DEF ActedToday
  <2>2. status[s] \in Waiting => Threshold[status[s]] \in Nat \ {0}
    BY RemindersAssumption
  <2>3. status[s] \in Waiting => ~(0 >= Threshold[status[s]])
    BY <2>2
  <2> QED
    BY <2>1, <2>3 DEF Served
<1>3. CASE Current(x)
  <2> DEFINE r == Newest(Reminded(log[s]))
  <2> SUFFICES ASSUME status[s] \in Waiting, HasRecipients(status[s]),
                      BusinessDays(log[s][LastAction(s)].day, today) >= Threshold[status[s]]
               PROVE  \E i \in Reminded(log[s]) :
                         BusinessDays(log[s][i].day, today) < Threshold[status[s]]
    BY DEF Served
  <2>1. RecentlyReminded(x)
    BY <1>3 DEF Current, Due, Outstanding
  <2>2. /\ Reminded(log[s]) # {}
        /\ BusinessDays(log[s][r].day, today) < Threshold[status[s]]
    BY <1>3, <2>1 DEF Current, RecentlyReminded
  <2>3. r \in Reminded(log[s])
    BY <1>1, <2>2, EventsType, NewestIs DEF Typed
  <2> QED
    BY <2>2, <2>3
<1> QED
  BY <1>2, <1>3

LEMMA RemindCatchesUp ==
    ASSUME Typed, CaughtUp, NEW s \in Sub, Remind(s)
    PROVE  CaughtUp'
<1>1. PICK x \in job.todo :
        /\ x.sub = s
        /\ job'.todo = job.todo \ {x} /\ job'.now = job.now
        /\ \/ LET e == ReminderEvent(x.stage, Copies(x.stage, ReminderCount(x)))
              IN  Due(x) /\ e \in Event /\ Noted(s, e)
           \/ ~Due(x) /\ log' = log
  BY RemindNotes
<1>2. UNCHANGED <<today, status, swept>>
  BY DEF Remind
<1> DEFINE e == ReminderEvent(x.stage, Copies(x.stage, ReminderCount(x)))
<1>3. e.kind = "reminder" /\ e.day = today
  BY DEF ReminderEvent
<1>4. (Due(x) /\ e \in Event /\ Noted(s, e)) \/ (~Due(x) /\ log' = log)
  BY <1>1
<1> HIDE DEF e
\* Nobody's last action is another than before.
<1>5. \A t \in Sub : /\ LastAction(t)' = LastAction(t)
                     /\ log'[t][LastAction(t)] = log[t][LastAction(t)]
                     /\ t # s => log'[t] = log[t]
  <2>1. CASE log' = log
    BY <2>1 DEF LastAction
  <2>2. CASE e \in Event /\ Noted(s, e)
    <3>1. /\ \A t \in Sub : t # s => log'[t] = log[t]
          /\ Acted(log'[s]) = Acted(log[s])
          /\ \A i \in 1 .. Len(log[s]) : log'[s][i] = log[s][i]
      BY <1>3, <2>2, Grown DEF Typed
    <3>2. LastAction(s) \in 1 .. Len(log[s])
      BY LastActionIs, EventsType DEF Typed
    <3> QED
      BY <3>1, <3>2 DEF LastAction
  <2> QED
    BY <1>4, <2>1, <2>2
<1>6. \A t \in Sub : t # s /\ Served(t) => Served(t)'
  BY <1>2, <1>5 DEF Served
<1>7. CASE Noted(s, e) /\ e \in Event
  <2>1. Served(s)'
    BY <1>2, <1>3, <1>7, ReminderServes
  <2>2. NobodyForgotten'
    <3>1. swept' = today' => \A t \in Sub : Served(t)'
      BY <1>2, <1>6, <2>1, ForgottenMeans DEF CaughtUp
    <3> QED
      BY <3>1 DEF NobodyForgotten, Served
  <2>3. ASSUME job'.now = today', NEW t \in Sub
        PROVE  (\E y \in job'.todo : y.sub = t) \/ Served(t)'
    BY <1>1, <1>2, <1>6, <2>1, <2>3 DEF CaughtUp
  <2>4. ASSUME job'.now = today', NEW y \in job'.todo
        PROVE  Current(y)' \/ ActedToday(y.sub)'
    <3>1. y \in job.todo /\ y.sub \in Sub
      BY <1>1 DEF Typed, TypeOK
    <3> QED
      BY <1>1, <1>2, <1>5, <2>4, <3>1 DEF CaughtUp, Current, ActedToday
  <2> QED
    BY <2>2, <2>3, <2>4 DEF CaughtUp
<1>8. CASE ~Due(x) /\ log' = log
  <2>1. \A t \in Sub : Served(t)' <=> Served(t)
    BY <1>2, <1>8 DEF Served, LastAction
  <2>2. NobodyForgotten'
    BY <1>2, <1>8 DEF CaughtUp, NobodyForgotten, LastAction
  <2>3. job.now = today => Served(s)
    BY <1>1, <1>8, NotDueServed DEF CaughtUp
  <2>4. ASSUME job'.now = today', NEW t \in Sub
        PROVE  (\E y \in job'.todo : y.sub = t) \/ Served(t)'
    BY <1>1, <1>2, <2>1, <2>3, <2>4 DEF CaughtUp
  <2>5. ASSUME job'.now = today', NEW y \in job'.todo
        PROVE  Current(y)' \/ ActedToday(y.sub)'
    <3>1. y \in job.todo /\ y.sub \in Sub
      BY <1>1 DEF Typed, TypeOK
    <3> QED
      BY <1>1, <1>2, <1>5, <2>5, <3>1 DEF CaughtUp, Current, ActedToday
  <2> QED
    BY <2>2, <2>4, <2>5 DEF CaughtUp
<1> QED
  BY <1>4, <1>7, <1>8

LEMMA ActCatchesUp ==
    ASSUME Typed, CaughtUp, NEW s \in Sub, Act(s)
    PROVE  CaughtUp'
<1>1. Served(s)' /\ ActedToday(s)'
  BY ActServes
<1>2. UNCHANGED <<today, job, swept>>
  BY DEF Act
<1>3. \A t \in Sub : t # s => log'[t] = log[t] /\ status'[t] = status[t]
  BY ActNotes, Grown DEF Typed, TypeOK
<1>4. \A t \in Sub : t # s => /\ Served(t) => Served(t)'
                              /\ ActedToday(t) => ActedToday(t)'
                              /\ LastAction(t)' = LastAction(t)
  BY <1>2, <1>3 DEF Served, ActedToday, LastAction
<1>5. NobodyForgotten'
  <2>1. swept' = today' => \A t \in Sub : Served(t)'
    BY <1>1, <1>2, <1>4, ForgottenMeans DEF CaughtUp
  <2> QED
    BY <2>1 DEF NobodyForgotten, Served
<1>6. ASSUME job'.now = today', NEW t \in Sub
      PROVE  (\E y \in job'.todo : y.sub = t) \/ Served(t)'
  BY <1>1, <1>2, <1>4, <1>6 DEF CaughtUp
<1>7. ASSUME job'.now = today', NEW y \in job'.todo
      PROVE  Current(y)' \/ ActedToday(y.sub)'
  <2>1. y \in job.todo /\ y.sub \in Sub
    BY <1>2 DEF Typed, TypeOK
  <2>2. CASE y.sub = s
    BY <1>1, <2>2
  <2>3. CASE y.sub # s
    BY <1>2, <1>3, <1>4, <1>7, <2>1, <2>3 DEF CaughtUp, Current
  <2> QED
    BY <2>2, <2>3
<1> QED
  BY <1>5, <1>6, <1>7 DEF CaughtUp

LEMMA CaughtUpStep ==
    ASSUME Typed, CaughtUp, [Next]_vars
    PROVE  CaughtUp'
<1>1. CASE NextDay
  <2>1. swept' # today' /\ job'.now # today'
    BY <1>1 DEF NextDay, Typed, TypeOK
  <2> QED
    BY <2>1 DEF CaughtUp, NobodyForgotten
<1>2. CASE Start
  <2>1. /\ UNCHANGED <<today, status, log, swept>>
        /\ job'.todo = {[sub |-> s, stage |-> status[s], since |-> LastAction(s)] :
                          s \in {x \in Sub : status[x] \in Waiting}}
    BY <1>2 DEF Start
  <2>2. NobodyForgotten'
    BY <2>1 DEF CaughtUp, NobodyForgotten, LastAction
  <2>3. \A s \in Sub : (\E x \in job'.todo : x.sub = s) \/ Served(s)'
    <3> SUFFICES ASSUME NEW s \in Sub, status[s] \in Waiting
                 PROVE  \E x \in job'.todo : x.sub = s
      BY <2>1 DEF Served
    <3>1. [sub |-> s, stage |-> status[s], since |-> LastAction(s)] \in job'.todo
      BY <2>1
    <3> QED
      BY <3>1
  <2>4. \A x \in job'.todo : Current(x)'
    BY <2>1 DEF Current, LastAction
  <2> QED
    BY <2>2, <2>3, <2>4 DEF CaughtUp
<1>3. CASE Finish \/ Break
  <2>1. job'.now = -1 /\ UNCHANGED <<today, status, log>> /\ today \in Nat
    BY <1>3 DEF Finish, Break, NoRun, Typed, TypeOK
  <2>2. swept' = today => \A s \in Sub : Served(s)
    <3>1. CASE swept' = swept
      BY <3>1, ForgottenMeans DEF CaughtUp
    <3>2. CASE swept' = job.now /\ job.todo = {}
      BY <3>2 DEF CaughtUp
    <3> QED
      BY <1>3, <3>1, <3>2 DEF Finish, Break
  <2>3. NobodyForgotten'
    BY <2>1, <2>2 DEF NobodyForgotten, Served, LastAction
  <2> QED
    BY <2>1, <2>3 DEF CaughtUp
<1>4. CASE UNCHANGED vars
  BY <1>4 DEF vars, CaughtUp, NobodyForgotten, Served, Current, ActedToday, LastAction
<1> QED
  BY <1>1, <1>2, <1>3, <1>4, ActCatchesUp, RemindCatchesUp DEF Next

-----------------------------------------------------------------------------
(* The invariant and what it gives.                                        *)

LEMMA InitIInv == Init => IInv
<1> SUFFICES ASSUME Init PROVE IInv
  OBVIOUS
<1>1. Typed
  BY TypedInit
<1>2. swept # today /\ job.now # today
  BY DEF Init, NoRun
<1>3. \A s \in Sub : Reminded(log[s]) = {}
  BY DEF Init, Reminded, ActionEvent
<1> QED
  BY <1>1, <1>2, <1>3 DEF IInv, RemindersSpaced, EscalatedInTime, CaughtUp, NobodyForgotten

LEMMA Invariance == Spec => []IInv
<1>1. Init => IInv
  BY InitIInv
<1>2. IInv /\ [Next]_vars => IInv'
  BY TypedStep, SpacedStep, EscalatedStep, CaughtUpStep DEF IInv
<1> QED
  BY <1>1, <1>2, PTL DEF Spec

\* Days, stages, events and the run stay within their types.
THEOREM TypeCorrect == Spec => []TypeOK
<1>1. IInv => TypeOK
  BY DEF IInv, Typed
<1> QED
  BY <1>1, Invariance, PTL

\* However runs break off and start again, nobody is reminded of a submission
\* twice within the threshold.
THEOREM Spaced == Spec => []RemindersSpaced
<1>1. IInv => RemindersSpaced
  BY DEF IInv
<1> QED
  BY <1>1, Invariance, PTL

\* When a run of today has gone through, whoever owns an outstanding action has
\* been reminded inside its threshold, whatever was done meanwhile.
THEOREM NobodyIsForgotten == Spec => []NobodyForgotten
<1>1. IInv => NobodyForgotten
  BY DEF IInv, CaughtUp
<1> QED
  BY <1>1, Invariance, PTL

\* Stale rows never make a copy late: the reminder that follows two (or three)
\* of the same unanswered action has it.
THEOREM Escalated == Spec => []EscalatedInTime
<1>1. IInv => EscalatedInTime
  BY DEF IInv
<1> QED
  BY <1>1, Invariance, PTL
=============================================================================
