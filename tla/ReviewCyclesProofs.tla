------------------------- MODULE ReviewCyclesProofs -------------------------
(***************************************************************************)
(* What the review job keeps whatever the number of submissions, requests   *)
(* and days: published offerings stay under review, the notice comes first,  *)
(* messages are a week apart, a closed cycle falls silent, a run that goes   *)
(* through forgets nobody, and neglect reaches the admins.                   *)
(***************************************************************************)
EXTENDS ReviewCycles, SequenceTheorems, FiniteSetTheorems, TLAPS

MessageType == [kind: {"due", "overdue"}, day: Nat, copied: BOOLEAN, late: BOOLEAN]

LEMMA FunctionIsSeq ==
    ASSUME NEW S, NEW n \in Nat, NEW f \in [1 .. n -> S]
    PROVE  f \in Seq(S) /\ Len(f) = n /\ DOMAIN f = 1 .. n
  OBVIOUS

\* A run is dated from its start on.
RunDated == job.todo # <<>> => job.now \in Nat

\* What the row of a cycle says of the messages about it.
Recorded(c) ==
    /\ cycles[c].notified <=> sent[c] # <<>>
    /\ sent[c] # <<>> => cycles[c].last = sent[c][Len(sent[c])].day

Unlate(c) == \A i \in DOMAIN sent[c] : ~sent[c][i].late

\* No late message yet about a cycle that is open or that the run has before it.
LateOnce ==
    /\ \A c \in DOMAIN cycles : cycles[c].open => Unlate(c)
    /\ \A k \in DOMAIN job.todo : Unlate(job.todo[k])
    /\ \A k, l \in DOMAIN job.todo : k # l => job.todo[k] # job.todo[l]

\* The rows a request holds are those of its own submission.
HoldsOwn ==
    \A r \in Req : req[r] # Idle =>
        \A c \in req[r].open : cycles[c].sub = req[r].sub

\* What is kept about the rows, and what is kept about the messages.
Tracked == HoldsOwn /\ PublishedIsTracked

Told ==
    /\ \A c \in DOMAIN cycles : Recorded(c)
    /\ LateOnce /\ NoticeFirst /\ WeekApart /\ ClosedIsQuiet

\* What there is to say of a cycle by today has been said.
Said(c) ==
    /\ today >= cycles[c].due - Notice => sent[c] # <<>>
    /\ today > cycles[c].due => Age(c) < Week

Watched(s) == Live(s) /\ Settled(s)

Awaits(c) == \E k \in DOMAIN job.todo : job.todo[k] = c

\* How far a run of today has come: what it no longer has before it is said,
\* and nothing that is live was taken for dead.
CaughtUp ==
    /\ swept /\ job # NoRun => job.now = today
    /\ job.now = today =>
         \A s \in Sub : Watched(s) =>
            /\ job.known[s] # "not"
            /\ \A c \in OpenOf(s) : Awaits(c) \/ Said(c)
    /\ NobodyForgotten

\* Admins are copied exactly from the day on which patience ends.
CopiedFrom ==
    \A c \in DOMAIN sent : \A i \in DOMAIN sent[c] :
        sent[c][i].kind = "overdue" =>
            (sent[c][i].copied <=> sent[c][i].day - cycles[c].due >= Patience)

IInv == TypeOK /\ RunDated /\ Tracked /\ Told /\ CaughtUp /\ CopiedFrom

-----------------------------------------------------------------------------
(* How each action changes cycles and messages.                            *)

Shut(x) == [x EXCEPT !.open = FALSE]

\* Requests close cycles and append a fresh one; messages stay.
Extends ==
    /\ Len(cycles') \in {Len(cycles), Len(cycles) + 1}
    /\ cycles' \in Seq(Cycle)
    /\ sent' \in Seq(Seq(MessageType)) /\ Len(sent') = Len(cycles')
    /\ \A c \in DOMAIN cycles :
         /\ cycles'[c] = cycles[c] \/ cycles'[c] = Shut(cycles[c])
         /\ sent'[c] = sent[c]
    /\ \A c \in DOMAIN cycles' \ DOMAIN cycles :
         ~cycles'[c].notified /\ sent'[c] = <<>>

LEMMA ClosedAllType ==
    ASSUME TypeOK, NEW ids
    PROVE  /\ ClosedAll(ids) \in Seq(Cycle)
           /\ Len(ClosedAll(ids)) = Len(cycles)
           /\ \A c \in DOMAIN cycles :
                ClosedAll(ids)[c] = IF c \in ids THEN Shut(cycles[c])
                                    ELSE cycles[c]
<1>1. DOMAIN cycles = 1 .. Len(cycles) /\ Len(cycles) \in Nat
  BY DEF TypeOK
<1>2. \A c \in 1 .. Len(cycles) : cycles[c] \in Cycle
  BY DEF TypeOK
<1>3. \A c \in 1 .. Len(cycles) : Shut(cycles[c]) \in Cycle
  BY <1>2 DEF Cycle, Shut
<1>4. ClosedAll(ids) \in [1 .. Len(cycles) -> Cycle]
  BY <1>1, <1>2, <1>3 DEF ClosedAll, Shut
<1> QED
  BY <1>1, <1>4, FunctionIsSeq DEF ClosedAll, Shut

LEMMA OpenedType ==
    ASSUME TypeOK, NEW s \in Sub
    PROVE  Opened(s) \in Cycle
  BY ReviewCyclesAssumption DEF TypeOK, Opened, Cycle

LEMMA CommitExtends ==
    ASSUME TypeOK, NEW r \in Req, Commit(r)
    PROVE  Extends
<1> DEFINE s == req[r].sub
<1>1. s \in Sub /\ Opened(s) \in Cycle /\ ~Opened(s).notified
  BY OpenedType DEF TypeOK, Commit, Idle, Opened
<1>2. Len(cycles) \in Nat /\ DOMAIN cycles = 1 .. Len(cycles)
  BY DEF TypeOK
<1>3. /\ cycles' \in Seq(Cycle)
      /\ Len(cycles') \in {Len(cycles), Len(cycles) + 1}
      /\ \A c \in DOMAIN cycles :
           cycles'[c] = cycles[c] \/ cycles'[c] = Shut(cycles[c])
      /\ \A c \in DOMAIN cycles' \ DOMAIN cycles : ~cycles'[c].notified
  <2>1. CASE cycles' = Published(s)
    BY <1>1, <1>2, <2>1 DEF TypeOK, Published
  <2>2. CASE cycles' = Confirmed(s, req[r].open)
    <3> DEFINE q == ClosedAll(req[r].open)
    <3>1. q \in Seq(Cycle) /\ Len(q) = Len(cycles)
      BY ClosedAllType
    <3>2. \A c \in DOMAIN cycles :
             q[c] = cycles[c] \/ q[c] = Shut(cycles[c])
      BY ClosedAllType
    <3>3. cycles' = Append(q, Opened(s))
      BY <2>2 DEF Confirmed
    <3> DEFINE o == Opened(s)
    <3> HIDE DEF q, o
    <3>4. cycles' = Append(q, o) /\ o \in Cycle /\ ~o.notified
      BY <1>1, <3>3 DEF o
    <3>5. cycles' \in Seq(Cycle) /\ Len(cycles') = Len(cycles) + 1
      BY <3>1, <3>4
    <3>6. \A c \in 1 .. Len(cycles) : cycles'[c] = q[c]
      BY <1>2, <3>1, <3>4
    <3>7. cycles'[Len(cycles) + 1] = o
      BY <1>2, <3>1, <3>4
    <3>8. \A c \in DOMAIN cycles' \ DOMAIN cycles : c = Len(cycles) + 1
      BY <1>2, <3>5
    <3> QED
      BY <1>2, <3>2, <3>4, <3>5, <3>6, <3>7, <3>8
  <2>3. CASE cycles' = ClosedAll(req[r].open)
    BY <1>2, <2>3, ClosedAllType
  <2> QED
    BY <2>1, <2>2, <2>3 DEF Commit
<1>4. /\ sent' \in Seq(Seq(MessageType)) /\ Len(sent') = Len(cycles')
      /\ \A c \in DOMAIN cycles : sent'[c] = sent[c]
      /\ \A c \in DOMAIN cycles' \ DOMAIN cycles : sent'[c] = <<>>
  <2>1. DOMAIN cycles' = 1 .. Len(cycles') /\ Len(cycles') \in Nat
    BY <1>2, <1>3
  <2>2. DOMAIN sent = DOMAIN cycles /\ \A c \in DOMAIN sent : sent[c] \in Seq(MessageType)
    BY <1>2 DEF TypeOK, MessageType
  <2>3. sent' = [c \in 1 .. Len(cycles') |-> IF c \in DOMAIN sent THEN sent[c] ELSE <<>>]
    BY <2>1 DEF Commit
  <2>4. sent' \in [1 .. Len(cycles') -> Seq(MessageType)]
    BY <2>2, <2>3
  <2>5. DOMAIN cycles \subseteq 1 .. Len(cycles')
    BY <1>2, <1>3
  <2> QED
    BY <2>1, <2>2, <2>3, <2>4, <2>5, FunctionIsSeq
<1> QED
  BY <1>3, <1>4 DEF Extends

\* The run writes one row and one message, about the cycle at its head, or none.
Notes(c, x, msg) ==
    /\ cycles' = [cycles EXCEPT ![c] = x]
    /\ sent' = [sent EXCEPT ![c] = Append(@, msg)]

LEMMA TurnCases ==
    ASSUME TypeOK, RunDated, Turn
    PROVE  \E c \in DOMAIN cycles :
             /\ c = job.todo[1] /\ job.now \in Nat
             /\ cycles[c] \in Cycle /\ sent[c] \in Seq(MessageType)
             /\ \/ /\ NoticeDue(cycles[c])
                   /\ Notes(c, Noticed(cycles[c]), Message("due", cycles[c], FALSE))
                \/ /\ Overdue(cycles[c])
                   /\ Notes(c, [cycles[c] EXCEPT !.last = job.now],
                            Message("overdue", cycles[c], Copied(cycles[c])))
                \/ UNCHANGED <<cycles, sent>>
             /\ job'.todo = Tail(job.todo) /\ job'.now = job.now
             /\ job' \in [now: Never..today, todo: Seq(DOMAIN cycles),
                          known: [Sub -> {"unknown", "live", "not"}]]
<1> DEFINE c == Head(job.todo)
<1>1. /\ job \in [now: Never..today, todo: Seq(DOMAIN cycles),
                  known: [Sub -> {"unknown", "live", "not"}]]
      /\ job.todo # <<>>
  BY DEF TypeOK, Turn
<1>2. c \in DOMAIN cycles /\ c = job.todo[1]
  BY <1>1
<1>3. cycles[c] \in Cycle /\ sent[c] \in Seq(MessageType)
  <2>1. DOMAIN cycles = DOMAIN sent
    BY DEF TypeOK
  <2> QED
    BY <1>2, <2>1 DEF TypeOK, MessageType
<1>4. job.now \in Nat
  BY <1>1 DEF RunDated
<1>5. job' = [job EXCEPT !.todo = Tail(@),
                         !.known[cycles[c].sub] =
                             IF KnownLive(cycles[c].sub) THEN "live" ELSE "not"]
  BY DEF Turn
<1>6. /\ job'.todo = Tail(job.todo) /\ job'.now = job.now
      /\ job' \in [now: Never..today, todo: Seq(DOMAIN cycles),
                   known: [Sub -> {"unknown", "live", "not"}]]
  <2>1. Tail(job.todo) \in Seq(DOMAIN cycles)
    BY <1>1
  <2> QED
    BY <1>1, <1>5, <2>1
<1>7. \/ /\ NoticeDue(cycles[c])
         /\ Notes(c, Noticed(cycles[c]), Message("due", cycles[c], FALSE))
      \/ /\ Overdue(cycles[c])
         /\ Notes(c, [cycles[c] EXCEPT !.last = job.now],
                  Message("overdue", cycles[c], Copied(cycles[c])))
      \/ UNCHANGED <<cycles, sent>>
  BY <1>2, <1>3 DEF Turn, Notes, TypeOK
<1> QED
  BY <1>2, <1>3, <1>4, <1>6, <1>7

LEMMA NotesType ==
    ASSUME TypeOK, NEW c \in DOMAIN cycles, NEW x \in Cycle, NEW msg \in MessageType,
           Notes(c, x, msg)
    PROVE  /\ cycles' \in Seq(Cycle) /\ DOMAIN cycles' = DOMAIN cycles
           /\ Len(cycles') = Len(cycles)
           /\ sent' \in Seq(Seq(MessageType)) /\ Len(sent') = Len(cycles')
<1>1. /\ Len(cycles) \in Nat /\ DOMAIN cycles = 1 .. Len(cycles)
      /\ DOMAIN sent = 1 .. Len(cycles)
  BY DEF TypeOK
<1>2. cycles' \in [1 .. Len(cycles) -> Cycle]
  <2>1. cycles \in [1 .. Len(cycles) -> Cycle]
    BY <1>1 DEF TypeOK
  <2> QED
    BY <1>1, <2>1 DEF Notes
<1>3. sent' \in [1 .. Len(cycles) -> Seq(MessageType)]
  <2>1. sent \in [1 .. Len(cycles) -> Seq(MessageType)]
    BY <1>1 DEF TypeOK, MessageType
  <2>2. Append(sent[c], msg) \in Seq(MessageType)
    BY <1>1, <2>1
  <2> QED
    BY <1>1, <2>1, <2>2 DEF Notes
<1> QED
  BY <1>1, <1>2, <1>3, FunctionIsSeq

LEMMA NotedType ==
    ASSUME NEW x \in Cycle, job.now \in Nat
    PROVE  /\ Noticed(x) \in Cycle /\ [x EXCEPT !.last = job.now] \in Cycle
           /\ Message("due", x, FALSE) \in MessageType
           /\ Message("overdue", x, Copied(x)) \in MessageType
<1>1. Copied(x) \in BOOLEAN
  BY DEF Copied
<1>2. /\ [x EXCEPT !.notified = TRUE, !.last = job.now] \in Cycle
      /\ [x EXCEPT !.last = job.now] \in Cycle
  BY DEF Cycle
<1>3. (~x.open) \in BOOLEAN
  OBVIOUS
<1> QED
  BY <1>1, <1>2, <1>3 DEF Noticed, Message, MessageType

-----------------------------------------------------------------------------
(* Types.                                                                  *)

LEMMA TypeInit == Init => TypeOK /\ RunDated
<1> SUFFICES ASSUME Init PROVE TypeOK /\ RunDated
  OBVIOUS
<1>1. cycles = <<>> /\ sent = <<>> /\ today = 0 /\ job = NoRun
  BY DEF Init
<1>2. /\ cycles \in Seq(Cycle) /\ sent \in Seq(Seq(MessageType))
      /\ Len(sent) = Len(cycles)
  BY <1>1
<1>3. today \in 0..MaxDay /\ swept \in BOOLEAN
  <2>1. today \in 0..MaxDay
    BY <1>1, ReviewCyclesAssumption
  <2>2. swept \in BOOLEAN
    BY DEF Init
  <2> QED
    BY <2>1, <2>2
<1>4. job \in [now: Never..today, todo: Seq(DOMAIN cycles),
               known: [Sub -> {"unknown", "live", "not"}]]
  <2>1. Never \in Never..today
    BY <1>1 DEF Never
  <2>2. <<>> \in Seq(DOMAIN cycles)
    OBVIOUS
  <2> QED
    BY <1>1, <2>1, <2>2 DEF NoRun
<1>5. req \in [Req -> {Idle} \union [kind: Kinds, sub: Sub, open: SUBSET DOMAIN cycles]]
  BY DEF Init
<1>6. published \subseteq Sub /\ archived \subseteq Sub
  BY DEF Init
<1>7. RunDated
  BY <1>1 DEF RunDated, NoRun
<1> QED
  BY <1>2, <1>3, <1>4, <1>5, <1>6, <1>7 DEF TypeOK, MessageType

\* What requests and the run hold stays in range when the table only grows.
LEMMA HeldGrows ==
    ASSUME TypeOK, DOMAIN cycles \subseteq DOMAIN cycles'
    PROVE  /\ req \in [Req -> {Idle} \union
                         [kind: Kinds, sub: Sub, open: SUBSET DOMAIN cycles']]
           /\ job \in [now: Never..today, todo: Seq(DOMAIN cycles'),
                       known: [Sub -> {"unknown", "live", "not"}]]
<1>1. Seq(DOMAIN cycles) \subseteq Seq(DOMAIN cycles')
  OBVIOUS
<1> QED
  BY <1>1 DEF TypeOK

LEMMA TypeStep == TypeOK /\ RunDated /\ [Next]_vars => (TypeOK /\ RunDated)'
<1> SUFFICES ASSUME TypeOK, RunDated, [Next]_vars PROVE TypeOK' /\ RunDated'
  OBVIOUS
<1> USE ReviewCyclesAssumption
<1>1. CASE NextDay
  <2>1. today' \in 0..MaxDay /\ job.now \in Never..today'
    BY <1>1 DEF TypeOK, NextDay, Never
  <2> QED
    BY <1>1, <2>1 DEF TypeOK, RunDated, NextDay
<1>2. CASE Start
  <2> DEFINE n == Cardinality(OpenCycles)
  <2>1. n \in Nat
    <3>1. OpenCycles \subseteq 1 .. Len(cycles) /\ Len(cycles) \in Nat
      BY DEF OpenCycles, TypeOK
    <3>2. IsFiniteSet(1 .. Len(cycles))
      BY <3>1, FS_Interval
    <3>3. IsFiniteSet(OpenCycles)
      BY <3>1, <3>2, FS_Subset
    <3> QED
      BY <3>3, FS_CardinalityType DEF n
  <2> HIDE DEF n
  <2>2. PICK todo \in [1 .. n -> OpenCycles] :
           job' = [NoRun EXCEPT !.now = today, !.todo = todo]
    BY <1>2 DEF Start, Ordered, n
  <2>3. todo \in Seq(DOMAIN cycles)
    <3>1. todo \in [1 .. n -> DOMAIN cycles]
      BY DEF OpenCycles
    <3> QED
      BY <2>1, <3>1, FunctionIsSeq
  <2>4. today \in Nat /\ today \in Never .. today
    BY DEF TypeOK, Never
  <2>5. /\ job' \in [now: Never..today, todo: Seq(DOMAIN cycles),
                     known: [Sub -> {"unknown", "live", "not"}]]
        /\ job'.now \in Nat
    BY <2>2, <2>3, <2>4 DEF NoRun
  <2> QED
    BY <1>2, <2>5 DEF TypeOK, RunDated, Start
<1>3. CASE Turn
  <2>1. PICK c \in DOMAIN cycles :
             /\ job.now \in Nat
             /\ cycles[c] \in Cycle
             /\ \/ Notes(c, Noticed(cycles[c]), Message("due", cycles[c], FALSE))
                \/ Notes(c, [cycles[c] EXCEPT !.last = job.now],
                         Message("overdue", cycles[c], Copied(cycles[c])))
                \/ UNCHANGED <<cycles, sent>>
             /\ job'.now = job.now
             /\ job' \in [now: Never..today, todo: Seq(DOMAIN cycles),
                          known: [Sub -> {"unknown", "live", "not"}]]
    BY <1>3, TurnCases
  <2>2. /\ cycles' \in Seq(Cycle) /\ DOMAIN cycles' = DOMAIN cycles
        /\ sent' \in Seq(Seq(MessageType)) /\ Len(sent') = Len(cycles')
    <3>1. CASE UNCHANGED <<cycles, sent>>
      BY <3>1 DEF TypeOK, MessageType
    <3> QED
      BY <2>1, <3>1, NotedType, NotesType
  <2> QED
    BY <1>3, <2>1, <2>2 DEF TypeOK, RunDated, Turn, MessageType
<1>4. CASE Finish \/ Break
  <2>1. NoRun \in [now: Never..today, todo: Seq(DOMAIN cycles),
                   known: [Sub -> {"unknown", "live", "not"}]]
    BY DEF NoRun, Never, TypeOK
  <2>2. job' = NoRun /\ NoRun.todo = <<>>
    BY <1>4 DEF Finish, Break, NoRun
  <2>3. swept' \in BOOLEAN
    BY <1>4 DEF Finish, Break, TypeOK
  <2>4. UNCHANGED <<today, published, archived, cycles, sent, req>>
    BY <1>4 DEF Finish, Break
  <2> QED
    BY <2>1, <2>2, <2>3, <2>4 DEF TypeOK, RunDated
<1>5. ASSUME NEW r \in Req, Load(r) PROVE TypeOK' /\ RunDated'
  <2>1. PICK s \in Sub, kind \in Kinds :
           req' = [req EXCEPT ![r] = [kind |-> kind, sub |-> s, open |-> OpenOf(s)]]
    BY <1>5 DEF Load
  <2>2. OpenOf(s) \subseteq DOMAIN cycles
    BY DEF OpenOf
  <2>3. req' \in [Req -> {Idle} \union [kind: Kinds, sub: Sub, open: SUBSET DOMAIN cycles]]
    BY <2>1, <2>2 DEF TypeOK
  <2> QED
    BY <1>5, <2>3 DEF TypeOK, RunDated, Load
<1>6. ASSUME NEW r \in Req, Commit(r) PROVE TypeOK' /\ RunDated'
  <2>1. Extends
    BY <1>6, CommitExtends
  <2>2. DOMAIN cycles \subseteq DOMAIN cycles'
    <3>1. Len(cycles) \in Nat /\ DOMAIN cycles = 1 .. Len(cycles)
      BY DEF TypeOK
    <3>2. DOMAIN cycles' = 1 .. Len(cycles')
      BY <2>1 DEF Extends
    <3> QED
      BY <2>1, <3>1, <3>2 DEF Extends
  <2>3. req' \in [Req -> {Idle} \union [kind: Kinds, sub: Sub, open: SUBSET DOMAIN cycles']]
    BY <1>6, <2>2, HeldGrows DEF Commit
  <2>4. published' \subseteq Sub
    BY <1>6 DEF Commit, TypeOK, Idle
  <2> QED
    BY <1>6, <2>1, <2>2, <2>3, <2>4, HeldGrows
       DEF Extends, TypeOK, RunDated, Commit, MessageType
<1>7. CASE \E s \in Sub : Archive(s)
  BY <1>7 DEF TypeOK, RunDated, Archive
<1>8. CASE UNCHANGED vars
  BY <1>8 DEF TypeOK, RunDated, vars
<1> QED
  BY <1>1, <1>2, <1>3, <1>4, <1>5, <1>6, <1>7, <1>8 DEF Next

-----------------------------------------------------------------------------
(* Published offerings stay under review.                                  *)

\* A turn leaves alone what identifies a cycle and when it is due.
LEMMA TurnKeepsRows ==
    ASSUME TypeOK, RunDated, Turn
    PROVE  /\ DOMAIN cycles' = DOMAIN cycles
           /\ \A d \in DOMAIN cycles : /\ cycles'[d].sub = cycles[d].sub
                                       /\ cycles'[d].open = cycles[d].open
                                       /\ cycles'[d].due = cycles[d].due
<1>1. PICK c \in DOMAIN cycles :
         /\ cycles[c] \in Cycle
         /\ \/ cycles' = [cycles EXCEPT ![c] = Noticed(cycles[c])]
            \/ cycles' = [cycles EXCEPT ![c] = [cycles[c] EXCEPT !.last = job.now]]
            \/ cycles' = cycles
  BY TurnCases DEF Notes
<1> DEFINE noticed == Noticed(cycles[c])
           reminded == [cycles[c] EXCEPT !.last = job.now]
<1>2. /\ noticed.sub = cycles[c].sub /\ noticed.open = cycles[c].open
      /\ reminded.sub = cycles[c].sub /\ reminded.open = cycles[c].open
      /\ noticed.due = cycles[c].due /\ reminded.due = cycles[c].due
  BY <1>1 DEF Noticed, Cycle
<1> HIDE DEF noticed, reminded
<1>3. \/ cycles' = [cycles EXCEPT ![c] = noticed]
      \/ cycles' = [cycles EXCEPT ![c] = reminded]
      \/ cycles' = cycles
  BY <1>1 DEF noticed, reminded
<1>4. cycles \in [DOMAIN cycles -> Cycle]
  BY DEF TypeOK
<1> QED
  BY <1>2, <1>3, <1>4

LEMMA CommitKeepsOthers ==
    ASSUME TypeOK, HoldsOwn, NEW r \in Req, Commit(r)
    PROVE  /\ \A c \in DOMAIN cycles :
                cycles[c].sub # req[r].sub => cycles'[c] = cycles[c]
           /\ published' \subseteq published \union {req[r].sub}
           /\ req[r].sub \in published' =>
                \E c \in DOMAIN cycles' :
                    cycles'[c].sub = req[r].sub /\ cycles'[c].open
<1> DEFINE s == req[r].sub
           q == ClosedAll(req[r].open)
           o == Opened(s)
<1>1. Len(cycles) \in Nat /\ DOMAIN cycles = 1 .. Len(cycles)
  BY DEF TypeOK
<1>2. /\ q \in Seq(Cycle) /\ Len(q) = Len(cycles)
      /\ \A c \in DOMAIN cycles : cycles[c].sub # s => q[c] = cycles[c]
  BY ClosedAllType DEF HoldsOwn, Commit
<1>3. o \in Cycle /\ o.sub = s /\ o.open
  BY OpenedType DEF TypeOK, Commit, Idle, Opened
<1>4. \/ cycles' = Append(cycles, o)
      \/ cycles' = Append(q, o)
      \/ cycles' = q /\ s \notin published'
  BY DEF Commit, Published, Confirmed
<1>5. /\ published' \subseteq published \union {s}
  BY DEF Commit
<1> HIDE DEF q, o, s
<1>6. \A c \in DOMAIN cycles : cycles[c].sub # s => cycles'[c] = cycles[c]
  <2>1. CASE cycles' = Append(cycles, o)
    BY <1>1, <1>3, <2>1 DEF TypeOK
  <2>2. CASE cycles' = Append(q, o)
    BY <1>1, <1>2, <1>3, <2>2
  <2>3. CASE cycles' = q
    BY <1>2, <2>3
  <2> QED
    BY <1>4, <2>1, <2>2, <2>3
<1>7. s \in published' => \E c \in DOMAIN cycles' : cycles'[c].sub = s /\ cycles'[c].open
  <2> SUFFICES ASSUME s \in published'
               PROVE  \E c \in DOMAIN cycles' : cycles'[c].sub = s /\ cycles'[c].open
    OBVIOUS
  <2>1. /\ cycles' \in Seq(Cycle) /\ Len(cycles') = Len(cycles) + 1
        /\ cycles'[Len(cycles) + 1] = o
    <3>1. CASE cycles' = Append(cycles, o)
      BY <1>1, <1>3, <3>1 DEF TypeOK
    <3>2. CASE cycles' = Append(q, o)
      BY <1>1, <1>2, <1>3, <3>2
    <3> QED
      BY <1>4, <3>1, <3>2
  <2>2. Len(cycles) + 1 \in DOMAIN cycles'
    BY <1>1, <2>1
  <2> QED
    BY <1>3, <2>1, <2>2
<1> QED
  BY <1>5, <1>6, <1>7 DEF s

LEMMA TrackedStep ==
    ASSUME TypeOK, RunDated, Tracked, [Next]_vars
    PROVE  Tracked'
<1>1. CASE Turn
  <2>1. UNCHANGED <<req, published>>
    BY <1>1 DEF Turn
  <2>2. \A r \in Req : req[r] # Idle => req[r].open \subseteq DOMAIN cycles
    BY DEF TypeOK
  <2>3. HoldsOwn'
    BY <1>1, <2>1, <2>2, TurnKeepsRows DEF Tracked, HoldsOwn
  <2>4. PublishedIsTracked'
    BY <1>1, <2>1, TurnKeepsRows DEF Tracked, PublishedIsTracked, OpenOf
  <2> QED
    BY <2>3, <2>4 DEF Tracked
<1>2. ASSUME NEW r \in Req, Commit(r) PROVE Tracked'
  <2>1. Extends
    BY <1>2, CommitExtends
  <2>2. DOMAIN cycles \subseteq DOMAIN cycles'
    BY <2>1 DEF Extends, TypeOK
  <2>3. \A c \in DOMAIN cycles : cycles'[c].sub = cycles[c].sub
    <3>1. \A c \in DOMAIN cycles : cycles[c] \in Cycle
      BY DEF TypeOK
    <3>2. \A x \in Cycle : Shut(x).sub = x.sub
      BY DEF Shut, Cycle
    <3> QED
      BY <2>1, <3>1, <3>2 DEF Extends
  <2>4. HoldsOwn'
    <3>1. req' = [req EXCEPT ![r] = Idle]
      BY <1>2 DEF Commit
    <3> QED
      BY <2>2, <2>3, <3>1 DEF TypeOK, Tracked, HoldsOwn, Idle
  <2>5. PublishedIsTracked'
    <3> SUFFICES ASSUME NEW s \in Sub, s \in published'
                 PROVE  \E c \in DOMAIN cycles' : cycles'[c].sub = s /\ cycles'[c].open
      BY DEF PublishedIsTracked, OpenOf
    <3>1. CASE s = req[r].sub
      BY <1>2, <3>1, CommitKeepsOthers DEF Tracked
    <3>2. CASE s # req[r].sub
      <4>1. s \in published
        BY <1>2, <3>2, CommitKeepsOthers DEF Tracked
      <4>2. PICK c \in DOMAIN cycles : cycles[c].sub = s /\ cycles[c].open
        BY <4>1 DEF Tracked, PublishedIsTracked, OpenOf
      <4>3. cycles'[c] = cycles[c]
        BY <1>2, <3>2, <4>2, CommitKeepsOthers DEF Tracked
      <4> QED
        BY <2>2, <4>2, <4>3
    <3> QED
      BY <3>1, <3>2
  <2> QED
    BY <2>4, <2>5 DEF Tracked
<1>3. ASSUME NEW r \in Req, Load(r) PROVE Tracked'
  BY <1>3 DEF Load, TypeOK, Tracked, HoldsOwn, PublishedIsTracked, OpenOf
<1>4. CASE NextDay \/ Start \/ Finish \/ Break \/ (\E s \in Sub : Archive(s)) \/ UNCHANGED vars
  <2>1. UNCHANGED <<cycles, published, req>>
    BY <1>4 DEF NextDay, Start, Finish, Break, Archive, vars
  <2> QED
    BY <2>1 DEF Tracked, HoldsOwn, PublishedIsTracked, OpenOf
<1> QED
  BY <1>1, <1>2, <1>3, <1>4 DEF Next

-----------------------------------------------------------------------------
(* What the owners are told.                                               *)

\* A request adds rows nobody has been told about, and closes some.
LEMMA ExtendsTold ==
    ASSUME TypeOK, Told, Extends, job' = job
    PROVE  Told'
<1>1. /\ DOMAIN sent = DOMAIN cycles /\ DOMAIN sent' = DOMAIN cycles'
      /\ DOMAIN cycles \subseteq DOMAIN cycles'
  BY DEF TypeOK, Extends
<1>2. \A c \in DOMAIN cycles :
         /\ cycles'[c].notified = cycles[c].notified
         /\ cycles'[c].last = cycles[c].last
         /\ cycles'[c].open => cycles[c].open
         /\ sent'[c] = sent[c]
  <2>1. \A c \in DOMAIN cycles : cycles[c] \in Cycle
    BY DEF TypeOK
  <2>2. \A x \in Cycle : /\ Shut(x).notified = x.notified
                          /\ Shut(x).last = x.last /\ ~Shut(x).open
    BY DEF Shut, Cycle
  <2> QED
    BY <2>1, <2>2 DEF Extends
<1>3. \A c \in DOMAIN cycles' \ DOMAIN cycles : ~cycles'[c].notified /\ sent'[c] = <<>>
  BY DEF Extends
<1>4. \A c \in DOMAIN cycles' : Recorded(c)'
  BY <1>2, <1>3 DEF Told, Recorded
<1>5. LateOnce'
  <2>1. \A c \in DOMAIN cycles : Unlate(c) => Unlate(c)'
    BY <1>2 DEF Unlate
  <2>2. \A c \in DOMAIN cycles' \ DOMAIN cycles : Unlate(c)'
    BY <1>3 DEF Unlate
  <2>3. \A k \in DOMAIN job.todo : job.todo[k] \in DOMAIN cycles
    BY DEF TypeOK
  <2> QED
    BY <1>1, <1>2, <2>1, <2>2, <2>3 DEF Told, LateOnce
<1>6. NoticeFirst' /\ WeekApart' /\ ClosedIsQuiet'
  <2>1. \A c \in DOMAIN sent' : sent'[c] = <<>> \/ (c \in DOMAIN sent /\ sent'[c] = sent[c])
    BY <1>1, <1>2, <1>3
  <2>2. NoticeFirst'
    BY <2>1 DEF Told, NoticeFirst
  <2>3. WeekApart'
    BY <2>1 DEF Told, WeekApart
  <2>4. ClosedIsQuiet'
    BY <2>1 DEF Told, ClosedIsQuiet
  <2> QED
    BY <2>2, <2>3, <2>4
<1> QED
  BY <1>4, <1>5, <1>6 DEF Told

\* One message more about a cycle of which nothing late has been said.
Fits(c, x, msg) ==
    /\ x.notified /\ x.last = msg.day
    /\ x.open = cycles[c].open
    /\ x.open => ~msg.late
    /\ msg.kind = "due" <=> sent[c] = <<>>
    /\ sent[c] # <<>> => msg.day - sent[c][Len(sent[c])].day >= Week

LEMMA NotesTold ==
    ASSUME TypeOK, Told, NEW c \in DOMAIN cycles, NEW x \in Cycle, NEW msg \in MessageType,
           Notes(c, x, msg), Fits(c, x, msg),
           Unlate(c), job.todo # <<>>, c = job.todo[1], job'.todo = Tail(job.todo)
    PROVE  Told'
<1> DEFINE n == Len(sent[c])
<1>1. /\ DOMAIN sent = DOMAIN cycles
      /\ cycles \in [DOMAIN cycles -> Cycle] /\ sent \in [DOMAIN cycles -> Seq(MessageType)]
      /\ n \in Nat
  <2>1. DOMAIN sent = DOMAIN cycles
    BY DEF TypeOK
  <2>2. /\ cycles \in [DOMAIN cycles -> Cycle]
        /\ sent \in [DOMAIN cycles -> Seq(MessageType)]
    BY <2>1 DEF TypeOK, MessageType
  <2> QED
    BY <2>1, <2>2
<1>2. /\ DOMAIN cycles' = DOMAIN cycles /\ DOMAIN sent' = DOMAIN cycles
      /\ cycles'[c] = x
      /\ \A d \in DOMAIN cycles : d # c => cycles'[d] = cycles[d] /\ sent'[d] = sent[d]
  BY <1>1 DEF Notes
<1>3. /\ sent'[c] \in Seq(MessageType) /\ Len(sent'[c]) = n + 1
      /\ sent'[c][n + 1] = msg
      /\ \A i \in 1 .. n : sent'[c][i] = sent[c][i]
      /\ DOMAIN sent'[c] = 1 .. n + 1 /\ DOMAIN sent[c] = 1 .. n
  <2>1. sent'[c] = Append(sent[c], msg)
    BY <1>1 DEF Notes
  <2>2. sent[c] \in Seq(MessageType)
    BY <1>1
  <2> QED
    BY <2>1, <2>2
<1>4. sent[c] = <<>> <=> n = 0
  <2>1. sent[c] \in Seq(MessageType)
    BY <1>1
  <2> QED
    BY <2>1
<1> HIDE DEF n
<1>5. \A d \in DOMAIN cycles' : Recorded(d)'
  <2>1. Recorded(c)'
    <3>1. sent'[c] # <<>>
      BY <1>1, <1>3
    <3> QED
      BY <1>2, <1>3, <3>1 DEF Fits, Recorded
  <2> QED
    BY <1>2, <2>1 DEF Told, Recorded
<1>6. \A i \in 1 .. n : ~sent'[c][i].late
  BY <1>3 DEF Unlate
<1>7. LateOnce'
  <2> DEFINE Still(d) == \A i \in DOMAIN sent'[d] : ~sent'[d][i].late
  <2>1. \A d \in DOMAIN cycles : d # c /\ Unlate(d) => Still(d)
    BY <1>2 DEF Unlate
  <2>2. x.open => Still(c)
    BY <1>1, <1>3, <1>6 DEF Fits
  <2>3. job.todo \in Seq(DOMAIN cycles)
    BY DEF TypeOK
  <2>4. /\ \A k \in DOMAIN job'.todo : k + 1 \in DOMAIN job.todo
        /\ \A k \in DOMAIN job'.todo : job'.todo[k] = job.todo[k + 1] /\ k \in Nat \ {0}
        /\ 1 \in DOMAIN job.todo
    BY <2>3
  <2>5. \A k \in DOMAIN job'.todo : job'.todo[k] # c /\ job'.todo[k] \in DOMAIN cycles
    BY <2>3, <2>4 DEF Told, LateOnce
  <2>6. \A k \in DOMAIN job'.todo : Still(job'.todo[k])
    BY <2>1, <2>4, <2>5 DEF Told, LateOnce
  <2>7. \A k, l \in DOMAIN job'.todo : k # l => job'.todo[k] # job'.todo[l]
    BY <2>4 DEF Told, LateOnce
  <2>8. \A d \in DOMAIN cycles' : cycles'[d].open => Still(d)
    BY <1>2, <2>1, <2>2 DEF Told, LateOnce
  <2> QED
    BY <2>6, <2>7, <2>8 DEF LateOnce, Unlate
<1>8. NoticeFirst'
  <2>1. \A i \in DOMAIN sent'[c] : sent'[c][i].kind = "due" <=> i = 1
    <3> SUFFICES ASSUME NEW i \in 1 .. n + 1
                 PROVE  sent'[c][i].kind = "due" <=> i = 1
      BY <1>3
    <3>1. CASE i = n + 1
      BY <1>1, <1>3, <1>4, <3>1 DEF Fits
    <3>2. CASE i # n + 1
      <4>1. i \in 1 .. n
        BY <1>1, <3>2
      <4>2. sent[c][i].kind = "due" <=> i = 1
        BY <1>1, <1>3, <4>1 DEF Told, NoticeFirst
      <4> QED
        BY <1>3, <4>1, <4>2
    <3> QED
      BY <3>1, <3>2
  <2> QED
    BY <1>1, <1>2, <2>1 DEF Told, NoticeFirst
<1>9. WeekApart'
  <2>1. \A i \in 2 .. Len(sent'[c]) : sent'[c][i].day - sent'[c][i - 1].day >= Week
    <3> SUFFICES ASSUME NEW i \in 2 .. n + 1
                 PROVE  sent'[c][i].day - sent'[c][i - 1].day >= Week
      BY <1>3
    <3>1. CASE i = n + 1
      <4>1. n \in 1 .. n /\ i - 1 = n /\ n # 0
        BY <1>1, <3>1
      <4>2. sent'[c][i] = msg /\ sent'[c][i - 1] = sent[c][n]
        BY <1>3, <3>1, <4>1
      <4> QED
        BY <1>4, <4>1, <4>2 DEF Fits, n
    <3>2. CASE i # n + 1
      <4>1. i \in 2 .. n /\ i \in 1 .. n /\ i - 1 \in 1 .. n
        BY <1>1, <3>2
      <4>2. sent[c][i].day - sent[c][i - 1].day >= Week
        BY <1>1, <4>1 DEF Told, WeekApart, n
      <4> QED
        BY <1>3, <4>1, <4>2
    <3> QED
      BY <3>1, <3>2
  <2> QED
    BY <1>1, <1>2, <2>1 DEF Told, WeekApart
<1>10. ClosedIsQuiet'
  <2>1. \A i, j \in DOMAIN sent'[c] : sent'[c][i].late /\ sent'[c][j].late => i = j
    BY <1>1, <1>3, <1>6
  <2> QED
    BY <1>1, <1>2, <2>1 DEF Told, ClosedIsQuiet
<1> QED
  BY <1>5, <1>7, <1>8, <1>9, <1>10 DEF Told

LEMMA TurnTold ==
    ASSUME TypeOK, RunDated, Told, Turn
    PROVE  Told'
<1>1. PICK c \in DOMAIN cycles :
         /\ c = job.todo[1] /\ job.now \in Nat
         /\ cycles[c] \in Cycle /\ sent[c] \in Seq(MessageType)
         /\ \/ /\ NoticeDue(cycles[c])
               /\ Notes(c, Noticed(cycles[c]), Message("due", cycles[c], FALSE))
            \/ /\ Overdue(cycles[c])
               /\ Notes(c, [cycles[c] EXCEPT !.last = job.now],
                        Message("overdue", cycles[c], Copied(cycles[c])))
            \/ UNCHANGED <<cycles, sent>>
         /\ job'.todo = Tail(job.todo)
  BY TurnCases
<1>2. job.todo # <<>> /\ job.todo \in Seq(DOMAIN cycles)
  BY DEF Turn, TypeOK
<1>3. Unlate(c)
  BY <1>1, <1>2 DEF Told, LateOnce
<1>4. Recorded(c)
  BY DEF Told
<1> DEFINE x == cycles[c]
           n == Len(sent[c])
<1>5. CASE NoticeDue(x) /\ Notes(c, Noticed(x), Message("due", x, FALSE))
  <2>1. Fits(c, Noticed(x), Message("due", x, FALSE))
    <3>1. sent[c] = <<>>
      BY <1>4, <1>5 DEF NoticeDue, Recorded
    <3> QED
      BY <1>1, <3>1 DEF Fits, Noticed, Message, Cycle
  <2> QED
    BY <1>1, <1>2, <1>3, <1>5, <2>1, NotedType, NotesTold
<1>6. CASE /\ Overdue(x)
           /\ Notes(c, [x EXCEPT !.last = job.now], Message("overdue", x, Copied(x)))
  <2>1. x.notified
    <3>1. x.due \in Nat /\ Notice \in Nat /\ job.now > x.due
      BY <1>1, <1>6, ReviewCyclesAssumption DEF Cycle, Overdue
    <3>2. job.now >= x.due - Notice
      BY <1>1, <3>1
    <3> QED
      BY <1>6, <3>2 DEF Overdue, NoticeDue
  <2>2. sent[c] # <<>> /\ x.last = sent[c][n].day
    BY <1>4, <2>1 DEF Recorded
  <2>3. n \in 1 .. n /\ sent[c][n] \in MessageType
    BY <1>1, <2>2
  <2>4. x.last # Never
    BY <2>2, <2>3 DEF MessageType, Never
  <2>5. job.now - x.last >= Week
    BY <1>6, <2>4 DEF Overdue
  <2>6. Fits(c, [x EXCEPT !.last = job.now], Message("overdue", x, Copied(x)))
    BY <1>1, <2>1, <2>2, <2>5 DEF Fits, Message, Cycle
  <2> QED
    BY <1>1, <1>2, <1>3, <1>6, <2>6, NotedType, NotesTold
<1>7. CASE UNCHANGED <<cycles, sent>>
  <2>1. /\ \A k \in DOMAIN job'.todo : k + 1 \in DOMAIN job.todo
        /\ \A k \in DOMAIN job'.todo : job'.todo[k] = job.todo[k + 1] /\ k \in Nat
    BY <1>1, <1>2
  <2>2. LateOnce'
    BY <1>7, <2>1 DEF Told, LateOnce, Unlate
  <2> QED
    BY <1>7, <2>2 DEF Told, Recorded, NoticeFirst, WeekApart, ClosedIsQuiet
<1> QED
  BY <1>1, <1>5, <1>6, <1>7

LEMMA StartTold ==
    ASSUME TypeOK, Told, Start
    PROVE  Told'
<1>1. PICK todo \in Ordered(OpenCycles) : job' = [NoRun EXCEPT !.now = today, !.todo = todo]
  BY DEF Start
<1>2. job'.todo = todo
  BY <1>1 DEF NoRun
<1>3. todo \in [1 .. Cardinality(OpenCycles) -> OpenCycles]
  BY DEF Ordered
<1>4. \A k \in DOMAIN todo : todo[k] \in DOMAIN cycles /\ cycles[todo[k]].open
  BY <1>3 DEF OpenCycles
<1>5. \A k, l \in DOMAIN todo : k # l => todo[k] # todo[l]
  <2> SUFFICES ASSUME NEW k \in DOMAIN todo, NEW l \in DOMAIN todo, k < l, todo[k] = todo[l]
               PROVE  FALSE
    <3>1. DOMAIN todo \subseteq Int
      BY <1>3
    <3> QED
      BY <3>1
  <2>1. todo[k] < todo[l]
    BY DEF Ordered
  <2>2. todo[k] \in Int
    BY <1>4 DEF TypeOK
  <2> QED
    BY <2>1, <2>2
<1>6. UNCHANGED <<cycles, sent>>
  BY DEF Start
<1>7. LateOnce'
  BY <1>2, <1>4, <1>5, <1>6 DEF Told, LateOnce, Unlate
<1> QED
  BY <1>6, <1>7 DEF Told, Recorded, NoticeFirst, WeekApart, ClosedIsQuiet

LEMMA ToldStep ==
    ASSUME TypeOK, RunDated, Told, [Next]_vars
    PROVE  Told'
<1>1. CASE Turn
  BY <1>1, TurnTold
<1>2. CASE Start
  BY <1>2, StartTold
<1>3. ASSUME NEW r \in Req, Commit(r) PROVE Told'
  BY <1>3, CommitExtends, ExtendsTold DEF Commit
<1>4. CASE Finish \/ Break
  <2>1. UNCHANGED <<cycles, sent>> /\ job'.todo = <<>>
    BY <1>4 DEF Finish, Break, NoRun
  <2>2. LateOnce'
    BY <2>1 DEF Told, LateOnce, Unlate
  <2> QED
    BY <2>1, <2>2 DEF Told, Recorded, NoticeFirst, WeekApart, ClosedIsQuiet
<1>5. CASE \/ NextDay \/ UNCHANGED vars
           \/ \E r \in Req : Load(r)
           \/ \E s \in Sub : Archive(s)
  <2>1. UNCHANGED <<cycles, sent, job>>
    BY <1>5 DEF NextDay, Load, Archive, vars
  <2> QED
    BY <2>1 DEF Told, LateOnce, Unlate, Recorded, NoticeFirst, WeekApart, ClosedIsQuiet
<1> QED
  BY <1>1, <1>2, <1>3, <1>4, <1>5 DEF Next

-----------------------------------------------------------------------------
(* Nobody is forgotten by a run that goes through.                         *)

\* After a commit its submission has a cycle of today or is not published.
LEMMA CommitUnsettles ==
    ASSUME TypeOK, HoldsOwn, NEW r \in Req, Commit(r), NEW s \in Sub, Watched(s)'
    PROVE  /\ Watched(s)
           /\ \A c \in OpenOf(s)' : /\ c \in OpenOf(s)
                                    /\ cycles'[c] = cycles[c] /\ sent'[c] = sent[c]
<1> DEFINE t == req[r].sub
           q == ClosedAll(req[r].open)
           o == Opened(t)
<1>1. Len(cycles) \in Nat /\ DOMAIN cycles = 1 .. Len(cycles)
  BY DEF TypeOK
<1>2. /\ q \in Seq(Cycle) /\ Len(q) = Len(cycles)
  BY ClosedAllType
<1>3. /\ t \in Sub /\ o \in Cycle /\ o.sub = t /\ o.due = today + Length
  BY OpenedType DEF TypeOK, Commit, Idle, Opened
<1>4. \/ cycles' = Append(cycles, o)
      \/ cycles' = Append(q, o)
      \/ cycles' = q /\ t \notin published'
  BY DEF Commit, Published, Confirmed
<1>5. /\ published' \subseteq published \union {t}
      /\ UNCHANGED <<archived, today>>
  BY DEF Commit
<1>6. Extends
  BY CommitExtends
<1>7. \A c \in DOMAIN cycles : cycles[c].sub # t => cycles'[c] = cycles[c]
  BY CommitKeepsOthers
<1> HIDE DEF q, o, t
<1>8. \A c \in DOMAIN cycles' \ DOMAIN cycles : cycles'[c] = o
  <2>1. CASE cycles' = Append(cycles, o)
    BY <1>1, <1>3, <2>1 DEF TypeOK
  <2>2. CASE cycles' = Append(q, o)
    BY <1>1, <1>2, <1>3, <2>2
  <2>3. CASE cycles' = q
    BY <1>1, <1>2, <2>3
  <2> QED
    BY <1>4, <2>1, <2>2, <2>3
<1>9. s # t
  <2> SUFFICES ASSUME s = t PROVE FALSE
    OBVIOUS
  <2>1. t \in published'
    BY DEF Watched, Live
  <2>2. cycles' = Append(cycles, o) \/ cycles' = Append(q, o)
    BY <1>4, <2>1
  <2>3. Len(cycles) + 1 \in DOMAIN cycles' /\ cycles'[Len(cycles) + 1] = o
    BY <1>1, <1>2, <1>3, <2>2 DEF TypeOK
  <2>4. o.due - Length < today
    BY <1>3, <1>5, <2>3 DEF Watched, Settled
  <2> QED
    BY <1>3, <2>4, ReviewCyclesAssumption DEF TypeOK
<1>10. \A c \in DOMAIN cycles' : cycles'[c].sub = s =>
          c \in DOMAIN cycles /\ cycles'[c] = cycles[c] /\ sent'[c] = sent[c]
  <2> SUFFICES ASSUME NEW c \in DOMAIN cycles', cycles'[c].sub = s
               PROVE  c \in DOMAIN cycles /\ cycles'[c] = cycles[c] /\ sent'[c] = sent[c]
    OBVIOUS
  <2>1. c \in DOMAIN cycles
    BY <1>3, <1>8, <1>9
  <2>2. cycles[c].sub = s
    <3>1. cycles[c] \in Cycle
      BY <2>1 DEF TypeOK
    <3>2. Shut(cycles[c]).sub = cycles[c].sub
      BY <3>1 DEF Shut, Cycle
    <3> QED
      BY <1>6, <2>1, <3>2 DEF Extends
  <2> QED
    BY <1>6, <1>7, <1>9, <2>1, <2>2 DEF Extends
<1>11. \A c \in DOMAIN cycles : cycles[c].sub = s => c \in DOMAIN cycles'
  BY <1>1, <1>6 DEF Extends
<1>12. Live(s)
  BY <1>5, <1>9 DEF Watched, Live
<1>13. Settled(s)
  BY <1>5, <1>7, <1>9, <1>11 DEF Watched, Settled
<1> QED
  BY <1>10, <1>12, <1>13 DEF Watched, OpenOf

\* A step after which less is watched and nothing of it has changed.
LEMMA LessToWatch ==
    ASSUME CaughtUp, UNCHANGED <<today, swept, job>>,
           \A s \in Sub : Watched(s)' =>
               /\ Watched(s)
               /\ \A c \in OpenOf(s)' : /\ c \in OpenOf(s)
                                        /\ cycles'[c] = cycles[c] /\ sent'[c] = sent[c]
    PROVE  CaughtUp'
<1>1. \A s \in Sub : Watched(s)' =>
         \A c \in OpenOf(s)' : /\ Awaits(c) => Awaits(c)'
                               /\ Said(c) => Said(c)'
  BY DEF Awaits, Said, Age
<1>2. swept => \A s \in Sub : Watched(s) => \A c \in OpenOf(s) : Said(c)
  BY DEF CaughtUp, NobodyForgotten, Watched, Said
<1>3. NobodyForgotten'
  <2>1. swept' => \A s \in Sub : Watched(s)' => \A c \in OpenOf(s)' : Said(c)'
    BY <1>1, <1>2
  <2> QED
    BY <2>1 DEF NobodyForgotten, Watched, Said
<1>4. (swept /\ job # NoRun => job.now = today)'
  BY DEF CaughtUp
<1>5. job'.now = today' =>
         \A s \in Sub : Watched(s)' =>
            /\ job'.known[s] # "not"
            /\ \A c \in OpenOf(s)' : Awaits(c)' \/ Said(c)'
  BY <1>1 DEF CaughtUp
<1> QED
  BY <1>3, <1>4, <1>5 DEF CaughtUp

\* A run has every open cycle before it: the rows are in order, so none comes
\* twice, and there are as many places as rows.
LEMMA StartTakesAll ==
    ASSUME TypeOK, NEW todo \in Ordered(OpenCycles), NEW c \in OpenCycles
    PROVE  \E k \in DOMAIN todo : todo[k] = c
<1> DEFINE n == Cardinality(OpenCycles)
<1>1. IsFiniteSet(OpenCycles) /\ n \in Nat /\ OpenCycles \subseteq Nat
  <2>1. OpenCycles \subseteq 1 .. Len(cycles) /\ Len(cycles) \in Nat
    BY DEF OpenCycles, TypeOK
  <2>2. IsFiniteSet(1 .. Len(cycles))
    BY <2>1, FS_Interval
  <2>3. IsFiniteSet(OpenCycles)
    BY <2>1, <2>2, FS_Subset
  <2> QED
    BY <2>1, <2>3, FS_CardinalityType
<1>2. todo \in [1 .. n -> OpenCycles] /\ DOMAIN todo = 1 .. n
  BY DEF Ordered
<1>3. \A i, j \in 1 .. n : i # j => todo[i] # todo[j]
  <2>1. \A i, j \in 1 .. n : i < j => todo[i] # todo[j]
    <3> SUFFICES ASSUME NEW i \in 1 .. n, NEW j \in 1 .. n, i < j, todo[i] = todo[j]
                 PROVE  FALSE
      OBVIOUS
    <3>1. todo[i] < todo[j]
      BY <1>2 DEF Ordered
    <3>2. todo[i] \in Nat
      BY <1>1, <1>2
    <3> QED
      BY <3>1, <3>2
  <2> HIDE DEF n
  <2> QED
    BY <1>1, <2>1
<1>4. todo \in Injection(1 .. n, OpenCycles)
  BY <1>2, <1>3 DEF Injection, IsInjective
<1>5. Cardinality(1 .. n) = n
  BY <1>1, FS_Interval
<1>6. todo \in Surjection(1 .. n, OpenCycles)
  BY <1>1, <1>4, <1>5, FS_Injection
<1> QED
  BY <1>2, <1>6 DEF Surjection

LEMMA StartCatchesUp ==
    ASSUME TypeOK, CaughtUp, Start
    PROVE  CaughtUp'
<1>1. PICK todo \in Ordered(OpenCycles) :
         job' = [NoRun EXCEPT !.now = today, !.todo = todo]
  BY DEF Start
<1>2. /\ job'.todo = todo /\ job'.now = today
      /\ job'.known = [s \in Sub |-> "unknown"]
  BY <1>1 DEF NoRun
<1>3. UNCHANGED <<today, swept, published, archived, cycles, sent>>
  BY DEF Start
<1>4. \A s \in Sub : \A c \in OpenOf(s)' : Awaits(c)'
  <2> SUFFICES ASSUME NEW s \in Sub, NEW c \in OpenOf(s)'
               PROVE  \E k \in DOMAIN todo : todo[k] = c
    BY <1>2 DEF Awaits
  <2>1. c \in OpenCycles
    BY <1>3 DEF OpenOf, OpenCycles
  <2> QED
    BY <2>1, StartTakesAll
<1>5. NobodyForgotten'
  BY <1>3 DEF CaughtUp, NobodyForgotten, Live, Settled, OpenOf, Age
<1> QED
  BY <1>2, <1>3, <1>4, <1>5 DEF CaughtUp

\* When the list is empty, all of it was said.
LEMMA EndCatchesUp ==
    ASSUME TypeOK, CaughtUp, Finish \/ Break
    PROVE  CaughtUp'
<1>1. /\ job' = NoRun
      /\ UNCHANGED <<today, published, archived, cycles, sent>>
  BY DEF Finish, Break
<1>2. job'.now # today'
  <2>1. today \in Nat
    BY DEF TypeOK
  <2>2. job'.now = -1
    BY <1>1 DEF NoRun, Never
  <2> QED
    BY <1>1, <2>1, <2>2
<1>3. NobodyForgotten'
  <2>1. CASE swept' = swept
    BY <1>1, <2>1 DEF CaughtUp, NobodyForgotten, Live, Settled, OpenOf, Age
  <2>2. CASE Finish /\ job.now = today
    <3>1. \A c : ~Awaits(c)
      BY <2>2 DEF Finish, Awaits
    <3>2. \A s \in Sub : Watched(s) => \A c \in OpenOf(s) : Said(c)
      BY <2>2, <3>1 DEF CaughtUp
    <3>3. NobodyForgotten
      BY <3>2 DEF NobodyForgotten, Watched, Said
    <3>4. \A s \in Sub : Live(s)' /\ Settled(s)' =>
             \A c \in OpenOf(s)' : Said(c)'
      BY <1>1, <3>2 DEF Watched, Live, Settled, OpenOf, Said, Age
    <3> QED
      BY <3>4 DEF NobodyForgotten, Said
  <2> QED
    BY <2>1, <2>2 DEF Finish, Break, TypeOK
<1> QED
  BY <1>1, <1>2, <1>3 DEF CaughtUp

LEMMA NextDayCatchesUp ==
    ASSUME TypeOK, NextDay
    PROVE  CaughtUp'
<1>1. ~swept' /\ job'.now # today'
  BY DEF NextDay, TypeOK
<1> QED
  BY <1>1 DEF CaughtUp, NobodyForgotten

\* A message of today says all there is to say of its cycle.
LEMMA NotesSay ==
    ASSUME TypeOK, NEW c \in DOMAIN cycles, NEW x, NEW msg, Notes(c, x, msg),
           msg.day = today, today' = today
    PROVE  Said(c)'
<1>1. c \in DOMAIN sent /\ sent \in Seq(Seq(MessageType)) /\ today \in Nat
  BY DEF TypeOK, MessageType
<1>2. sent'[c] = Append(sent[c], msg)
  BY <1>1 DEF Notes
<1>3. sent[c] \in Seq(MessageType)
  BY <1>1
<1>4. sent'[c] # <<>> /\ sent'[c][Len(sent'[c])] = msg
  BY <1>2, <1>3
<1> QED
  BY <1>1, <1>4, ReviewCyclesAssumption DEF Said, Age

\* A run of today keeps what was said as it is, or says more.
LEMMA TurnKeepsSaid ==
    ASSUME TypeOK, RunDated, Turn, job.now = today, NEW d \in DOMAIN cycles, Said(d)
    PROVE  Said(d)'
<1>1. PICK c \in DOMAIN cycles :
         \/ Notes(c, Noticed(cycles[c]), Message("due", cycles[c], FALSE))
         \/ Notes(c, [cycles[c] EXCEPT !.last = job.now],
                  Message("overdue", cycles[c], Copied(cycles[c])))
         \/ UNCHANGED <<cycles, sent>>
  BY TurnCases
<1>2. today' = today
  BY DEF Turn
<1>3. CASE UNCHANGED <<cycles, sent>>
  BY <1>2, <1>3 DEF Said, Age
<1>4. CASE c = d /\ ~UNCHANGED <<cycles, sent>>
  BY <1>1, <1>2, <1>4, NotesSay DEF Message
<1>5. CASE c # d /\ ~UNCHANGED <<cycles, sent>>
  <2>1. DOMAIN sent = DOMAIN cycles
    BY DEF TypeOK
  <2>2. sent'[d] = sent[d]
    BY <1>1, <1>5, <2>1 DEF Notes
  <2> QED
    BY <1>2, <2>2, TurnKeepsRows DEF Said, Age
<1> QED
  BY <1>3, <1>4, <1>5

\* Nothing to say means that it was said.
LEMMA TurnSays ==
    ASSUME TypeOK, RunDated, Told, Turn, job.now = today,
           NEW c \in DOMAIN cycles, c = Head(job.todo), KnownLive(cycles[c].sub)
    PROVE  Said(c)'
<1> DEFINE x == cycles[c]
<1>1. today \in Nat /\ today' = today
  BY DEF Turn, TypeOK
<1>2. /\ x \in Cycle /\ sent[c] \in Seq(MessageType) /\ c \in DOMAIN sent
  <2>1. DOMAIN sent = DOMAIN cycles
    BY DEF TypeOK
  <2> QED
    BY <1>1, <2>1 DEF TypeOK, MessageType
<1>3. CASE NoticeDue(x) \/ Overdue(x)
  <2>1. \/ Notes(c, Noticed(x), Message("due", x, FALSE))
        \/ Notes(c, [x EXCEPT !.last = job.now], Message("overdue", x, Copied(x)))
    BY <1>1, <1>2, <1>3 DEF Turn, Notes, TypeOK
  <2> QED
    BY <1>1, <2>1, NotesSay DEF Message
<1>4. CASE ~(NoticeDue(x) \/ Overdue(x))
  <2>1. UNCHANGED <<cycles, sent>>
    BY <1>4 DEF Turn
  <2>2. Recorded(c)
    BY <1>1 DEF Told
  <2>3. today >= x.due - Notice => sent[c] # <<>>
    BY <1>4, <2>2 DEF NoticeDue, Recorded
  <2>4. today > x.due => Age(c) < Week
    <3> SUFFICES ASSUME today > x.due PROVE Age(c) < Week
      OBVIOUS
    <3>1. x.due \in Nat /\ Notice \in Nat
      BY <1>2, ReviewCyclesAssumption DEF Cycle
    <3>2. sent[c] # <<>>
      BY <1>1, <2>3, <3>1
    <3>3. x.last = sent[c][Len(sent[c])].day /\ x.last \in Nat
      <4>1. sent[c][Len(sent[c])] \in MessageType
        BY <1>2, <3>2
      <4> QED
        BY <2>2, <3>2, <4>1 DEF Recorded, MessageType
    <3>4. x.last # Never
      BY <3>3 DEF Never
    <3>5. ~(today - x.last >= Week)
      BY <1>4, <3>4 DEF Overdue
    <3> QED
      BY <1>1, <3>3, <3>5, ReviewCyclesAssumption DEF Age
  <2> QED
    BY <1>1, <2>1, <2>3, <2>4 DEF Said, Age
<1> QED
  BY <1>3, <1>4

LEMMA TurnCatchesUp ==
    ASSUME TypeOK, RunDated, Told, CaughtUp, Turn
    PROVE  CaughtUp'
<1>1. UNCHANGED <<today, swept, published, archived>>
  BY DEF Turn
<1>2. /\ job'.now = job.now /\ job'.todo = Tail(job.todo)
      /\ job.todo \in Seq(DOMAIN cycles) /\ job.todo # <<>>
  BY TurnCases DEF Turn, TypeOK
<1>3. \A s \in Sub : OpenOf(s)' = OpenOf(s) /\ (Watched(s)' <=> Watched(s))
  BY <1>1, TurnKeepsRows DEF OpenOf, Watched, Live, Settled
<1>4. (swept /\ job # NoRun => job.now = today)'
  <2>1. job # NoRun
    BY <1>2 DEF NoRun
  <2> QED
    BY <1>1, <1>2, <2>1 DEF CaughtUp
<1>5. NobodyForgotten'
  <2> SUFFICES ASSUME swept', NEW s \in Sub, Watched(s)', NEW c \in OpenOf(s)'
               PROVE  Said(c)'
    BY DEF NobodyForgotten, Watched, Said
  <2>1. job.now = today
    BY <1>1, <1>2 DEF CaughtUp, NoRun
  <2>2. c \in DOMAIN cycles /\ Said(c)
    BY <1>1, <1>3 DEF CaughtUp, NobodyForgotten, Watched, Said, OpenOf
  <2> QED
    BY <2>1, <2>2, TurnKeepsSaid
<1>6. ASSUME job'.now = today', NEW s \in Sub, Watched(s)'
      PROVE  /\ job'.known[s] # "not"
             /\ \A c \in OpenOf(s)' : Awaits(c)' \/ Said(c)'
  <2> DEFINE h == Head(job.todo)
             t == cycles[h].sub
  <2>1. job.now = today /\ Watched(s) /\ job.known[s] # "not"
    BY <1>1, <1>2, <1>3, <1>6 DEF CaughtUp
  <2>2. job.known[s] \in {"unknown", "live"}
    BY <2>1 DEF TypeOK
  <2>3. KnownLive(s)
    BY <2>1, <2>2 DEF KnownLive, Watched
  <2>4. job'.known[s] # "not"
    <3>1. job'.known = [job.known EXCEPT ![t] = IF KnownLive(t) THEN "live" ELSE "not"]
      BY DEF Turn, TypeOK
    <3>2. CASE t = s
      BY <2>3, <3>1, <3>2 DEF TypeOK
    <3>3. CASE t # s
      BY <2>1, <3>1, <3>3 DEF TypeOK
    <3> QED
      BY <3>2, <3>3
  <2>5. ASSUME NEW c \in OpenOf(s) PROVE Awaits(c)' \/ Said(c)'
    <3>1. c \in DOMAIN cycles /\ cycles[c].sub = s
      BY DEF OpenOf
    <3>2. CASE Said(c)
      BY <2>1, <3>1, <3>2, TurnKeepsSaid
    <3>3. CASE c = h
      BY <2>1, <2>3, <3>1, <3>3, TurnSays
    <3>4. CASE ~Said(c) /\ c # h
      <4>1. PICK k \in DOMAIN job.todo : job.todo[k] = c
        BY <2>1, <3>4 DEF CaughtUp, Awaits
      <4>2. k # 1
        BY <1>2, <3>4, <4>1
      <4>3. k - 1 \in DOMAIN Tail(job.todo) /\ Tail(job.todo)[k - 1] = c
        BY <1>2, <4>1, <4>2
      <4> QED
        BY <1>2, <4>3 DEF Awaits
    <3> QED
      BY <3>2, <3>3, <3>4
  <2> QED
    BY <1>3, <2>4, <2>5
<1> QED
  BY <1>4, <1>5, <1>6 DEF CaughtUp

LEMMA CaughtUpStep ==
    ASSUME TypeOK, RunDated, Tracked, Told, CaughtUp, [Next]_vars
    PROVE  CaughtUp'
<1>1. ASSUME NEW r \in Req, Commit(r) PROVE CaughtUp'
  <2>1. UNCHANGED <<today, swept, job>>
    BY <1>1 DEF Commit
  <2>2. HoldsOwn
    BY DEF Tracked
  <2> QED
    BY <1>1, <2>1, <2>2, CommitUnsettles, LessToWatch
<1>2. CASE \/ \E r \in Req : Load(r)
           \/ \E s \in Sub : Archive(s)
           \/ UNCHANGED vars
  <2>1. UNCHANGED <<today, swept, job, published, cycles, sent>> /\ archived \subseteq archived'
    BY <1>2 DEF Load, Archive, vars
  <2>2. \A s \in Sub : Watched(s)' => Watched(s) /\ OpenOf(s)' = OpenOf(s)
    BY <2>1 DEF Watched, Live, Settled, OpenOf
  <2> QED
    BY <2>1, <2>2, LessToWatch
<1> QED
  BY <1>1, <1>2, NextDayCatchesUp, StartCatchesUp, TurnCatchesUp, EndCatchesUp DEF Next

\* Whether a message is copied depends on its day and on when its cycle was due.
LEMMA CopiedFromStep ==
    ASSUME TypeOK, RunDated, CopiedFrom, [Next]_vars
    PROVE  CopiedFrom'
<1>1. CASE Turn
  <2>1. PICK c \in DOMAIN cycles :
           /\ job.now \in Nat /\ cycles[c] \in Cycle /\ sent[c] \in Seq(MessageType)
           /\ \/ Notes(c, Noticed(cycles[c]), Message("due", cycles[c], FALSE))
              \/ Notes(c, [cycles[c] EXCEPT !.last = job.now],
                       Message("overdue", cycles[c], Copied(cycles[c])))
              \/ UNCHANGED <<cycles, sent>>
    BY <1>1, TurnCases
  <2>2. DOMAIN sent = DOMAIN cycles
    BY DEF TypeOK
  <2>3. CASE UNCHANGED <<cycles, sent>>
    BY <2>3 DEF CopiedFrom
  <2>4. ASSUME NEW msg, sent' = [sent EXCEPT ![c] = Append(@, msg)],
               msg.kind = "overdue" =>
                   (msg.copied <=> msg.day - cycles[c].due >= Patience)
        PROVE  CopiedFrom'
    <3>1. sent'[c] = Append(sent[c], msg) /\ DOMAIN sent' = DOMAIN cycles
      BY <2>2, <2>4
    <3>2. \A i \in DOMAIN sent'[c] :
             \/ i \in DOMAIN sent[c] /\ sent'[c][i] = sent[c][i]
             \/ sent'[c][i] = msg
      BY <2>1, <3>1
    <3>3. \A d \in DOMAIN sent : d # c => sent'[d] = sent[d]
      BY <2>4
    <3> QED
      BY <1>1, <2>2, <2>4, <3>1, <3>2, <3>3, TurnKeepsRows DEF CopiedFrom
  <2>5. Message("due", cycles[c], FALSE).kind = "due"
    BY DEF Message
  <2>6. /\ Message("overdue", cycles[c], Copied(cycles[c])).day = job.now
        /\ Message("overdue", cycles[c], Copied(cycles[c])).copied = Copied(cycles[c])
    BY DEF Message
  <2> QED
    BY <2>1, <2>3, <2>4, <2>5, <2>6 DEF Notes, Copied
<1>2. ASSUME NEW r \in Req, Commit(r) PROVE CopiedFrom'
  <2>1. Extends
    BY <1>2, CommitExtends
  <2>2. DOMAIN sent = DOMAIN cycles /\ DOMAIN sent' = DOMAIN cycles'
    BY <2>1 DEF TypeOK, Extends
  <2>3. \A c \in DOMAIN cycles : cycles'[c].due = cycles[c].due
    <3>1. \A c \in DOMAIN cycles : cycles[c] \in Cycle
      BY DEF TypeOK
    <3>2. \A x \in Cycle : Shut(x).due = x.due
      BY DEF Shut, Cycle
    <3> QED
      BY <2>1, <3>1, <3>2 DEF Extends
  <2>4. \A c \in DOMAIN sent' : \/ c \in DOMAIN sent /\ sent'[c] = sent[c]
                                \/ sent'[c] = <<>>
    BY <2>1, <2>2 DEF Extends
  <2> QED
    BY <2>2, <2>3, <2>4 DEF CopiedFrom
<1>3. CASE \/ NextDay \/ Start \/ Finish \/ Break \/ UNCHANGED vars
           \/ \E r \in Req : Load(r)
           \/ \E s \in Sub : Archive(s)
  <2>1. UNCHANGED <<cycles, sent>>
    BY <1>3 DEF NextDay, Start, Finish, Break, Load, Archive, vars
  <2> QED
    BY <2>1 DEF CopiedFrom
<1> QED
  BY <1>1, <1>2, <1>3 DEF Next

-----------------------------------------------------------------------------
(* The invariant and what it gives.                                        *)

LEMMA InitIInv == Init => IInv
<1> SUFFICES ASSUME Init PROVE IInv
  OBVIOUS
<1>1. /\ cycles = <<>> /\ sent = <<>> /\ job.todo = <<>> /\ published = {}
      /\ \A r \in Req : req[r] = Idle
      /\ ~swept /\ archived = {} /\ job = NoRun
  BY DEF Init, NoRun
<1>2. Tracked
  BY <1>1 DEF Tracked, HoldsOwn, PublishedIsTracked
<1>3. Told
  BY <1>1 DEF Told, LateOnce, NoticeFirst, WeekApart, ClosedIsQuiet
<1>4. CaughtUp
  BY <1>1 DEF CaughtUp, NobodyForgotten, Watched, Live
<1>5. CopiedFrom
  BY <1>1 DEF CopiedFrom
<1> QED
  BY <1>2, <1>3, <1>4, <1>5, TypeInit DEF IInv

THEOREM Invariance == Spec => []IInv
<1>1. Init => IInv
  BY InitIInv
<1>2. IInv /\ [Next]_vars => IInv'
  BY TypeStep, TrackedStep, ToldStep, CaughtUpStep, CopiedFromStep DEF IInv
<1> QED
  BY <1>1, <1>2, PTL DEF Spec

\* Rows, messages, requests and the run stay within their types.
THEOREM TypeCorrect == Spec => []TypeOK
  BY Invariance, PTL DEF IInv

\* No order of publications, confirmations and reopenings leaves a published
\* offering without an open cycle.
THEOREM PublishedTracked == Spec => []PublishedIsTracked
<1>1. IInv => PublishedIsTracked
  BY DEF IInv, Tracked
<1> QED
  BY <1>1, Invariance, PTL

\* The first message about a cycle, and no other, says that it falls due.
THEOREM NoticeComesFirst == Spec => []NoticeFirst
<1>1. IInv => NoticeFirst
  BY DEF IInv, Told
<1> QED
  BY <1>1, Invariance, PTL

\* The owners of a cycle are written to at most once in a week.
THEOREM WeeksApart == Spec => []WeekApart
<1>1. IInv => WeekApart
  BY DEF IInv, Told
<1> QED
  BY <1>1, Invariance, PTL

\* Once closed, a cycle is written about by the run that had loaded it, once.
THEOREM ClosedQuiet == Spec => []ClosedIsQuiet
<1>1. IInv => ClosedIsQuiet
  BY DEF IInv, Told
<1> QED
  BY <1>1, Invariance, PTL

\* On a day on which a run has gone through, every open cycle of an offering
\* published before has had its notice, and its reminder of the week: rows that
\* requests close or open meanwhile, and broken runs, lose nothing.
THEOREM NobodyIsForgotten == Spec => []NobodyForgotten
<1>1. IInv => NobodyForgotten
  BY DEF IInv, CaughtUp
<1> QED
  BY <1>1, Invariance, PTL

\* By then the admins have been copied of whatever is neglected for long, unless
\* the one message so far is the notice.
THEOREM NeglectReachesAdmins == Spec => []NeglectIsEscalated
<1>1. IInv => NeglectIsEscalated
  <2> SUFFICES ASSUME IInv, swept, NEW s \in Sub, Live(s), Settled(s), NEW c \in OpenOf(s),
                      today - cycles[c].due >= Patience + Week
               PROVE  sent[c][Len(sent[c])].copied \/ Len(sent[c]) = 1
    BY DEF NeglectIsEscalated
  <2> DEFINE n == Len(sent[c])
  <2>1. /\ c \in DOMAIN cycles /\ DOMAIN sent = DOMAIN cycles /\ today \in Nat
        /\ sent \in Seq(Seq(MessageType)) /\ cycles \in Seq(Cycle)
    BY DEF IInv, TypeOK, OpenOf, MessageType
  <2>2. sent[c] \in Seq(MessageType) /\ cycles[c].due \in Nat
    <3>1. sent[c] \in Seq(MessageType) /\ cycles[c] \in Cycle
      BY <2>1
    <3> QED
      BY <3>1 DEF Cycle
  <2>3. /\ Week \in Nat /\ Patience \in Nat /\ Notice \in Nat
    BY ReviewCyclesAssumption
  <2>4. today > cycles[c].due /\ today >= cycles[c].due - Notice
    BY <2>1, <2>2, <2>3, ReviewCyclesAssumption
  <2>5. sent[c] # <<>> /\ Age(c) < Week
    BY <2>4 DEF IInv, CaughtUp, NobodyForgotten
  <2>6. n \in DOMAIN sent[c] /\ sent[c][n] \in MessageType
    BY <2>2, <2>5
  <2>7. CASE sent[c][n].kind = "due"
    BY <2>1, <2>6, <2>7 DEF IInv, Told, NoticeFirst
  <2>8. CASE sent[c][n].kind = "overdue"
    <3>1. sent[c][n].day \in Nat
      BY <2>6 DEF MessageType
    <3>2. sent[c][n].day - cycles[c].due >= Patience
      BY <2>1, <2>2, <2>3, <2>5, <3>1 DEF Age
    <3> QED
      BY <2>1, <2>6, <2>8, <3>2 DEF IInv, CopiedFrom
  <2> QED
    BY <2>6, <2>7, <2>8 DEF MessageType
<1> QED
  BY <1>1, Invariance, PTL
=============================================================================
