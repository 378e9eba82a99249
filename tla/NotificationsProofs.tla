------------------------ MODULE NotificationsProofs ------------------------
(***************************************************************************)
(* What the log says of each mail is true, for any number of requests,      *)
(* jobs, rows, retries and crashes, although passes overlap and count on    *)
(* what they loaded.                                                        *)
(***************************************************************************)
EXTENDS Notifications, FiniteSetTheorems, TLAPS

Status == {"queued", "sent", "failed"}
Phase  == {"idle", "work", "select", "send", "sent", "error", "reset"}

HeldRow(n) == [id: 1 .. n, status: Status, attempts: Nat]
Session(n) == [pc: Phase, own: SUBSET (1 .. n), todo: Seq(HeldRow(n))]

\* Counts in the table never run ahead of the calls of the provider.
Counted == \A i \in DOMAIN row : row[i].attempts <= tried[i]

\* What a pass x holds can be written back: the counts it loaded are not ahead of
\* the calls t either, nor used up, and the call it is about to record was made. A retry
\* holds its row.
Owed(x, t, a) ==
    /\ x.pc \in {"send", "sent", "error"} =>
         /\ \A k \in DOMAIN x.todo : /\ x.todo[k].attempts < MaxAttempts
                                     /\ x.todo[k].attempts <= t[x.todo[k].id]
         /\ x.pc # "send" => /\ x.todo # <<>>
                             /\ x.todo[1].attempts + 1 <= t[x.todo[1].id]
         /\ x.pc = "sent" => a[x.todo[1].id] > 0
    /\ x.pc = "reset" => x.todo # <<>>

Truth == SentWasAccepted /\ FailedAfterAllAttempts /\ Counted

IInv == TypeOK /\ Truth /\ \A s \in Sender : Owed(sender[s], tried, accepted)

-----------------------------------------------------------------------------
(* Types.                                                                  *)

LEMMA FunctionIsSeq ==
    ASSUME NEW S, NEW n \in Nat, NEW f \in [1 .. n -> S]
    PROVE  f \in Seq(S) /\ Len(f) = n /\ DOMAIN f = 1 .. n
  OBVIOUS

LEMMA Appended ==
    ASSUME NEW S, NEW q \in Seq(S), NEW x \in S
    PROVE  /\ Append(q, x) \in Seq(S)
           /\ Append(q, x) \in [1 .. Len(q) + 1 -> S]
           /\ Len(Append(q, x)) = Len(q) + 1
           /\ \A i \in 1 .. Len(q) : Append(q, x)[i] = q[i]
           /\ Append(q, x)[Len(q) + 1] = x
<1>1. /\ Append(q, x) \in Seq(S)
      /\ Len(Append(q, x)) = Len(q) + 1
      /\ \A i \in 1 .. Len(q) : Append(q, x)[i] = q[i]
      /\ Append(q, x)[Len(q) + 1] = x
  OBVIOUS
<1> DEFINE a == Append(q, x)
<1> HIDE DEF a
<1>2. a \in Seq(S) /\ Len(a) = Len(q) + 1
  BY <1>1 DEF a
<1>3. a \in [1 .. Len(q) + 1 -> S]
  BY <1>2
<1> QED
  BY <1>1, <1>3 DEF a

LEMMA TypeFacts ==
    ASSUME TypeOK
    PROVE  /\ Len(row) \in Nat /\ DOMAIN row = 1 .. Len(row)
           /\ row \in [1 .. Len(row) -> Row]
           /\ tried \in [1 .. Len(row) -> 0 .. MaxAttempts]
           /\ accepted \in [1 .. Len(row) -> 0 .. 2]
           /\ doubt \subseteq 1 .. Len(row)
           /\ sender \in [Sender -> Session(Len(row))]
           /\ MaxAttempts \in Nat \ {0} /\ Limit \in Nat \ {0}
<1>1. row \in Seq(Row)
  BY DEF TypeOK
<1>2. Len(row) \in Nat /\ DOMAIN row = 1 .. Len(row) /\ row \in [1 .. Len(row) -> Row]
  BY <1>1
<1>3. /\ tried \in [1 .. Len(row) -> 0 .. MaxAttempts]
      /\ accepted \in [1 .. Len(row) -> 0 .. 2]
      /\ doubt \subseteq 1 .. Len(row)
  BY <1>2 DEF TypeOK
<1>4. sender \in [Sender -> Session(Len(row))]
  BY <1>2 DEF TypeOK, Session, HeldRow, Status, Phase
<1> QED
  BY <1>2, <1>3, <1>4, NotificationsAssumption

\* What a session holds stays in range when rows are added.
LEMMA SessionGrows ==
    ASSUME NEW n \in Nat
    PROVE  Session(n) \subseteq Session(n + 1)
<1>1. 1 .. n \subseteq 1 .. n + 1
  OBVIOUS
<1>2. HeldRow(n) \subseteq HeldRow(n + 1)
  BY <1>1 DEF HeldRow
<1>3. Seq(HeldRow(n)) \subseteq Seq(HeldRow(n + 1))
  BY <1>2
<1> QED
  BY <1>1, <1>3 DEF Session

LEMMA IdleType == ASSUME NEW n \in Nat PROVE Idle \in Session(n)
<1>1. <<>> \in Seq(HeldRow(n))
  OBVIOUS
<1> QED
  BY <1>1 DEF Idle, Session, Phase

-----------------------------------------------------------------------------
(* Queueing.                                                               *)

\* A new row is queued, untried; everything else stays.
Extends ==
    /\ row' \in Seq(Row) /\ Len(row') = Len(row) + 1
    /\ tried' \in [1 .. Len(row) + 1 -> 0 .. MaxAttempts]
    /\ accepted' \in [1 .. Len(row) + 1 -> 0 .. 2]
    /\ \A i \in 1 .. Len(row) :
         row'[i] = row[i] /\ tried'[i] = tried[i] /\ accepted'[i] = accepted[i]
    /\ row'[Len(row) + 1] = Fresh /\ tried'[Len(row) + 1] = 0

LEMMA AddRowExtends == ASSUME TypeOK, AddRow PROVE Extends
<1> USE TypeFacts
<1>1. Fresh \in Row
  BY DEF Fresh, Row
<1>2. /\ row' \in Seq(Row) /\ Len(row') = Len(row) + 1
      /\ \A i \in 1 .. Len(row) : row'[i] = row[i]
      /\ row'[Len(row) + 1] = Fresh
  <2>1. row' = Append(row, Fresh) /\ row \in Seq(Row)
    BY DEF AddRow, TypeOK
  <2> HIDE DEF Fresh
  <2> QED
    BY <1>1, <2>1
<1>3. /\ tried' \in [1 .. Len(row) + 1 -> 0 .. MaxAttempts]
      /\ \A i \in 1 .. Len(row) : tried'[i] = tried[i]
      /\ tried'[Len(row) + 1] = 0
  <2>1. tried \in Seq(0 .. MaxAttempts) /\ Len(tried) = Len(row)
    BY FunctionIsSeq
  <2>2. tried' = Append(tried, 0) /\ 0 \in 0 .. MaxAttempts
    BY DEF AddRow
  <2> DEFINE S == 0 .. MaxAttempts
  <2>3. tried \in Seq(S) /\ 0 \in S
    BY <2>1, <2>2
  <2> HIDE DEF S
  <2>4. /\ tried' \in [1 .. Len(tried) + 1 -> S]
        /\ \A i \in 1 .. Len(tried) : tried'[i] = tried[i]
        /\ tried'[Len(tried) + 1] = 0
    BY <2>2, <2>3, Appended
  <2> QED
    BY <2>1, <2>4 DEF S
<1>4. /\ accepted' \in [1 .. Len(row) + 1 -> 0 .. 2]
      /\ \A i \in 1 .. Len(row) : accepted'[i] = accepted[i]
  <2>1. accepted \in Seq(0 .. 2) /\ Len(accepted) = Len(row)
    BY FunctionIsSeq
  <2>2. accepted' = Append(accepted, 0) /\ 0 \in 0 .. 2
    BY DEF AddRow
  <2> DEFINE S == 0 .. 2
  <2>3. accepted \in Seq(S) /\ 0 \in S
    BY <2>1, <2>2
  <2> HIDE DEF S
  <2>4. /\ accepted' \in [1 .. Len(accepted) + 1 -> S]
        /\ \A i \in 1 .. Len(accepted) : accepted'[i] = accepted[i]
    BY <2>2, <2>3, Appended
  <2> QED
    BY <2>1, <2>4 DEF S
<1> QED
  BY <1>2, <1>3, <1>4 DEF Extends

\* Nothing tried or taken is forgotten.
Grown == \A i \in 1 .. Len(row) : tried'[i] >= tried[i] /\ accepted'[i] >= accepted[i]

\* So what a pass holds stays in order while others go on.
LEMMA OwedStays ==
    ASSUME TypeOK, Grown, NEW x \in Session(Len(row)), Owed(x, tried, accepted),
           \A i \in 1 .. Len(row) : tried'[i] \in Nat /\ accepted'[i] \in Nat
    PROVE  Owed(x, tried', accepted')
<1>1. x.todo \in Seq(HeldRow(Len(row)))
  BY DEF Session
<1>2. \A h \in HeldRow(Len(row)) : h.id \in 1 .. Len(row) /\ h.attempts \in Nat
  BY DEF HeldRow
<1>3. \A k \in DOMAIN x.todo : x.todo[k].id \in 1 .. Len(row) /\ x.todo[k].attempts \in Nat
  BY <1>1, <1>2
<1>4. x.todo # <<>> => 1 \in DOMAIN x.todo
  BY <1>1
<1>5. \A i \in 1 .. Len(row) : tried[i] \in Nat /\ accepted[i] \in Nat
  BY TypeFacts
<1>6. CASE x.pc \in {"send", "sent", "error"}
  <2>1. \A k \in DOMAIN x.todo : /\ x.todo[k].attempts < MaxAttempts
                                 /\ x.todo[k].attempts <= tried'[x.todo[k].id]
    BY <1>3, <1>5, <1>6 DEF Owed, Grown
  <2>2. x.pc # "send" => /\ x.todo # <<>>
                         /\ x.todo[1].attempts + 1 <= tried'[x.todo[1].id]
    BY <1>3, <1>4, <1>5, <1>6 DEF Owed, Grown
  <2>3. x.pc = "sent" => accepted'[x.todo[1].id] > 0
    <3>1. x.pc = "sent" => 1 \in DOMAIN x.todo /\ accepted[x.todo[1].id] > 0
      BY <1>4, <1>6 DEF Owed
    <3> QED
      BY <1>3, <1>5, <3>1 DEF Grown
  <2> QED
    BY <1>6, <2>1, <2>2, <2>3 DEF Owed
<1> QED
  BY <1>6 DEF Owed

\* Whatever a step does, the other sessions stay in order.
LEMMA StepKeeps ==
    ASSUME IInv, NEW n \in {Len(row), Len(row) + 1},
           row' \in Seq(Row), Len(row') = n,
           tried' \in [1 .. n -> 0 .. MaxAttempts], accepted' \in [1 .. n -> 0 .. 2],
           doubt' \subseteq 1 .. n, Grown, Truth',
           NEW s \in Sender, NEW x \in Session(n), Owed(x, tried', accepted'),
           sender' = [sender EXCEPT ![s] = x],
           lock' \in Job \union {NoJob},
           retries' \in 0 .. MaxRetries, crashes' \in 0 .. MaxCrashes
    PROVE  IInv'
<1>1. /\ Len(row) \in Nat /\ DOMAIN row' = 1 .. n /\ MaxAttempts \in Nat
      /\ sender \in [Sender -> Session(Len(row))]
      /\ 1 .. Len(row) \subseteq 1 .. n
  BY TypeFacts DEF IInv
<1>2. sender' \in [Sender -> Session(n)]
  BY <1>1, SessionGrows
<1>3. TypeOK'
  BY <1>1, <1>2 DEF TypeOK, Session, HeldRow, Status, Phase
<1>4. ASSUME NEW t \in Sender PROVE Owed(sender'[t], tried', accepted')
  <2>1. CASE t = s
    BY <1>1, <2>1
  <2>2. CASE t # s
    <3>1. sender'[t] = sender[t] /\ sender[t] \in Session(Len(row))
      BY <1>1, <2>2
    <3>2. Owed(sender[t], tried, accepted)
      BY DEF IInv
    <3>3. \A i \in 1 .. Len(row) : tried'[i] \in Nat /\ accepted'[i] \in Nat
      BY <1>1
    <3> QED
      BY <3>1, <3>2, <3>3, OwedStays DEF IInv
  <2> QED
    BY <2>1, <2>2
<1> QED
  BY <1>3, <1>4 DEF IInv

\* Whoever queued it, a new row breaks nothing.
LEMMA ExtendsKeeps ==
    ASSUME IInv, Extends, NEW s \in Sender, NEW x \in Session(Len(row) + 1),
           x.pc \notin {"send", "sent", "error", "reset"},
           sender' = [sender EXCEPT ![s] = x],
           UNCHANGED <<lock, doubt, bounds>>
    PROVE  IInv'
<1>1. /\ Len(row) \in Nat /\ DOMAIN row = 1 .. Len(row)
      /\ Len(row') = Len(row) + 1 /\ DOMAIN row' = 1 .. Len(row) + 1
      /\ tried \in [1 .. Len(row) -> 0 .. MaxAttempts]
      /\ accepted \in [1 .. Len(row) -> 0 .. 2] /\ MaxAttempts \in Nat
  BY TypeFacts DEF IInv, Extends
<1>2. Truth'
  <2>1. \A i \in DOMAIN row' : i \in DOMAIN row \/ i = Len(row) + 1
    BY <1>1
  <2>2. /\ row'[Len(row) + 1].status = "queued" /\ row'[Len(row) + 1].attempts = 0
        /\ tried'[Len(row) + 1] = 0
    BY DEF Extends, Fresh
  <2>3. SentWasAccepted'
    BY <1>1, <2>1, <2>2 DEF IInv, Extends, Truth, SentWasAccepted
  <2>4. FailedAfterAllAttempts'
    BY <1>1, <2>1, <2>2 DEF IInv, Extends, Truth, FailedAfterAllAttempts
  <2>5. Counted'
    BY <1>1, <2>1, <2>2 DEF IInv, Extends, Truth, Counted
  <2> QED
    BY <2>3, <2>4, <2>5 DEF Truth
<1>3. Grown
  BY <1>1 DEF Extends, Grown
<1>4. Owed(x, tried', accepted')
  BY DEF Owed
<1>5. /\ lock' \in Job \union {NoJob} /\ doubt' \subseteq 1 .. Len(row) + 1
      /\ retries' \in 0 .. MaxRetries /\ crashes' \in 0 .. MaxCrashes
  BY <1>1 DEF IInv, TypeOK, bounds
<1> QED
  BY <1>1, <1>2, <1>3, <1>4, <1>5, StepKeeps DEF Extends

\* A session moves on and the table stays as it is.
LEMMA SessionKeeps ==
    ASSUME IInv, UNCHANGED <<row, calls>>, doubt' \subseteq 1 .. Len(row),
           NEW s \in Sender, NEW x \in Session(Len(row)), Owed(x, tried, accepted),
           sender' = [sender EXCEPT ![s] = x],
           lock' \in Job \union {NoJob},
           retries' \in 0 .. MaxRetries, crashes' \in 0 .. MaxCrashes
    PROVE  IInv'
<1>1. UNCHANGED <<row, tried, accepted>>
  BY DEF calls
<1>2. Truth' /\ Grown
  <2>1. \A i \in 1 .. Len(row) : tried[i] \in Nat /\ accepted[i] \in Nat
    BY TypeFacts DEF IInv
  <2>2. Grown
    BY <1>1, <2>1 DEF Grown
  <2>3. Truth'
    BY <1>1 DEF IInv, Truth, SentWasAccepted, FailedAfterAllAttempts, Counted
  <2> QED
    BY <2>2, <2>3
<1>3. /\ row \in Seq(Row) /\ tried \in [1 .. Len(row) -> 0 .. MaxAttempts]
      /\ accepted \in [1 .. Len(row) -> 0 .. 2]
  BY TypeFacts DEF IInv, TypeOK
<1> QED
  BY <1>1, <1>2, <1>3, StepKeeps

-----------------------------------------------------------------------------
(* The actions.                                                            *)

\* What a session is made of, and a bound that is unchanged stays within itself.
LEMMA Facts ==
    ASSUME IInv, NEW s \in Sender
    PROVE  /\ Len(row) \in Nat /\ DOMAIN row = 1 .. Len(row)
           /\ sender[s] \in Session(Len(row)) /\ sender \in [Sender -> Session(Len(row))]
           /\ sender[s].pc \in Phase /\ sender[s].own \subseteq 1 .. Len(row)
           /\ sender[s].todo \in Seq(HeldRow(Len(row)))
           /\ Owed(sender[s], tried, accepted)
           /\ lock \in Job \union {NoJob} /\ doubt \subseteq 1 .. Len(row)
           /\ retries \in 0 .. MaxRetries /\ crashes \in 0 .. MaxCrashes
<1>1. /\ Len(row) \in Nat /\ DOMAIN row = 1 .. Len(row)
      /\ sender[s] \in Session(Len(row)) /\ sender \in [Sender -> Session(Len(row))]
  BY TypeFacts DEF IInv
<1>2. /\ sender[s].pc \in Phase /\ sender[s].own \subseteq 1 .. Len(row)
      /\ sender[s].todo \in Seq(HeldRow(Len(row)))
  BY <1>1 DEF Session
<1> QED
  BY <1>1, <1>2 DEF IInv, TypeOK

LEMMA QueueKeeps ==
    ASSUME IInv, NEW s \in Sender, QueueByRequest(s) \/ QueueByJob(s)
    PROVE  IInv'
<1> USE Facts
<1>1. Extends
  BY AddRowExtends DEF IInv, QueueByRequest, QueueByJob
<1>2. Len(row) \in Nat /\ Session(Len(row)) \subseteq Session(Len(row) + 1)
  BY SessionGrows
<1>3. CASE QueueByRequest(s)
  <2>1. PICK own \in {{}, {Len(row) + 1}} :
          sender' = [sender EXCEPT ![s] = [Idle EXCEPT !.pc = "select", !.own = own]]
    BY <1>3 DEF QueueByRequest
  <2> DEFINE x == [Idle EXCEPT !.pc = "select", !.own = own]
  <2>2. own \subseteq 1 .. Len(row) + 1
    BY <1>2
  <2>3. x \in Session(Len(row) + 1) /\ x.pc = "select"
    BY <1>2, <2>2, IdleType DEF Session, Phase, Idle
  <2>4. UNCHANGED <<lock, doubt, bounds>>
    BY <1>3 DEF QueueByRequest, AddRow
  <2> HIDE DEF x
  <2>5. sender' = [sender EXCEPT ![s] = x]
    BY <2>1 DEF x
  <2> QED
    BY <1>1, <2>3, <2>4, <2>5, ExtendsKeeps
<1>4. CASE QueueByJob(s)
  <2> DEFINE x == [sender[s] EXCEPT !.own = @ \union {Len(row) + 1}]
  <2>1. sender' = [sender EXCEPT ![s] = x] /\ sender[s].pc = "work"
    BY <1>4 DEF QueueByJob
  <2>2. sender[s].own \union {Len(row) + 1} \subseteq 1 .. Len(row) + 1
    BY <1>2
  <2>3. sender[s] \in Session(Len(row) + 1)
    BY <1>2
  <2>4. x \in Session(Len(row) + 1) /\ x.pc = "work"
    BY <2>1, <2>2, <2>3 DEF Session
  <2>5. UNCHANGED <<lock, doubt, bounds>>
    BY <1>4 DEF QueueByJob, AddRow
  <2> HIDE DEF x
  <2> QED
    BY <1>1, <2>1, <2>4, <2>5, ExtendsKeeps
<1> QED
  BY <1>3, <1>4

LEMMA SelectKeeps ==
    ASSUME IInv, NEW s \in Sender, Select(s)
    PROVE  IInv'
<1> DEFINE due == {i \in DOMAIN row : Pending(i)}
           n == IF Cardinality(due) < Limit THEN Cardinality(due) ELSE Limit
<1>1. n \in Nat
  <2>1. Len(row) \in Nat /\ DOMAIN row = 1 .. Len(row)
    BY Facts
  <2>2. IsFiniteSet(1 .. Len(row))
    BY <2>1, FS_Interval
  <2>3. due \subseteq 1 .. Len(row)
    BY <2>1
  <2>4. IsFiniteSet(due)
    BY <2>2, <2>3, FS_Subset
  <2>5. Limit \in Nat
    BY NotificationsAssumption
  <2> QED
    BY <2>4, <2>5, FS_CardinalityType
<1> USE Facts
<1>2. PICK first \in [1 .. n -> due] :
        sender' = [sender EXCEPT ![s] =
            [pc |-> "send", own |-> {},
             todo |-> [k \in DOMAIN first |->
                         Held(first[k], IF first[k] \in sender[s].own THEN Fresh
                                        ELSE row[first[k]])]]]
  BY DEF Select, Batch
<1> DEFINE loaded(k) == Held(first[k], IF first[k] \in sender[s].own THEN Fresh
                                       ELSE row[first[k]])
           todo == [k \in DOMAIN first |-> loaded(k)]
           x == [pc |-> "send", own |-> {}, todo |-> todo]
<1>3. \A i \in due : /\ i \in 1 .. Len(row) /\ row[i] \in Row
                      /\ row[i].attempts < MaxAttempts /\ row[i].attempts <= tried[i]
                      /\ tried[i] \in Nat
  BY TypeFacts DEF Pending, IInv, Truth, Counted
<1>4. ASSUME NEW k \in 1 .. n
      PROVE  /\ loaded(k) \in HeldRow(Len(row))
             /\ loaded(k).attempts < MaxAttempts
             /\ loaded(k).attempts <= tried[loaded(k).id]
  <2>1. first[k] \in due
    BY <1>2
  <2>2. CASE first[k] \in sender[s].own
    <3>1. MaxAttempts \in Nat \ {0}
      BY NotificationsAssumption
    <3> QED
      BY <1>3, <2>1, <2>2, <3>1 DEF Held, HeldRow, Fresh, Status
  <2>3. CASE first[k] \notin sender[s].own
    BY <1>3, <2>1, <2>3 DEF Held, HeldRow, Row, Status
  <2> QED
    BY <2>2, <2>3
<1> HIDE DEF loaded, due, n
<1>5. DOMAIN first = 1 .. n
  BY <1>2
<1>6. todo \in [1 .. n -> HeldRow(Len(row))]
  BY <1>4, <1>5
<1>7. todo \in Seq(HeldRow(Len(row))) /\ DOMAIN todo = 1 .. n
  BY <1>1, <1>6, FunctionIsSeq
<1>8. \A k \in 1 .. n : todo[k] = loaded(k)
  BY <1>5
<1>9. sender' = [sender EXCEPT ![s] = x]
  BY <1>2 DEF loaded
<1> HIDE DEF todo
<1>10. x \in Session(Len(row)) /\ Owed(x, tried, accepted)
  BY <1>4, <1>7, <1>8 DEF Session, Phase, Owed
<1>11. UNCHANGED <<row, lock, calls, retries, crashes>> /\ doubt' \subseteq 1 .. Len(row)
  <2>1. \A k \in DOMAIN first : first[k] \in 1 .. Len(row)
    BY <1>2, <1>3
  <2> QED
    BY DEF Select, bounds, Batch
<1> HIDE DEF x
<1> QED
  BY <1>9, <1>10, <1>11, SessionKeeps

LEMMA BoundFacts ==
    ASSUME NEW most \in Nat \ {0}, NEW n \in 0 .. most
    PROVE  /\ Bound(n, most) \in 0 .. most /\ Bound(n, most) >= n /\ Bound(n, most) > 0
           /\ \A m \in Nat : m < most /\ m <= n => m + 1 <= Bound(n, most)
  BY DEF Bound

LEMMA SendKeeps ==
    ASSUME IInv, NEW s \in Sender, Send(s)
    PROVE  IInv'
<1> USE Facts
<1> DEFINE i == sender[s].todo[1].id
<1>1. PICK o \in Outcome :
        /\ tried' = [tried EXCEPT ![i] = Bound(@, MaxAttempts)]
        /\ accepted' = IF o = "refused" THEN accepted
                       ELSE [accepted EXCEPT ![i] = Bound(@, 2)]
        /\ sender' = [sender EXCEPT ![s].pc = IF o = "accepted" THEN "sent" ELSE "error"]
  <2>1. Head(sender[s].todo) = sender[s].todo[1]
    BY DEF Send
  <2> QED
    BY <2>1 DEF Send
<1>2. /\ sender[s].pc = "send" /\ sender[s].todo # <<>>
      /\ UNCHANGED <<row, lock, retries, crashes>>
      /\ doubt' \subseteq doubt \union {i}
  BY DEF Send, bounds
<1> DEFINE x == [sender[s] EXCEPT !.pc = IF o = "accepted" THEN "sent" ELSE "error"]
<1>3. /\ x \in Session(Len(row)) /\ x.todo = sender[s].todo
      /\ x.pc = IF o = "accepted" THEN "sent" ELSE "error"
  BY DEF Session, Phase
<1>4. sender' = [sender EXCEPT ![s] = x]
  BY <1>1
<1>5. /\ \A k \in DOMAIN sender[s].todo : sender[s].todo[k] \in HeldRow(Len(row))
      /\ 1 \in DOMAIN sender[s].todo
  BY <1>2
<1>6. \A k \in DOMAIN sender[s].todo : /\ sender[s].todo[k].id \in 1 .. Len(row)
                                        /\ sender[s].todo[k].attempts \in Nat
  BY <1>5 DEF HeldRow
<1>7. /\ tried \in [1 .. Len(row) -> 0 .. MaxAttempts]
      /\ accepted \in [1 .. Len(row) -> 0 .. 2] /\ MaxAttempts \in Nat \ {0}
      /\ row \in Seq(Row)
  BY TypeFacts DEF IInv, TypeOK
<1>8. i \in 1 .. Len(row)
  BY <1>5, <1>6
<1> HIDE DEF i, x
<1>9. /\ Bound(tried[i], MaxAttempts) \in 0 .. MaxAttempts
      /\ Bound(tried[i], MaxAttempts) >= tried[i]
      /\ \A m \in Nat : m < MaxAttempts /\ m <= tried[i] => m + 1 <= Bound(tried[i], MaxAttempts)
  <2>1. tried[i] \in 0 .. MaxAttempts /\ MaxAttempts \in Nat \ {0}
    BY <1>7, <1>8
  <2> QED
    BY <2>1, BoundFacts
<1>10. /\ Bound(accepted[i], 2) \in 0 .. 2
       /\ Bound(accepted[i], 2) >= accepted[i] /\ Bound(accepted[i], 2) > 0
  <2>1. accepted[i] \in 0 .. 2
    BY <1>7, <1>8
  <2> QED
    BY <2>1 DEF Bound
<1>11. /\ tried' \in [1 .. Len(row) -> 0 .. MaxAttempts]
      /\ accepted' \in [1 .. Len(row) -> 0 .. 2]
  BY <1>1, <1>7, <1>8, <1>9, <1>10
<1>12. Grown
  <2>1. \A j \in 1 .. Len(row) : tried[j] \in Int /\ accepted[j] \in Int
    BY <1>7
  <2> QED
    BY <1>1, <1>7, <1>8, <1>9, <1>10, <2>1 DEF Grown
<1>13. Truth'
  <2>1. \A j \in DOMAIN row : /\ tried[j] \in 0 .. MaxAttempts /\ tried'[j] \in 0 .. MaxAttempts
                              /\ tried'[j] >= tried[j] /\ accepted'[j] >= accepted[j]
                              /\ accepted[j] \in Nat /\ accepted'[j] \in Nat
                              /\ row[j].attempts \in Nat
    BY <1>7, <1>11, <1>12, TypeFacts DEF Grown, IInv, Row
  <2>2. SentWasAccepted'
    BY <1>2, <2>1 DEF IInv, Truth, SentWasAccepted
  <2>3. FailedAfterAllAttempts'
    BY <1>2, <1>7, <2>1 DEF IInv, Truth, FailedAfterAllAttempts
  <2>4. Counted'
    BY <1>2, <2>1 DEF IInv, Truth, Counted
  <2> QED
    BY <2>2, <2>3, <2>4 DEF Truth
<1>14. Owed(x, tried', accepted')
  <2>1. \A k \in DOMAIN sender[s].todo :
           /\ sender[s].todo[k].attempts < MaxAttempts
           /\ sender[s].todo[k].attempts <= tried'[sender[s].todo[k].id]
    BY <1>2, <1>6, <1>7, <1>11, <1>12 DEF Owed, Grown
  <2>2. sender[s].todo[1].attempts + 1 <= tried'[i]
    <3>1. /\ sender[s].todo[1].attempts < MaxAttempts
          /\ sender[s].todo[1].attempts <= tried[i]
      BY <1>2, <1>5 DEF Owed, i
    <3>2. tried'[i] = Bound(tried[i], MaxAttempts)
      BY <1>1, <1>7, <1>8
    <3> QED
      BY <1>5, <1>6, <1>9, <3>1, <3>2
  <2>3. o = "accepted" => accepted'[i] > 0
    BY <1>1, <1>7, <1>8, <1>10
  <2> QED
    BY <1>2, <1>3, <2>1, <2>2, <2>3 DEF Owed, i
<1> QED
  <2>1. doubt' \subseteq 1 .. Len(row)
    BY <1>2, <1>8
  <2> QED
    BY <1>2, <1>3, <1>4, <1>7, <1>11, <1>12, <1>13, <1>14, <2>1, StepKeeps

\* A pass or a retry writes one row it holds, and goes on.
LEMMA WriteKeeps ==
    ASSUME IInv, NEW s \in Sender, NEW i \in 1 .. Len(row), NEW y \in Row,
           row' = [row EXCEPT ![i] = y],
           y.attempts <= tried[i],
           y.status = "sent" => accepted[i] > 0,
           y.status = "failed" => tried[i] = MaxAttempts,
           NEW x \in Session(Len(row)), Owed(x, tried, accepted),
           sender' = [sender EXCEPT ![s] = x],
           UNCHANGED <<lock, calls, bounds>>, doubt' \subseteq 1 .. Len(row)
    PROVE  IInv'
<1>1. UNCHANGED <<lock, tried, accepted, retries, crashes>>
  BY DEF calls, bounds
<1>2. /\ row' \in [1 .. Len(row) -> Row] /\ Len(row) \in Nat /\ DOMAIN row = 1 .. Len(row)
      /\ tried \in [1 .. Len(row) -> 0 .. MaxAttempts]
      /\ accepted \in [1 .. Len(row) -> 0 .. 2] /\ row \in [1 .. Len(row) -> Row]
  BY TypeFacts DEF IInv
<1>3. row' \in Seq(Row) /\ Len(row') = Len(row) /\ DOMAIN row' = 1 .. Len(row)
  BY <1>2, FunctionIsSeq
<1>4. row'[i] = y /\ \A j \in 1 .. Len(row) : j # i => row'[j] = row[j]
  BY <1>2
<1>5. Truth'
  <2>1. SentWasAccepted'
    BY <1>1, <1>2, <1>3, <1>4 DEF IInv, Truth, SentWasAccepted
  <2>2. FailedAfterAllAttempts'
    BY <1>1, <1>2, <1>3, <1>4 DEF IInv, Truth, FailedAfterAllAttempts
  <2>3. Counted'
    BY <1>1, <1>2, <1>3, <1>4 DEF IInv, Truth, Counted
  <2> QED
    BY <2>1, <2>2, <2>3 DEF Truth
<1>6. Grown
  BY <1>1, <1>2 DEF Grown
<1> QED
  BY <1>1, <1>2, <1>3, <1>5, <1>6, Facts, StepKeeps

LEMMA RecordKeeps ==
    ASSUME IInv, NEW s \in Sender, Record(s)
    PROVE  IInv'
<1> USE Facts
<1> DEFINE h == sender[s].todo[1]
           i == h.id
           y == Written(row[i], h.attempts + 1, sender[s].pc)
           x == [sender[s] EXCEPT !.pc = "send", !.todo = Tail(@)]
<1>1. /\ sender[s].pc \in {"sent", "error"} /\ sender[s].todo # <<>>
      /\ Head(sender[s].todo) = h
  BY DEF Record, Owed
<1>2. /\ 1 \in DOMAIN sender[s].todo /\ h \in HeldRow(Len(row))
      /\ Tail(sender[s].todo) \in Seq(HeldRow(Len(row)))
  BY <1>1
<1>3. i \in 1 .. Len(row) /\ h.attempts \in Nat
  BY <1>2 DEF HeldRow
<1>4. /\ row \in [1 .. Len(row) -> Row] /\ tried \in [1 .. Len(row) -> 0 .. MaxAttempts]
      /\ MaxAttempts \in Nat
  BY TypeFacts DEF IInv
<1>5. /\ row' = [row EXCEPT ![i] = y]
      /\ sender' = [sender EXCEPT ![s] = x]
      /\ UNCHANGED <<lock, calls, bounds>> /\ doubt' \subseteq 1 .. Len(row)
  BY <1>1 DEF Record, history
<1>6. /\ h.attempts + 1 <= tried[i]
      /\ sender[s].pc = "sent" => accepted[i] > 0
  BY <1>1 DEF Owed
<1>7. /\ y \in Row /\ y.attempts = h.attempts + 1
      /\ y.status = IF sender[s].pc = "sent" THEN "sent"
                    ELSE IF h.attempts + 1 >= MaxAttempts THEN "failed" ELSE row[i].status
  BY <1>3, <1>4 DEF Written, Row
<1>8. /\ y.status = "sent" => accepted[i] > 0
      /\ y.status = "failed" => tried[i] = MaxAttempts
  <2>1. /\ tried[i] \in 0 .. MaxAttempts
        /\ row[i].status = "sent" => accepted[i] > 0
        /\ row[i].status = "failed" => tried[i] = MaxAttempts
    BY <1>3, <1>4 DEF IInv, Truth, SentWasAccepted, FailedAfterAllAttempts
  <2> HIDE DEF h, i, y
  <2>2. y.status = "sent" => sender[s].pc = "sent" \/ row[i].status = "sent"
    BY <1>7
  <2>3. y.status = "failed" => h.attempts + 1 >= MaxAttempts \/ row[i].status = "failed"
    BY <1>7
  <2>4. h.attempts + 1 >= MaxAttempts => tried[i] = MaxAttempts
    BY <1>3, <1>4, <1>6, <2>1
  <2> QED
    BY <1>6, <2>1, <2>2, <2>3, <2>4
<1>9. x \in Session(Len(row)) /\ Owed(x, tried, accepted)
  <2>1. x \in Session(Len(row)) /\ x.pc = "send" /\ x.todo = Tail(sender[s].todo)
    BY <1>2 DEF Session, Phase
  <2>2. \A k \in DOMAIN Tail(sender[s].todo) :
           k + 1 \in DOMAIN sender[s].todo /\ Tail(sender[s].todo)[k] = sender[s].todo[k + 1]
    BY <1>1
  <2> QED
    BY <1>1, <2>1, <2>2 DEF Owed
<1> HIDE DEF h, i, x, y
<1> QED
  <2>1. y.attempts <= tried[i]
    BY <1>6, <1>7
  <2> QED
    BY <1>3, <1>5, <1>7, <1>8, <1>9, <2>1, WriteKeeps

LEMMA CommitRetryKeeps ==
    ASSUME IInv, NEW s \in Sender, CommitRetry(s)
    PROVE  IInv'
<1> USE Facts
<1> DEFINE h == Head(sender[s].todo)
           i == h.id
           y == Reset(row[i], h)
           x == [sender[s] EXCEPT !.pc = "select", !.todo = <<>>]
<1>1. /\ row' = [row EXCEPT ![i] = y]
      /\ sender' = [sender EXCEPT ![s] = x]
      /\ UNCHANGED <<lock, calls, bounds>>
  BY DEF CommitRetry
<1>6. i \in 1 .. Len(row) => doubt' \subseteq 1 .. Len(row)
  BY DEF CommitRetry
<1>2. x \in Session(Len(row)) /\ Owed(x, tried, accepted)
  <2>1. <<>> \in Seq(HeldRow(Len(row)))
    OBVIOUS
  <2>2. x \in Session(Len(row)) /\ x.pc = "select"
    BY <2>1 DEF Session, Phase
  <2> QED
    BY <2>2 DEF Owed
<1>3. /\ row \in [1 .. Len(row) -> Row] /\ tried \in [1 .. Len(row) -> 0 .. MaxAttempts]
      /\ MaxAttempts \in Nat
  BY TypeFacts DEF IInv
<1>4. i \in 1 .. Len(row)
  <2>1. sender[s].todo # <<>>
    BY DEF CommitRetry, Owed
  <2>2. h \in HeldRow(Len(row))
    BY <2>1
  <2> QED
    BY <2>2 DEF HeldRow
<1>5. row[i] \in Row /\ tried[i] \in Nat
  BY <1>3, <1>4
<1>7. /\ y \in Row
      /\ y.attempts \in {0, row[i].attempts} /\ y.status \in {"queued", row[i].status}
  BY <1>5 DEF Reset, Row
<1>8. /\ y.attempts <= tried[i]
      /\ y.status = "sent" => accepted[i] > 0
      /\ y.status = "failed" => tried[i] = MaxAttempts
  BY <1>4, <1>5, <1>7 DEF IInv, Truth, SentWasAccepted, FailedAfterAllAttempts, Counted
<1> HIDE DEF h, i, x, y
<1> QED
  BY <1>1, <1>2, <1>4, <1>6, <1>7, <1>8, WriteKeeps

LEMMA OtherKeeps ==
    ASSUME IInv, NEW s \in Sender,
           StartJob(s) \/ Finish(s) \/ Crash(s) \/ LoadRetry(s)
    PROVE  IInv'
<1> USE Facts
<1>1. CASE StartJob(s)
  <2> DEFINE x == [sender[s] EXCEPT !.pc = "work"]
  <2>1. x \in Session(Len(row)) /\ Owed(x, tried, accepted)
    BY DEF Session, Phase, Owed
  <2>2. /\ sender' = [sender EXCEPT ![s] = x] /\ UNCHANGED <<row, calls>>
        /\ lock' \in Job \union {NoJob} /\ UNCHANGED <<doubt, retries, crashes>>
    BY <1>1 DEF StartJob, bounds, history
  <2> HIDE DEF x
  <2> QED
    BY <2>1, <2>2, SessionKeeps
<1>2. CASE Finish(s) \/ Crash(s)
  <2>1. Idle \in Session(Len(row)) /\ Owed(Idle, tried, accepted)
    BY IdleType DEF Owed, Idle
  <2>2. /\ sender' = [sender EXCEPT ![s] = Idle] /\ UNCHANGED <<row, calls>>
        /\ lock' \in Job \union {NoJob} /\ UNCHANGED retries
    BY <1>2 DEF Finish, Crash, Released, bounds, history
  <2>3. crashes' \in 0 .. MaxCrashes
    BY <1>2, NotificationsAssumption DEF Finish, Crash, bounds
  <2>4. doubt' \subseteq 1 .. Len(row)
    <3>1. CASE doubt' = doubt
      BY <3>1
    <3>2. CASE sender[s].pc = "sent" /\ doubt' = doubt \union {Head(sender[s].todo).id}
      <4>1. Head(sender[s].todo) \in HeldRow(Len(row))
        BY <3>2 DEF Owed
      <4> QED
        BY <3>2, <4>1 DEF HeldRow
    <3> QED
      BY <1>2, <3>1, <3>2 DEF Finish, Crash, history
  <2> QED
    BY <2>1, <2>2, <2>3, <2>4, SessionKeeps
<1>3. CASE LoadRetry(s)
  <2>1. PICK i \in DOMAIN row :
          sender' = [sender EXCEPT ![s] =
                      [pc |-> "reset", own |-> {i}, todo |-> <<Held(i, row[i])>>]]
    BY <1>3 DEF LoadRetry
  <2> DEFINE x == [pc |-> "reset", own |-> {i}, todo |-> <<Held(i, row[i])>>]
  <2>2. row[i] \in Row
    BY TypeFacts DEF IInv
  <2>3. Held(i, row[i]) \in HeldRow(Len(row))
    BY <2>2 DEF Held, HeldRow, Row, Status
  <2>4. x \in Session(Len(row)) /\ Owed(x, tried, accepted)
    BY <2>3 DEF Session, Phase, Owed
  <2>5. sender' = [sender EXCEPT ![s] = x]
    BY <2>1
  <2>6. /\ UNCHANGED <<row, lock, calls, doubt, crashes>>
        /\ retries < MaxRetries /\ retries' = retries + 1
    BY <1>3 DEF LoadRetry, history
  <2>7. /\ lock' \in Job \union {NoJob} /\ UNCHANGED <<row, calls, doubt>>
        /\ retries' \in 0 .. MaxRetries /\ crashes' \in 0 .. MaxCrashes
    BY <2>6, NotificationsAssumption
  <2> HIDE DEF x
  <2> QED
    BY <2>4, <2>5, <2>7, SessionKeeps
<1> QED
  BY <1>1, <1>2, <1>3

-----------------------------------------------------------------------------
(* The invariant and what it gives.                                        *)

LEMMA InitIInv == Init => IInv
<1> SUFFICES ASSUME Init PROVE IInv
  OBVIOUS
<1>1. /\ row = <<>> /\ tried = <<>> /\ accepted = <<>> /\ doubt = {}
      /\ sender = [s \in Sender |-> Idle] /\ lock = NoJob /\ retries = 0 /\ crashes = 0
  BY DEF Init
<1>2. row \in Seq(Row) /\ DOMAIN row = 1 .. 0
  BY <1>1
<1>3. tried \in [DOMAIN row -> 0 .. MaxAttempts] /\ accepted \in [DOMAIN row -> 0 .. 2]
  BY <1>1
<1>4. sender \in [Sender -> Session(0)]
  BY <1>1, IdleType
<1>5. retries \in 0 .. MaxRetries /\ crashes \in 0 .. MaxCrashes
  BY <1>1, NotificationsAssumption
<1>6. TypeOK
  BY <1>1, <1>2, <1>3, <1>4, <1>5 DEF TypeOK, Session, HeldRow, Status, Phase
<1>7. Truth
  BY <1>2 DEF Truth, SentWasAccepted, FailedAfterAllAttempts, Counted
<1>8. \A s \in Sender : Owed(sender[s], tried, accepted)
  BY <1>1 DEF Owed, Idle
<1> QED
  BY <1>6, <1>7, <1>8 DEF IInv

LEMMA NextIInv == IInv /\ [Next]_vars => IInv'
<1> SUFFICES ASSUME IInv, [Next]_vars PROVE IInv'
  OBVIOUS
<1>1. CASE Next
  BY <1>1, QueueKeeps, SelectKeeps, SendKeeps, RecordKeeps, CommitRetryKeeps, OtherKeeps
     DEF Next
<1>2. CASE UNCHANGED vars
  BY <1>2 DEF vars, IInv, TypeOK, Truth, SentWasAccepted, FailedAfterAllAttempts, Counted
<1> QED
  BY <1>1, <1>2

LEMMA Invariance == Spec => []IInv
  BY InitIInv, NextIInv, PTL DEF Spec

\* The table, the sessions of all passes and the counters stay well typed.
THEOREM TypeCorrect == Spec => []TypeOK
<1>1. IInv => TypeOK
  BY DEF IInv
<1> QED
  BY <1>1, Invariance, PTL

\* What the log calls sent, the provider has taken.
THEOREM SentIsTrue == Spec => []SentWasAccepted
<1>1. IInv => SentWasAccepted
  BY DEF IInv, Truth
<1> QED
  BY <1>1, Invariance, PTL

\* Nothing is given up before the provider was tried MaxAttempts times.
THEOREM FailedIsTrue == Spec => []FailedAfterAllAttempts
<1>1. IInv => FailedAfterAllAttempts
  BY DEF IInv, Truth
<1> QED
  BY <1>1, Invariance, PTL

-----------------------------------------------------------------------------
(* Nobody is mailed twice but for a reason. A row that is not in doubt is   *)
(* held by one pass at most, and once it was taken, that pass is about to   *)
(* record it or the row says sent.                                          *)

Just(x, i) == x.pc = "sent" /\ x.todo[1].id = i

Once(i) ==
    /\ accepted[i] <= 1
    /\ \A s, t \in Sender : i \in Takes(sender[s]) /\ i \in Takes(sender[t]) => s = t
    /\ accepted[i] = 1 => \/ row[i].status = "sent"
                          \/ \E s \in Sender : Just(sender[s], i)
    /\ \A s \in Sender : i \in Takes(sender[s]) /\ accepted[i] = 1 => Just(sender[s], i)

\* A pass holds no row twice.
Distinct(x) ==
    x.pc \in {"send", "sent", "error"} =>
        \A j, k \in DOMAIN x.todo : j < k => x.todo[j].id # x.todo[k].id

Single == /\ \A i \in DOMAIN row \ doubt : Once(i)
          /\ \A s \in Sender : Distinct(sender[s])

OnlyRequestsRetry == \A s \in Sender : sender[s].pc = "reset" => s \in Request

LEMMA TakesFacts ==
    ASSUME IInv, NEW s \in Sender
    PROVE  /\ Takes(sender[s]) \subseteq 1 .. Len(row)
           /\ \A i : Just(sender[s], i) => i \in Takes(sender[s])
           /\ sender[s].pc \in {"sent", "error"} =>
                 sender[s].todo # <<>> /\ 1 \in DOMAIN sender[s].todo
<1>1. sender[s].todo \in Seq(HeldRow(Len(row))) /\ Owed(sender[s], tried, accepted)
  BY Facts
<1>2. \A k \in DOMAIN sender[s].todo : sender[s].todo[k].id \in 1 .. Len(row)
  <2>1. \A k \in DOMAIN sender[s].todo : sender[s].todo[k] \in HeldRow(Len(row))
    BY <1>1
  <2> QED
    BY <2>1 DEF HeldRow
<1>3. sender[s].pc \in {"sent", "error"} =>
         sender[s].todo # <<>> /\ 1 \in DOMAIN sender[s].todo
  BY <1>1 DEF Owed
<1> QED
  BY <1>2, <1>3 DEF Takes, Just

\* One session moves on and neither drops the mail it just made nor takes a row
\* it did not hold.
LEMMA OnceStays ==
    ASSUME NEW i, Once(i), NEW s \in Sender,
           \A t \in Sender : t # s => sender'[t] = sender[t],
           row'[i].status = row[i].status, accepted'[i] = accepted[i],
           i \in Takes(sender'[s]) => i \in Takes(sender[s]),
           Just(sender[s], i) => Just(sender'[s], i)
    PROVE  Once(i)'
<1>1. \A t \in Sender : /\ i \in Takes(sender'[t]) => i \in Takes(sender[t])
                        /\ Just(sender[t], i) => Just(sender'[t], i)
  OBVIOUS
<1> QED
  BY <1>1 DEF Once

\* A session that holds no rows any more, or none yet.
LEMMA LetGo ==
    ASSUME IInv, Single, NEW s \in Sender, NEW x,
           x.pc \notin {"send", "sent", "error"},
           sender' = [sender EXCEPT ![s] = x],
           doubt \subseteq doubt', DOMAIN row \subseteq DOMAIN row',
           \A i \in DOMAIN row \ doubt' :
              row'[i].status = row[i].status /\ accepted'[i] = accepted[i],
           \A i \in DOMAIN row' \ DOMAIN row : accepted'[i] = 0,
           \A i \in DOMAIN row : Just(sender[s], i) => i \in doubt'
    PROVE  Single'
<1>1. sender'[s] = x /\ \A t \in Sender : t # s => sender'[t] = sender[t]
  BY TypeFacts DEF IInv
<1>2. Takes(x) = {} /\ \A i : ~Just(x, i)
  BY DEF Takes, Just
<1>3. ASSUME NEW i \in DOMAIN row' \ doubt' PROVE Once(i)'
  <2>1. CASE i \in DOMAIN row
    <3>1. Once(i) /\ ~Just(sender[s], i)
      BY <1>3, <2>1 DEF Single
    <3>2. row'[i].status = row[i].status /\ accepted'[i] = accepted[i]
      BY <1>3, <2>1
    <3> QED
      BY <1>1, <1>2, <3>1, <3>2, OnceStays
  <2>2. CASE i \notin DOMAIN row
    <3>1. accepted'[i] = 0
      BY <1>3, <2>2
    <3>2. DOMAIN row = 1 .. Len(row)
      BY TypeFacts DEF IInv
    <3>3. \A t \in Sender : i \notin Takes(sender'[t])
      BY <1>1, <1>2, <2>2, <3>2, TakesFacts
    <3> QED
      BY <3>1, <3>3 DEF Once
  <2> QED
    BY <2>1, <2>2
<1>4. Distinct(x)
  BY DEF Distinct
<1> QED
  BY <1>1, <1>3, <1>4 DEF Single

LEMMA IdleAndQueueSingle ==
    ASSUME IInv, Single, NEW s \in Sender,
           \/ QueueByRequest(s) \/ QueueByJob(s) \/ StartJob(s)
           \/ Finish(s) \/ LoadRetry(s)
    PROVE  Single'
<1>1. ~\E i : Just(sender[s], i)
  BY DEF QueueByRequest, QueueByJob, StartJob, Finish, LoadRetry, Just, Idle
<1>2. DOMAIN row = 1 .. Len(row) /\ Len(row) \in Nat
  BY TypeFacts DEF IInv
<1>3. \E x : /\ sender' = [sender EXCEPT ![s] = x]
             /\ x.pc \notin {"send", "sent", "error"}
  <2>1. CASE QueueByRequest(s)
    <3>1. PICK own : sender' =
                       [sender EXCEPT ![s] = [Idle EXCEPT !.pc = "select", !.own = own]]
      BY <2>1 DEF QueueByRequest
    <3>2. [Idle EXCEPT !.pc = "select", !.own = own].pc = "select"
      BY DEF Idle
    <3> QED
      BY <3>1, <3>2
  <2>2. CASE QueueByJob(s)
    <3>1. sender' = [sender EXCEPT ![s] =
                        [sender[s] EXCEPT !.own = @ \union {Len(row) + 1}]]
      BY <2>2 DEF QueueByJob
    <3>2. [sender[s] EXCEPT !.own = @ \union {Len(row) + 1}].pc = "work"
      BY <2>2, Facts DEF QueueByJob, Session
    <3> QED
      BY <3>1, <3>2
  <2>3. CASE StartJob(s)
    <3>1. sender' = [sender EXCEPT ![s] = [sender[s] EXCEPT !.pc = "work"]]
      BY <2>3 DEF StartJob
    <3>2. [sender[s] EXCEPT !.pc = "work"].pc = "work"
      BY Facts DEF Session
    <3> QED
      BY <3>1, <3>2
  <2>4. CASE Finish(s)
    <3>1. sender' = [sender EXCEPT ![s] = Idle] /\ Idle.pc = "idle"
      BY <2>4 DEF Finish, Idle
    <3> QED
      BY <3>1
  <2>5. CASE LoadRetry(s)
    <3>1. PICK i \in DOMAIN row :
            sender' = [sender EXCEPT ![s] =
                        [pc |-> "reset", own |-> {i}, todo |-> <<Held(i, row[i])>>]]
      BY <2>5 DEF LoadRetry
    <3> DEFINE x == [pc |-> "reset", own |-> {i}, todo |-> <<Held(i, row[i])>>]
    <3>2. x.pc = "reset" /\ sender' = [sender EXCEPT ![s] = x]
      BY <3>1
    <3> HIDE DEF x
    <3> QED
      BY <3>2
  <2> QED
    BY <2>1, <2>2, <2>3, <2>4, <2>5
<1>4. doubt' = doubt
  BY DEF QueueByRequest, QueueByJob, StartJob, Finish, LoadRetry, AddRow, history
<1>5. /\ DOMAIN row \subseteq DOMAIN row'
      /\ \A i \in DOMAIN row : row'[i] = row[i] /\ accepted'[i] = accepted[i]
      /\ \A i \in DOMAIN row' \ DOMAIN row : accepted'[i] = 0
  <2>1. CASE AddRow
    <3>1. /\ row' = Append(row, Fresh) /\ accepted' = Append(accepted, 0)
          /\ row \in Seq(Row) /\ Fresh \in Row
      BY <2>1 DEF AddRow, IInv, TypeOK, Fresh, Row
    <3>2. accepted \in Seq(0 .. 2) /\ Len(accepted) = Len(row)
      BY <1>2, TypeFacts, FunctionIsSeq DEF IInv
    <3>3. /\ DOMAIN row' = 1 .. Len(row) + 1
          /\ \A i \in 1 .. Len(row) : row'[i] = row[i]
      BY <3>1, Appended
    <3> DEFINE S == 0 .. 2
    <3>4. accepted \in Seq(S) /\ 0 \in S
      BY <3>2
    <3> HIDE DEF S
    <3>5. /\ \A i \in 1 .. Len(accepted) : accepted'[i] = accepted[i]
          /\ accepted'[Len(accepted) + 1] = 0
      BY <3>1, <3>4, Appended
    <3> QED
      BY <1>2, <3>2, <3>3, <3>5
  <2>2. CASE UNCHANGED <<row, accepted>>
    BY <2>2
  <2>3. AddRow \/ UNCHANGED <<row, accepted>>
    BY DEF QueueByRequest, QueueByJob, StartJob, Finish, LoadRetry, history, calls
  <2> QED
    BY <2>1, <2>2, <2>3
<1> QED
  BY <1>1, <1>3, <1>4, <1>5, LetGo

LEMMA CrashAndRetrySingle ==
    ASSUME IInv, Single, NEW s \in Sender, Crash(s) \/ CommitRetry(s)
    PROVE  Single'
<1>1. accepted' = accepted /\ doubt \subseteq doubt' /\ DOMAIN row' = DOMAIN row
  BY TypeFacts DEF Crash, CommitRetry, calls, IInv
<1>2. CASE Crash(s)
  <2>1. \A i : Just(sender[s], i) => i \in doubt'
    BY <1>2, TakesFacts DEF Crash, Just
  <2>2. sender' = [sender EXCEPT ![s] = Idle] /\ row' = row
    BY <1>2 DEF Crash
  <2> QED
    BY <1>1, <2>1, <2>2, LetGo DEF Idle
<1>3. CASE CommitRetry(s)
  <2> DEFINE x == [sender[s] EXCEPT !.pc = "select", !.todo = <<>>]
  <2>1. sender' = [sender EXCEPT ![s] = x] /\ \A i : ~Just(sender[s], i)
    BY <1>3 DEF CommitRetry, Just
  <2>2. x.pc = "select"
    BY Facts DEF Session
  <2>3. \A i \in DOMAIN row \ doubt' : row'[i] = row[i]
    BY <1>3, TypeFacts DEF CommitRetry, IInv
  <2> HIDE DEF x
  <2> QED
    BY <1>1, <2>1, <2>2, <2>3, LetGo
<1> QED
  BY <1>2, <1>3

LEMMA SelectSingle ==
    ASSUME IInv, Single, NEW s \in Sender, Select(s)
    PROVE  Single'
<1> DEFINE due == {i \in DOMAIN row : Pending(i)}
           n == IF Cardinality(due) < Limit THEN Cardinality(due) ELSE Limit
<1>1. PICK first \in [1 .. n -> due] :
        /\ \A j, k \in 1 .. n : j < k => first[j] < first[k]
        /\ sender' = [sender EXCEPT ![s] =
              [pc |-> "send", own |-> {},
               todo |-> [k \in DOMAIN first |->
                           Held(first[k], IF first[k] \in sender[s].own THEN Fresh
                                          ELSE row[first[k]])]]]
        /\ doubt' = doubt \union {i \in Taken : \E k \in DOMAIN first : first[k] = i}
  BY DEF Select, Batch
<1>2. /\ UNCHANGED <<row, accepted>> /\ DOMAIN row = 1 .. Len(row)
      /\ sender[s].pc \in {"work", "select"}
      /\ accepted \in [1 .. Len(row) -> 0 .. 2]
  BY TypeFacts DEF Select, calls, IInv
<1> DEFINE x == sender'[s]
<1>3. /\ \A t \in Sender : t # s => sender'[t] = sender[t]
      /\ x.pc = "send" /\ DOMAIN x.todo = 1 .. n
      /\ \A k \in 1 .. n : x.todo[k].id = first[k] /\ first[k] \in due
  BY <1>1, TypeFacts DEF IInv, Held
<1> HIDE DEF due, n
<1>4. Takes(x) = {first[k] : k \in 1 .. n} /\ DOMAIN first = 1 .. n
  <2>1. Takes(x) = {x.todo[k].id : k \in 1 .. n}
    BY <1>3 DEF Takes
  <2> HIDE DEF x
  <2> QED
    BY <1>1, <1>3, <2>1
<1>5. \A i : ~Just(sender[s], i) /\ ~Just(x, i)
  BY <1>2, <1>3 DEF Just
<1>6. Takes(sender[s]) = {}
  BY <1>2 DEF Takes
<1> HIDE DEF x
<1>7. ASSUME NEW i \in DOMAIN row \ doubt' PROVE Once(i)'
  <2>1. Once(i)
    BY <1>1, <1>7 DEF Single
  <2>2. CASE i \notin Takes(x)
    BY <1>2, <1>3, <1>5, <2>1, <2>2, OnceStays DEF x
  <2>3. CASE i \in Takes(x)
    <3>1. i \notin Taken
      BY <1>1, <1>4, <1>7, <2>3
    <3>2. \A t \in Sender : i \notin Takes(sender[t]) /\ ~Just(sender[t], i)
      BY <3>1, TakesFacts DEF Taken
    <3>3. row[i].status = "queued"
      BY <1>3, <1>4, <2>3 DEF due, Pending
    <3>4. accepted[i] # 1 /\ accepted[i] <= 1
      BY <2>1, <3>2, <3>3 DEF Once
    <3>5. \A t \in Sender : i \in Takes(sender'[t]) => t = s
      BY <1>3, <3>2
    <3> QED
      BY <1>2, <3>4, <3>5 DEF Once
  <2> QED
    BY <2>2, <2>3
<1>8. Distinct(x)
  <2>1. \A k \in 1 .. n : first[k] \in Int
    BY <1>2, <1>3 DEF due
  <2> QED
    BY <1>1, <1>3, <2>1 DEF Distinct
<1> QED
  BY <1>2, <1>3, <1>7, <1>8 DEF Single, x

LEMMA SendSingle ==
    ASSUME IInv, Single, NEW s \in Sender, Send(s)
    PROVE  Single'
<1> DEFINE i == sender[s].todo[1].id
           x == sender'[s]
<1>1. PICK o \in Outcome :
        /\ accepted' = IF o = "refused" THEN accepted
                       ELSE [accepted EXCEPT ![i] = Bound(@, 2)]
        /\ doubt' = IF o = "unclear" THEN doubt \union {i} ELSE doubt
        /\ sender' = [sender EXCEPT ![s].pc = IF o = "accepted" THEN "sent" ELSE "error"]
  <2>1. Head(sender[s].todo) = sender[s].todo[1]
    BY DEF Send
  <2> QED
    BY <2>1 DEF Send
<1>2. /\ sender[s].pc = "send" /\ sender[s].todo # <<>> /\ row' = row
      /\ DOMAIN row = 1 .. Len(row) /\ accepted \in [1 .. Len(row) -> 0 .. 2]
  BY TypeFacts DEF Send, IInv
<1>3. 1 \in DOMAIN sender[s].todo
  BY <1>2, Facts
<1>4. /\ \A t \in Sender : t # s => sender'[t] = sender[t]
      /\ x.pc = IF o = "accepted" THEN "sent" ELSE "error"
      /\ x.todo = sender[s].todo
  BY <1>1, Facts DEF Session
<1>5. /\ Takes(x) = Takes(sender[s]) /\ i \in Takes(sender[s])
      /\ \A j : ~Just(sender[s], j)
      /\ \A j : Just(x, j) <=> o = "accepted" /\ j = i
  <2>1. x.pc \in {"sent", "error"}
    BY <1>4
  <2> QED
    BY <1>2, <1>3, <1>4, <2>1 DEF Takes, Just
<1>6. i \in DOMAIN row
  BY <1>2, <1>5, TakesFacts
<1>7. doubt \subseteq doubt'
  BY <1>1
<1>8. o \in {"accepted", "refused", "unclear"}
  BY NotificationsAssumption
<1> HIDE DEF i
<1>9. ASSUME NEW j \in DOMAIN row \ doubt' PROVE Once(j)'
  <2>1. Once(j)
    BY <1>7, <1>9 DEF Single
  <2>2. CASE j # i
    <3>1. accepted'[j] = accepted[j]
      BY <1>1, <1>2, <2>2
    <3> QED
      BY <1>2, <1>4, <1>5, <2>1, <3>1, OnceStays
  <2>3. CASE j = i
    <3>1. accepted[i] = 0
      <4>1. accepted[i] # 1 /\ accepted[i] <= 1
        BY <1>5, <2>1, <2>3 DEF Once
      <4>2. accepted[i] \in 0 .. 2
        BY <1>2, <1>6
      <4> QED
        BY <4>1, <4>2
    <3>2. CASE o = "refused"
      BY <1>1, <1>2, <1>4, <1>5, <2>1, <2>3, <3>2, OnceStays
    <3>3. CASE o = "accepted"
      <4>1. accepted'[i] = 1
        BY <1>1, <1>2, <1>6, <3>1, <3>3 DEF Bound
      <4>2. Just(sender'[s], i)
        BY <1>5, <3>3
      <4>3. \A t \in Sender : i \in Takes(sender'[t]) => i \in Takes(sender[t])
        BY <1>4, <1>5
      <4>4. \A t \in Sender : i \in Takes(sender'[t]) => t = s
        BY <1>5, <2>1, <2>3, <4>3 DEF Once
      <4> QED
        BY <2>3, <4>1, <4>2, <4>4 DEF Once
    <3>4. CASE o = "unclear"
      BY <1>1, <1>9, <2>3, <3>4
    <3> QED
      BY <1>8, <3>2, <3>3, <3>4
  <2> QED
    BY <2>2, <2>3
<1>10. Distinct(x)
  BY <1>2, <1>4 DEF Single, Distinct
<1> QED
  BY <1>2, <1>4, <1>9, <1>10 DEF Single

LEMMA RecordSingle ==
    ASSUME IInv, Single, NEW s \in Sender, Record(s)
    PROVE  Single'
<1> DEFINE i == sender[s].todo[1].id
           x == sender'[s]
<1>1. /\ sender[s].pc \in {"sent", "error"} /\ sender[s].todo # <<>>
      /\ 1 \in DOMAIN sender[s].todo
      /\ sender[s].todo \in Seq(HeldRow(Len(row)))
  BY Facts, TakesFacts DEF Record
<1>2. /\ row' = [row EXCEPT ![i] = Written(@, sender[s].todo[1].attempts + 1, sender[s].pc)]
      /\ sender' = [sender EXCEPT ![s].pc = "send", ![s].todo = Tail(@)]
  BY <1>1 DEF Record
<1>3. /\ UNCHANGED <<accepted, doubt>>
      /\ DOMAIN row = 1 .. Len(row) /\ DOMAIN row' = DOMAIN row
      /\ accepted \in [1 .. Len(row) -> 0 .. 2]
  BY <1>2, TypeFacts DEF Record, history, calls, IInv
<1>4. /\ \A t \in Sender : t # s => sender'[t] = sender[t]
      /\ x.pc = "send" /\ x.todo = Tail(sender[s].todo)
  BY <1>2, Facts DEF Session
<1>5. \A k \in DOMAIN x.todo : /\ k + 1 \in DOMAIN sender[s].todo /\ 1 < k + 1
                               /\ x.todo[k] = sender[s].todo[k + 1]
  BY <1>1, <1>4
<1>6. /\ Takes(x) \subseteq Takes(sender[s]) /\ i \in Takes(sender[s])
      /\ \A j : ~Just(x, j)
      /\ \A j : Just(sender[s], j) <=> sender[s].pc = "sent" /\ j = i
  <2>1. /\ Takes(x) = {x.todo[k].id : k \in DOMAIN x.todo}
        /\ Takes(sender[s]) = {sender[s].todo[k].id : k \in DOMAIN sender[s].todo}
    BY <1>1, <1>4 DEF Takes
  <2> QED
    BY <1>1, <1>4, <1>5, <2>1 DEF Just
<1>7. i \notin Takes(x)
  <2>1. \A k \in DOMAIN sender[s].todo : 1 < k => i # sender[s].todo[k].id
    BY <1>1 DEF Single, Distinct
  <2> QED
    BY <1>4, <1>5, <2>1 DEF Takes
<1>8. i \in DOMAIN row
  BY <1>3, <1>6, TakesFacts
<1> HIDE DEF i
<1>9. ASSUME NEW j \in DOMAIN row \ doubt PROVE Once(j)'
  <2>1. Once(j)
    BY <1>9 DEF Single
  <2>2. CASE j # i
    <3>1. row'[j] = row[j]
      BY <1>2, <2>2
    <3> QED
      BY <1>3, <1>4, <1>6, <2>1, <2>2, <3>1, OnceStays
  <2>3. CASE j = i
    <3>1. \A t \in Sender : i \notin Takes(sender'[t])
      BY <1>4, <1>6, <1>7, <2>1, <2>3 DEF Once
    <3>2. sender[s].pc = "error" => accepted[i] # 1
      BY <1>6, <2>1, <2>3 DEF Once
    <3>3. sender[s].pc = "sent" => row'[i].status = "sent"
      BY <1>2, <1>8 DEF Written
    <3> QED
      BY <1>1, <1>3, <2>1, <2>3, <3>1, <3>2, <3>3 DEF Once
  <2> QED
    BY <2>2, <2>3
<1>10. Distinct(x)
  <2>1. \A j, k \in DOMAIN sender[s].todo :
           j < k => sender[s].todo[j].id # sender[s].todo[k].id
    BY <1>1 DEF Single, Distinct
  <2>2. \A j, k \in DOMAIN x.todo : j < k => j + 1 < k + 1
    BY <1>1, <1>4
  <2> QED
    BY <1>5, <2>1, <2>2 DEF Distinct
<1> QED
  BY <1>3, <1>4, <1>9, <1>10 DEF Single

LEMMA SingleInit == Init => Single /\ OnlyRequestsRetry
  BY DEF Init, Single, OnlyRequestsRetry, Distinct, Idle

LEMMA SingleStep ==
    ASSUME IInv, Single, [Next]_vars
    PROVE  Single'
<1>1. CASE Next
  BY <1>1, IdleAndQueueSingle, CrashAndRetrySingle, SelectSingle, SendSingle,
     RecordSingle DEF Next
<1>2. CASE UNCHANGED vars
  BY <1>2 DEF vars, Single, Once, Distinct
<1> QED
  BY <1>1, <1>2

\* Jobs never retry, and only a retry puts a settled row back.
LEMMA RetryStep ==
    ASSUME IInv, OnlyRequestsRetry, [Next]_vars
    PROVE  /\ OnlyRequestsRetry'
           /\ \A i \in DOMAIN row :
                row[i].status # "queued" /\ row'[i].status = "queued" =>
                   \E s \in Request : /\ sender[s].pc = "reset"
                                      /\ Head(sender[s].todo).id = i
<1> DEFINE Back(i) == row[i].status # "queued" /\ row'[i].status = "queued"
           Retried(i) == \E s \in Request : /\ sender[s].pc = "reset"
                                            /\ Head(sender[s].todo).id = i
<1>1. /\ row \in [1 .. Len(row) -> Row] /\ DOMAIN row = 1 .. Len(row)
      /\ row \in Seq(Row) /\ Len(row) \in Nat
      /\ sender \in [Sender -> Session(Len(row))]
  BY TypeFacts DEF IInv, TypeOK
<1>2. ASSUME NEW s \in Sender, QueueByRequest(s) \/ QueueByJob(s) PROVE \A i \in DOMAIN row : ~Back(i)
  <2>1. Extends
    BY <1>2, AddRowExtends DEF IInv, QueueByRequest, QueueByJob
  <2> QED
    BY <1>1, <2>1 DEF Extends
<1>3. ASSUME NEW s \in Sender, Record(s) PROVE \A i \in DOMAIN row : ~Back(i)
  <2>1. PICK h, n : row' = [row EXCEPT ![h.id] = Written(@, n, sender[s].pc)]
    BY <1>3 DEF Record
  <2> QED
    BY <1>1, <2>1 DEF Written
<1>4. ASSUME NEW s \in Sender, CommitRetry(s) PROVE \A i \in DOMAIN row : Back(i) => Retried(i)
  <2>1. /\ row' = [row EXCEPT ![Head(sender[s].todo).id] = Reset(@, Head(sender[s].todo))]
        /\ sender[s].pc = "reset" /\ s \in Request
    BY <1>4 DEF CommitRetry, OnlyRequestsRetry
  <2>2. \A i \in DOMAIN row : i # Head(sender[s].todo).id => row'[i] = row[i]
    BY <1>1, <2>1
  <2> QED
    BY <2>1, <2>2
<1>5. ASSUME NEW s \in Sender,
             StartJob(s) \/ Select(s) \/ Send(s) \/ Finish(s) \/ Crash(s) \/ LoadRetry(s)
      PROVE  row' = row
  BY <1>5 DEF StartJob, Select, Send, Finish, Crash, LoadRetry
<1>6. \A i \in DOMAIN row : Back(i) => Retried(i)
  <2>1. CASE UNCHANGED vars
    BY <2>1 DEF vars
  <2>2. CASE Next
    <3> HIDE DEF Retried
    <3> QED
      BY <1>2, <1>3, <1>4, <1>5, <2>2 DEF Next
  <2> QED
    BY <2>1, <2>2
<1>7. OnlyRequestsRetry'
  <2>1. CASE UNCHANGED vars
    BY <2>1 DEF vars, OnlyRequestsRetry
  <2>2. ASSUME NEW s \in Sender, LoadRetry(s) PROVE OnlyRequestsRetry'
    BY <1>1, <2>2 DEF LoadRetry, OnlyRequestsRetry
  <2>3. ASSUME NEW s \in Sender,
               \/ QueueByRequest(s) \/ StartJob(s) \/ QueueByJob(s) \/ Select(s)
               \/ Send(s) \/ Record(s) \/ Finish(s) \/ Crash(s) \/ CommitRetry(s)
        PROVE  OnlyRequestsRetry'
    <3>1. sender'[s].pc # "reset"
      <4>1. \A y, z : /\ [sender[s] EXCEPT !.pc = y].pc = y
                      /\ [sender[s] EXCEPT !.pc = y, !.todo = z].pc = y
                      /\ [sender[s] EXCEPT !.own = z].pc = sender[s].pc
        BY <1>1 DEF Session
      <4>2. CASE QueueByRequest(s)
        <5>1. \E own : sender' =
                 [sender EXCEPT ![s] = [Idle EXCEPT !.pc = "select", !.own = own]]
          BY <4>2 DEF QueueByRequest
        <5>2. \A own : [Idle EXCEPT !.pc = "select", !.own = own].pc = "select"
          BY DEF Idle
        <5> QED
          BY <1>1, <5>1, <5>2
      <4>7. CASE Finish(s) \/ Crash(s)
        BY <1>1, <4>7 DEF Finish, Crash, Idle
      <4>3. CASE StartJob(s) \/ Send(s)
        <5>1. \E y \in {"work", "sent", "error"} :
                 sender' = [sender EXCEPT ![s] = [sender[s] EXCEPT !.pc = y]]
          BY <4>3 DEF StartJob, Send
        <5> QED
          BY <1>1, <4>1, <5>1
      <4>4. CASE Record(s) \/ CommitRetry(s)
        <5>1. \E z : \E y \in {"send", "select"} :
                 sender' = [sender EXCEPT ![s] = [sender[s] EXCEPT !.pc = y, !.todo = z]]
          BY <4>4 DEF Record, CommitRetry
        <5> QED
          BY <1>1, <4>1, <5>1
      <4>5. CASE QueueByJob(s)
        <5>1. /\ sender' = [sender EXCEPT ![s] =
                              [sender[s] EXCEPT !.own = @ \union {Len(row) + 1}]]
              /\ sender[s].pc = "work"
          BY <4>5 DEF QueueByJob
        <5> QED
          BY <1>1, <4>1, <5>1
      <4>6. CASE Select(s)
        BY <1>1, <4>6 DEF Select
      <4> QED
        BY <2>3, <4>2, <4>3, <4>4, <4>5, <4>6, <4>7
    <3>2. \A t \in Sender : t # s => sender'[t] = sender[t]
      BY <1>1, <2>3 DEF QueueByRequest, StartJob, QueueByJob, Select, Send, Record,
            Finish, Crash, CommitRetry
    <3> QED
      BY <3>1, <3>2 DEF OnlyRequestsRetry
  <2> QED
    BY <2>1, <2>2, <2>3 DEF Next
<1> QED
  BY <1>6, <1>7

LEMMA SingleInvariance == Spec => [](IInv /\ Single /\ OnlyRequestsRetry)
<1>1. Init => Single /\ OnlyRequestsRetry
  BY SingleInit
<1>2. IInv /\ Single /\ OnlyRequestsRetry /\ [Next]_vars => Single' /\ OnlyRequestsRetry'
  BY SingleStep, RetryStep
<1> QED
  BY <1>1, <1>2, Invariance, PTL DEF Spec

\* However passes overlap, crash and meet retries, a second mail has one of the
\* reasons that put a row in doubt.
THEOREM MailedTwiceForAReason == Spec => []MailedOnce
<1>1. IInv /\ Single => MailedOnce
  <2> SUFFICES ASSUME IInv, Single, NEW i \in DOMAIN row \ doubt PROVE ~(accepted[i] > 1)
    BY DEF MailedOnce
  <2>1. accepted[i] <= 1 /\ accepted[i] \in 0 .. 2
    BY TypeFacts DEF Single, Once, IInv
  <2> QED
    BY <2>1
<1> QED
  BY <1>1, SingleInvariance, PTL

\* A pass that still holds a row as queued never puts it back.
THEOREM SettledUnlessRetried == Spec => OnlyRetriesRequeue
<1>1. IInv /\ OnlyRequestsRetry /\ [Next]_vars =>
        [\A i \in DOMAIN row :
           row[i].status # "queued" /\ row'[i].status = "queued" =>
              \E s \in Request : /\ sender[s].pc = "reset"
                                 /\ Head(sender[s].todo).id = i]_vars
  BY RetryStep
<1> QED
  BY <1>1, SingleInvariance, PTL DEF Spec, OnlyRetriesRequeue
=============================================================================
