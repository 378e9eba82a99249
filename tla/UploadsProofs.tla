--------------------------- MODULE UploadsProofs ---------------------------
(***************************************************************************)
(* Rows and blobs keep together, for any number of requests, workers,       *)
(* attachments, errors and crashes, although no transaction spans both.     *)
(***************************************************************************)
EXTENDS Uploads, FiniteSetTheorems, TLAPS

Session ==
    [kind: {"upload", "detach", "remove"},
     at: {"reading", "touching", "dropping", "closing", "ending"},
     count: Nat, own: SUBSET Id, todo: SUBSET Id]

Typed ==
    /\ home \in Homes
    /\ row \in [Id -> {"none", "live", "deleted"}]
    /\ nextId \in 1 .. MaxId + 1
    /\ {archived, overlap} \subseteq BOOLEAN /\ faults \in 0 .. MaxFaults
    /\ holder \in Req \union {Nobody}
    /\ req \in [Req -> {Idle} \union Session]

\* Ids are not used again.
Unused == /\ \A a \in Id : a >= nextId => row[a] = "none"
          /\ dropped \union left \subseteq 1 .. nextId - 1

Stored(a) == Path(a) \in blobs \/ a \in dropped
Gone(a)   == Path(a) \notin blobs \/ a \in left

\* What an upload owns is not committed and stored; what a deletion owns once
\* was committed, and its blob goes before the request can end.
Sane(r) ==
    req[r] # Idle =>
        /\ req[r].own \subseteq 1 .. nextId - 1 /\ req[r].todo \subseteq req[r].own
        /\ Async(r) => /\ req[r].todo = {}
                       /\ \A a \in req[r].own : row[a] = "none" /\ Stored(a)
        /\ ~Async(r) => /\ req[r].at # "dropping" => req[r].todo = {}
                        /\ \A a \in req[r].own : row[a] # "none"
                        /\ \A a \in req[r].own \ req[r].todo : Gone(a)

\* No attachment is of two uploads.
Apart ==
    \A r, q \in Req : Async(r) /\ Async(q) /\ r # q => req[r].own \cap req[q].own = {}

RowsTrue ==
    \A a \in Id : /\ row[a] = "live" => Stored(a)
                  /\ row[a] = "deleted" => Gone(a)

IInv == Typed /\ Unused /\ Apart /\ RowsTrue /\ NothingLeftOver /\ \A r \in Req : Sane(r)

-----------------------------------------------------------------------------
(* What the invariant says of a request.                                   *)

LEMMA IdsAreIds ==
    ASSUME Typed
    PROVE  /\ nextId \in Nat /\ nextId > 0 /\ MaxId \in Nat
           /\ 1 .. nextId - 1 \subseteq Id
           /\ \A a \in 1 .. nextId - 1 : a \in Nat /\ a < nextId
  BY UploadsAssumption DEF Typed, Id

LEMMA SessionFacts ==
    ASSUME IInv, NEW r \in Req, req[r] # Idle
    PROVE  /\ req[r] \in Session
           /\ req[r].own \subseteq Id /\ req[r].todo \subseteq req[r].own
  BY DEF IInv, Typed, Session, Sane

LEMMA IdleIsNone ==
    /\ Idle.kind = "none" /\ Idle.at = "idle" /\ Idle \notin Session
    /\ \A r \in Req : Async(r) => req[r] # Idle
  BY DEF Idle, Session, Async

\* A request that does nothing stays in order when the others keep to this.
LEMMA OthersStaySane ==
    ASSUME IInv, NEW t \in Req, req'[t] = req[t],
           nextId' \in Nat, nextId' >= nextId,
           \A a \in Id : row[a] # "none" => row'[a] # "none",
           Async(t) => \A a \in req[t].own : row'[a] = row[a],
           \A a \in 1 .. nextId - 1 : (Stored(a) => Stored(a)') /\ (Gone(a) => Gone(a)')
    PROVE  Sane(t)'
<1> SUFFICES ASSUME req[t] # Idle PROVE Sane(t)'
  BY DEF Sane
<1>1. 1 .. nextId - 1 \subseteq 1 .. nextId' - 1
  BY IdsAreIds DEF IInv
<1>2. Sane(t) /\ req[t].own \subseteq Id
  BY SessionFacts DEF IInv
<1>3. Async(t)' <=> Async(t)
  BY DEF Async
<1>4. /\ req[t].own \subseteq 1 .. nextId' - 1 /\ req[t].todo \subseteq req[t].own
      /\ req[t].own \subseteq 1 .. nextId - 1
  BY <1>1, <1>2 DEF Sane
<1>5. ASSUME Async(t)
      PROVE  /\ req[t].todo = {}
             /\ \A a \in req[t].own : row'[a] = "none" /\ Stored(a)'
  BY <1>2, <1>4, <1>5 DEF Sane
<1>6. ASSUME ~Async(t)
      PROVE  /\ req[t].at # "dropping" => req[t].todo = {}
             /\ \A a \in req[t].own : row'[a] # "none"
             /\ \A a \in req[t].own \ req[t].todo : Gone(a)'
  BY <1>2, <1>4, <1>6 DEF Sane
<1> QED
  BY <1>3, <1>4, <1>5, <1>6 DEF Sane

\* Who accounts for a blob.
Owned(a) == \/ row[a] = "live" \/ a \in left
            \/ \E q \in Req : req[q] # Idle /\ a \in req[q].own

LEMMA StillOwned ==
    ASSUME NothingLeftOver,
           \A a \in Id : Path(a) \in blobs' /\ Owned(a) => Owned(a)',
           \A p \in blobs' \ blobs : \E a \in Id : p = Path(a) /\ Owned(a)'
    PROVE  NothingLeftOver'
<1> SUFFICES ASSUME NEW p \in blobs'
             PROVE  \E a \in Id : p = Path(a) /\ Owned(a)'
  BY DEF NothingLeftOver, Owned, Live, Path
<1>1. CASE p \in blobs
  <2>1. PICK a \in Id : p = Path(a) /\ Owned(a)
    BY <1>1 DEF NothingLeftOver, Owned, Live
  <2> QED
    BY <2>1
<1>2. CASE p \notin blobs
  BY <1>2
<1> QED
  BY <1>1, <1>2

-----------------------------------------------------------------------------
(* Steps that change neither rows nor blobs.                               *)

LEMMA BeginKeeps ==
    ASSUME IInv, NEW r \in Req, Begin(r)
    PROVE  IInv'
<1>1. UNCHANGED <<home, row, blobs, nextId, archived, holder, dropped, left, faults>>
  BY DEF Begin
<1>2. req[r] = Idle /\ req \in [Req -> {Idle} \union Session]
  BY DEF Begin, IInv, Typed
<1>3. IsFiniteSet(Live) /\ Live \subseteq Id /\ Cardinality(Live) \in Nat
  <2>1. IsFiniteSet(Id) /\ Live \subseteq Id
    BY FS_Interval, UploadsAssumption DEF Id, Live
  <2> QED
    BY <2>1, FS_Subset, FS_CardinalityType
<1>4. \A a \in Live : a \in 1 .. nextId - 1 /\ row[a] # "none" /\ a \in Id
  BY UploadsAssumption DEF Live, IInv, Unused, Typed, Id
<1>5. PICK kind \in {"upload", "detach", "remove"}, at \in {"reading", "dropping"}, own \in SUBSET Live :
        /\ req' = [req EXCEPT ![r] = Request(kind, at, own)]
        /\ IF kind = "upload" THEN own = {} ELSE at = "dropping"
  <2>1. CASE req' = [req EXCEPT ![r] = Request("upload", "reading", {})]
    <3>1. "upload" \in {"upload", "detach", "remove"} /\ "reading" \in {"reading", "dropping"}
      OBVIOUS
    <3> QED
      BY <2>1, <3>1, Zenon
  <2>2. CASE \E a \in Live : req' = [req EXCEPT ![r] = Request("detach", "dropping", {a})]
    <3>1. PICK a \in Live : req' = [req EXCEPT ![r] = Request("detach", "dropping", {a})]
      BY <2>2
    <3>2. {a} \in SUBSET Live /\ "detach" \in {"upload", "detach", "remove"}
          /\ "dropping" \in {"reading", "dropping"} /\ "detach" # "upload"
      OBVIOUS
    <3> QED
      BY <3>1, <3>2, Zenon
  <2>3. CASE req' = [req EXCEPT ![r] = Request("remove", "dropping", Live)]
    <3>1. Live \in SUBSET Live /\ "remove" \in {"upload", "detach", "remove"}
          /\ "dropping" \in {"reading", "dropping"} /\ "remove" # "upload"
      OBVIOUS
    <3> QED
      BY <2>3, <3>1, Zenon
  <2> QED
    BY <2>1, <2>2, <2>3 DEF Begin
<1> DEFINE x == Request(kind, at, own)
<1>6. /\ x \in Session /\ x.kind = kind /\ x.at = at /\ x.own = own /\ x.todo = own
  BY <1>3, <1>5 DEF Request, Session
<1> HIDE DEF x
<1>7. /\ req'[r] = x /\ \A t \in Req \ {r} : req'[t] = req[t]
      /\ req' \in [Req -> {Idle} \union Session]
  BY <1>2, <1>5, <1>6 DEF x
<1>8. Typed'
  <2>1. overlap' \in BOOLEAN
    BY DEF Begin, IInv, Typed
  <2> QED
    BY <1>1, <1>7, <2>1 DEF IInv, Typed
<1>9. Unused' /\ RowsTrue'
  BY <1>1 DEF IInv, Unused, RowsTrue, Stored, Gone
<1>10. x # Idle /\ (Async(r)' <=> kind = "upload")
  BY <1>6, <1>7, IdleIsNone DEF Async
<1>11. Sane(r)'
  <2>1. own \subseteq 1 .. nextId' - 1 /\ \A a \in own : row'[a] # "none"
    BY <1>1, <1>4
  <2> QED
    BY <1>5, <1>6, <1>7, <1>10, <2>1 DEF Sane
<1>12. \A t \in Req \ {r} : Sane(t)'
  <2>1. nextId \in Nat
    BY IdsAreIds DEF IInv
  <2> QED
    BY <1>1, <1>7, <2>1, OthersStaySane DEF Stored, Gone
<1>13. Apart'
  <2>1. Async(r)' => req'[r].own = {}
    BY <1>5, <1>6, <1>7, <1>10
  <2>2. \A t \in Req \ {r} : (Async(t)' <=> Async(t)) /\ req'[t] = req[t]
    BY <1>7 DEF Async
  <2> QED
    BY <2>1, <2>2 DEF IInv, Apart
<1>14. NothingLeftOver'
  <2>1. \A q \in Req : req[q] # Idle => req'[q] = req[q]
    BY <1>2, <1>7
  <2> QED
    BY <1>1, <2>1, StillOwned DEF Owned, IInv
<1> QED
  BY <1>8, <1>9, <1>11, <1>12, <1>13, <1>14 DEF IInv

\* A request goes on and has nothing left to delete.
LEMMA MoveKeeps ==
    ASSUME IInv, NEW r \in Req, req[r] # Idle, req[r].todo = {},
           NEW at \in {"reading", "closing", "ending"},
           req' = [req EXCEPT ![r].at = at],
           holder' \in Req \union {Nobody},
           UNCHANGED <<home, row, blobs, nextId, archived, dropped, overlap, left, faults>>
    PROVE  IInv'
<1> DEFINE x == [req[r] EXCEPT !.at = at]
<1>1. req[r] \in Session /\ req \in [Req -> {Idle} \union Session]
  BY SessionFacts DEF IInv, Typed
<1>2. /\ x \in Session /\ x.kind = req[r].kind /\ x.own = req[r].own /\ x.todo = {}
  BY <1>1 DEF Session
<1>3. req' = [req EXCEPT ![r] = x]
  OBVIOUS
<1> HIDE DEF x
<1>4. /\ req'[r] = x /\ \A t \in Req \ {r} : req'[t] = req[t]
      /\ req' \in [Req -> {Idle} \union Session]
  BY <1>1, <1>2, <1>3
<1>5. Typed'
  BY <1>4 DEF IInv, Typed
<1>6. Unused' /\ RowsTrue'
  BY DEF IInv, Unused, RowsTrue, Stored, Gone
<1>7. x # Idle /\ (Async(r)' <=> Async(r))
  BY <1>2, <1>4, IdleIsNone DEF Async
<1>8. Sane(r)'
  <2>1. Sane(r)
    BY DEF IInv
  <2> QED
    BY <1>2, <1>4, <1>7, <2>1 DEF Sane, Stored, Gone
<1>9. \A t \in Req \ {r} : Sane(t)'
  <2>1. nextId \in Nat
    BY IdsAreIds DEF IInv
  <2> QED
    BY <1>4, <2>1, OthersStaySane DEF Stored, Gone
<1>10. Apart'
  <2>1. \A t \in Req : Async(t)' => Async(t) /\ req'[t].own = req[t].own
    BY <1>2, <1>4, <1>7 DEF Async
  <2> QED
    BY <2>1 DEF IInv, Apart
<1>11. NothingLeftOver'
  <2>1. \A q \in Req : req[q] # Idle => req'[q] # Idle /\ req'[q].own = req[q].own
    BY <1>2, <1>4, <1>7
  <2> QED
    BY <2>1, StillOwned DEF Owned, IInv
<1> QED
  BY <1>5, <1>6, <1>8, <1>9, <1>10, <1>11 DEF IInv

LEMMA SkipTouchDroppedKeep ==
    ASSUME IInv, NEW r \in Req, Skip(r) \/ Touch(r) \/ Dropped(r)
    PROVE  IInv'
<1>1. req[r] # Idle
  BY DEF Skip, Touch, Dropped, Resumes, Idle
<1>2. req[r].todo = {}
  BY <1>1 DEF IInv, Sane, Skip, Touch, Dropped, Resumes
<1>3. holder' \in Req \union {Nobody}
  BY DEF Skip, Touch, Dropped, IInv, Typed
<1>4. UNCHANGED <<home, row, blobs, nextId, archived, dropped, overlap, left, faults>>
  BY DEF Skip, Touch, Dropped
<1>5. \E at \in {"reading", "closing", "ending"} : req' = [req EXCEPT ![r].at = at]
  BY DEF Skip, Touch, Dropped, To
<1> QED
  BY <1>1, <1>2, <1>3, <1>4, <1>5, MoveKeeps

-----------------------------------------------------------------------------
(* Steps that change blobs or rows.                                        *)

LEMMA PathsDiffer == \A a, b \in Id : Path(a) = Path(b) => a = b
  BY DEF Path

LEMMA StoreKeeps ==
    ASSUME IInv, NEW r \in Req, Store(r)
    PROVE  IInv'
<1> DEFINE x == [req[r] EXCEPT !.at = "touching", !.count = @ + 1,
                               !.own = @ \union {nextId}]
<1>1. /\ req[r].at = "reading" /\ Async(r) /\ req[r] # Idle
      /\ nextId <= MaxId /\ nextId' = nextId + 1
      /\ blobs' = blobs \union {Path(nextId)}
      /\ UNCHANGED <<home, row, archived, holder, dropped, overlap, left, faults>>
  BY IdleIsNone DEF Store, Resumes
<1>2. /\ nextId \in Nat /\ nextId > 0 /\ nextId \in Id /\ MaxId \in Nat
  BY <1>1, IdsAreIds DEF IInv, Id
<1>3. req[r] \in Session /\ req \in [Req -> {Idle} \union Session]
  BY <1>1, SessionFacts DEF IInv, Typed
<1>4. /\ x \in Session /\ x.kind = "upload"
      /\ x.own = req[r].own \union {nextId} /\ x.todo = req[r].todo
  <2>1. /\ req[r].kind = "upload" /\ req[r].count + 1 \in Nat
        /\ req[r].own \union {nextId} \subseteq Id /\ req[r].todo \subseteq Id
    BY <1>1, <1>2, <1>3 DEF Session, Async
  <2> QED
    BY <1>3, <2>1 DEF Session
<1>5. req' = [req EXCEPT ![r] = x]
  BY DEF Store
<1> HIDE DEF x
<1>6. /\ req'[r] = x /\ \A t \in Req \ {r} : req'[t] = req[t]
      /\ req' \in [Req -> {Idle} \union Session]
  BY <1>3, <1>4, <1>5
<1>7. Typed'
  BY <1>1, <1>2, <1>6 DEF IInv, Typed
<1>8. Unused'
  <2>1. 1 .. nextId - 1 \subseteq 1 .. nextId' - 1
    BY <1>1, <1>2
  <2>2. \A a \in Id : a >= nextId' => a >= nextId
    BY <1>1, <1>2 DEF Id
  <2> QED
    BY <1>1, <2>1, <2>2 DEF IInv, Unused
<1>9. row[nextId] = "none" /\ \A a \in 1 .. nextId - 1 : a # nextId /\ a \in Id
  BY <1>2 DEF IInv, Unused, Id
<1>10. \A a \in Id : /\ Stored(a) => Stored(a)'
                     /\ a # nextId /\ Gone(a) => Gone(a)'
  BY <1>1, <1>2, PathsDiffer DEF Stored, Gone, Path
<1>11. RowsTrue'
  BY <1>1, <1>9, <1>10 DEF IInv, RowsTrue
<1>12. x # Idle /\ Async(r)'
  BY <1>4, <1>6, IdleIsNone DEF Async
<1>13. Sane(r)'
  <2>1. /\ req[r].own \subseteq 1 .. nextId - 1 /\ req[r].todo = {}
        /\ \A a \in req[r].own : row[a] = "none" /\ Stored(a)
    BY <1>1 DEF IInv, Sane
  <2>2. x.own \subseteq 1 .. nextId' - 1
    BY <1>1, <1>2, <1>4, <2>1
  <2>3. \A a \in x.own : row'[a] = "none"
    BY <1>1, <1>4, <1>9, <2>1
  <2>4. \A a \in x.own : Stored(a)'
    <3>1. \A a \in req[r].own : Stored(a)'
      BY <1>9, <1>10, <2>1
    <3>2. Path(nextId) \in blobs'
      BY <1>1
    <3> QED
      BY <1>4, <3>1, <3>2 DEF Stored, Path
  <2> QED
    BY <1>4, <1>6, <1>12, <2>1, <2>2, <2>3, <2>4 DEF Sane
<1>14. \A t \in Req \ {r} : Sane(t)'
  <2>1. nextId' \in Nat /\ nextId' >= nextId
    BY <1>1, <1>2
  <2>2. \A a \in 1 .. nextId - 1 : (Stored(a) => Stored(a)') /\ (Gone(a) => Gone(a)')
    BY <1>9, <1>10
  <2> QED
    BY <1>1, <1>6, <2>1, <2>2, OthersStaySane
<1>15. Apart'
  <2>1. \A t \in Req \ {r} : (Async(t)' <=> Async(t)) /\ req'[t] = req[t]
    BY <1>6 DEF Async
  <2>2. \A t \in Req : Async(t) => nextId \notin req[t].own
    BY <1>9, IdleIsNone DEF IInv, Sane
  <2>3. \A t \in Req \ {r} : Async(t) => req[t].own \cap x.own = {}
    BY <1>1, <1>4, <2>2 DEF IInv, Apart
  <2> QED
    BY <1>6, <2>1, <2>3 DEF IInv, Apart
<1>16. NothingLeftOver'
  <2>1. \A q \in Req : req[q] # Idle => req'[q] # Idle /\ req[q].own \subseteq req'[q].own
    BY <1>4, <1>6, <1>12
  <2>2. \A a \in Id : Owned(a) => Owned(a)'
    BY <1>1, <2>1 DEF Owned
  <2>3. \A p \in blobs' \ blobs : p = Path(nextId)
    BY <1>1
  <2>4. \E q \in Req : req'[q] # Idle /\ nextId \in req'[q].own
    BY <1>4, <1>6, <1>12
  <2>5. \A p \in blobs' \ blobs : \E a \in Id : p = Path(a) /\ Owned(a)'
    BY <1>2, <2>3, <2>4 DEF Owned
  <2> QED
    BY <2>2, <2>5, StillOwned DEF IInv
<1> QED
  BY <1>7, <1>8, <1>11, <1>13, <1>14, <1>15, <1>16 DEF IInv

LEMMA DropKeeps ==
    ASSUME IInv, NEW r \in Req, Drop(r)
    PROVE  IInv'
<1>1. PICK a \in req[r].todo :
        /\ req' = [req EXCEPT ![r].todo = @ \ {a}]
        /\ \/ /\ blobs' = blobs \ {Path(a)} /\ dropped' = dropped \union {a}
              /\ UNCHANGED <<left, faults>>
           \/ /\ Fault /\ left' = left \union {a}
              /\ UNCHANGED <<blobs, dropped>>
  BY DEF Drop, BlobDropped
<1>2. /\ req[r].at = "dropping" /\ req[r] # Idle
      /\ UNCHANGED <<home, row, nextId, archived, holder, overlap>>
  BY IdleIsNone DEF Drop
<1> DEFINE x == [req[r] EXCEPT !.todo = @ \ {a}]
<1>3. /\ req[r] \in Session /\ req \in [Req -> {Idle} \union Session]
      /\ Sane(r) /\ a \in req[r].own /\ a \in Id /\ a \in 1 .. nextId - 1
  BY <1>2, SessionFacts DEF IInv, Typed, Sane
<1>4. ~Async(r)
  BY <1>1, <1>2, <1>3 DEF Sane
<1>5. /\ x \in Session /\ x.kind = req[r].kind /\ x.at = "dropping"
      /\ x.own = req[r].own /\ x.todo = req[r].todo \ {a}
  BY <1>2, <1>3 DEF Session
<1>6. req' = [req EXCEPT ![r] = x]
  BY <1>1
<1> HIDE DEF x
<1>7. /\ req'[r] = x /\ \A t \in Req \ {r} : req'[t] = req[t]
      /\ req' \in [Req -> {Idle} \union Session]
  BY <1>3, <1>5, <1>6
<1>8. Typed'
  <2>1. faults' \in 0 .. MaxFaults
    BY <1>1, UploadsAssumption DEF Fault, IInv, Typed
  <2> QED
    BY <1>2, <1>7, <2>1 DEF IInv, Typed
<1>9. Unused'
  BY <1>1, <1>2, <1>3 DEF IInv, Unused
<1>10. \A b \in Id : (Stored(b) => Stored(b)') /\ (Gone(b) => Gone(b)')
  BY <1>1, <1>3, PathsDiffer DEF Stored, Gone
<1>11. \A b \in Id : b = a => Gone(b)'
  BY <1>1 DEF Gone, Path
<1>12. RowsTrue'
  BY <1>2, <1>10 DEF IInv, RowsTrue
<1>13. x # Idle /\ ~Async(r)'
  BY <1>4, <1>5, <1>7, IdleIsNone DEF Async
<1>14. Sane(r)'
  <2>1. /\ req[r].own \subseteq 1 .. nextId - 1 /\ req[r].todo \subseteq req[r].own
        /\ \A b \in req[r].own : row[b] # "none"
        /\ \A b \in req[r].own \ req[r].todo : Gone(b)
    BY <1>2, <1>3, <1>4 DEF Sane
  <2>2. req[r].own \subseteq Id
    BY <1>3 DEF Session
  <2>3. \A b \in x.own \ x.todo : Gone(b)'
    BY <1>5, <1>10, <1>11, <2>1, <2>2
  <2> QED
    BY <1>2, <1>5, <1>7, <1>13, <2>1, <2>3 DEF Sane
<1>15. \A t \in Req \ {r} : Sane(t)'
  <2>1. nextId \in Nat /\ 1 .. nextId - 1 \subseteq Id
    BY IdsAreIds DEF IInv
  <2> QED
    BY <1>2, <1>7, <1>10, <2>1, OthersStaySane
<1>16. Apart'
  <2>1. \A t \in Req : Async(t)' => t # r /\ Async(t) /\ req'[t] = req[t]
    BY <1>7, <1>13 DEF Async
  <2> QED
    BY <2>1 DEF IInv, Apart
<1>17. NothingLeftOver'
  <2>1. \A q \in Req : req[q] # Idle => req'[q] # Idle /\ req'[q].own = req[q].own
    BY <1>5, <1>7, <1>13
  <2>2. blobs' \subseteq blobs /\ left \subseteq left'
    BY <1>1
  <2>3. \A b \in Id : Owned(b) => Owned(b)'
    BY <1>2, <2>1, <2>2 DEF Owned
  <2> QED
    BY <2>2, <2>3, StillOwned DEF IInv
<1> QED
  BY <1>8, <1>9, <1>12, <1>14, <1>15, <1>16, <1>17 DEF IInv

LEMMA CommitKeeps ==
    ASSUME IInv, NEW r \in Req, Commit(r)
    PROVE  IInv'
<1>1. /\ req[r].at = "ending" /\ req[r] # Idle
      /\ row' = Written(r)
      /\ archived' = (archived \/ req[r].kind = "remove")
      /\ holder' \in {Nobody, holder}
      /\ req' = [req EXCEPT ![r] = Idle]
      /\ UNCHANGED <<home, blobs, nextId, dropped, overlap, left, faults>>
  BY IdleIsNone DEF Commit, Unlocked
<1>2. /\ req[r] \in Session /\ req \in [Req -> {Idle} \union Session]
      /\ Sane(r) /\ req[r].own \subseteq Id
  BY <1>1, SessionFacts DEF IInv, Typed
<1>3. /\ req'[r] = Idle /\ \A t \in Req \ {r} : req'[t] = req[t]
      /\ req' \in [Req -> {Idle} \union Session]
  BY <1>1, <1>2
<1>4. /\ row' \in [Id -> {"none", "live", "deleted"}]
      /\ \A a \in Id : row'[a] = IF a \in req[r].own
                                 THEN IF Async(r) THEN "live" ELSE "deleted"
                                 ELSE row[a]
  BY <1>1 DEF Written, IInv, Typed
<1>5. /\ req[r].own \subseteq 1 .. nextId - 1
      /\ Async(r) => \A a \in req[r].own : row[a] = "none" /\ Stored(a)
      /\ ~Async(r) => \A a \in req[r].own : row[a] # "none" /\ Gone(a)
  BY <1>1, <1>2 DEF Sane
<1>6. Typed'
  BY <1>1, <1>3, <1>4 DEF IInv, Typed
<1>7. Unused'
  BY <1>1, <1>4, <1>5, IdsAreIds DEF IInv, Unused
<1>8. \A a \in Id : (Stored(a)' <=> Stored(a)) /\ (Gone(a)' <=> Gone(a))
  BY <1>1 DEF Stored, Gone, Path
<1>9. RowsTrue'
  BY <1>4, <1>5, <1>8 DEF IInv, RowsTrue
<1>10. Sane(r)'
  BY <1>3 DEF Sane
<1>11. ASSUME NEW t \in Req \ {r} PROVE Sane(t)'
  <2>1. nextId' \in Nat /\ nextId' >= nextId /\ 1 .. nextId - 1 \subseteq Id
    BY <1>1, IdsAreIds DEF IInv
  <2>2. \A a \in Id : row[a] # "none" => row'[a] # "none"
    BY <1>4
  <2>3. ASSUME Async(t) PROVE \A a \in req[t].own : row'[a] = row[a]
    <3>1. req[t].own \subseteq Id /\ \A a \in req[t].own : row[a] = "none"
      BY <2>3, SessionFacts, IdleIsNone DEF IInv, Sane
    <3>2. req[t].own \cap req[r].own = {}
      <4>1. CASE Async(r)
        BY <2>3, <4>1 DEF IInv, Apart
      <4>2. CASE ~Async(r)
        BY <1>5, <3>1, <4>2
      <4> QED
        BY <4>1, <4>2
    <3> QED
      BY <1>4, <3>1, <3>2
  <2> QED
    BY <1>3, <1>8, <2>1, <2>2, <2>3, OthersStaySane
<1>12. Apart'
  <2>1. \A t \in Req : Async(t)' => Async(t) /\ req'[t] = req[t]
    BY <1>3, IdleIsNone DEF Async
  <2> QED
    BY <2>1 DEF IInv, Apart
<1>13. NothingLeftOver'
  <2>1. ASSUME NEW a \in Id, Path(a) \in blobs, Owned(a) PROVE Owned(a)'
    <3>1. CASE a \in req[r].own
      BY <1>1, <1>4, <1>5, <2>1, <3>1 DEF Owned, Gone
    <3>2. CASE a \notin req[r].own
      <4>1. row'[a] = row[a]
        BY <1>4, <3>2
      <4>2. \A q \in Req : req[q] # Idle /\ a \in req[q].own => req'[q] = req[q]
        BY <1>3, <3>2
      <4> QED
        BY <1>1, <2>1, <4>1, <4>2 DEF Owned
    <3> QED
      BY <3>1, <3>2
  <2> QED
    BY <1>1, <2>1, StillOwned DEF IInv
<1> QED
  BY <1>6, <1>7, <1>9, <1>10, <1>11, <1>12, <1>13 DEF IInv

\* However many requests end at once.
LEMMA EndedKeeps ==
    ASSUME IInv, NEW rs \in SUBSET Req, Ended(rs), faults' \in 0 .. MaxFaults
    PROVE  IInv'
<1>1. /\ UNCHANGED <<home, row, blobs, nextId, archived, dropped, overlap>>
      /\ holder' \in {Nobody, holder}
      /\ left' = left \union UNION {req[r].own : r \in {x \in rs : Async(x)}}
      /\ req' = [r \in Req |-> IF r \in rs THEN Idle ELSE req[r]]
  BY DEF Ended, Unlocked
<1>2. /\ \A r \in rs : req'[r] = Idle
      /\ \A r \in Req \ rs : req'[r] = req[r]
      /\ req' \in [Req -> {Idle} \union Session]
  BY <1>1 DEF IInv, Typed
<1>3. Typed'
  BY <1>1, <1>2 DEF IInv, Typed
<1>4. left \subseteq left' /\ \A r \in rs : Async(r) => req[r].own \subseteq left'
  BY <1>1
<1>5. Unused'
  <2>1. \A r \in rs : Async(r) => req[r].own \subseteq 1 .. nextId - 1
    BY IdleIsNone DEF IInv, Sane
  <2> QED
    BY <1>1, <2>1 DEF IInv, Unused
<1>6. \A a \in Id : (Stored(a) => Stored(a)') /\ (Gone(a) => Gone(a)')
  BY <1>1, <1>4 DEF Stored, Gone, Path
<1>7. RowsTrue'
  BY <1>1, <1>6 DEF IInv, RowsTrue
<1>8. ASSUME NEW t \in Req PROVE Sane(t)'
  <2>1. CASE t \in rs
    BY <1>2, <2>1 DEF Sane
  <2>2. CASE t \notin rs
    <3>1. nextId' \in Nat /\ nextId' >= nextId /\ 1 .. nextId - 1 \subseteq Id
      BY <1>1, IdsAreIds DEF IInv
    <3> QED
      BY <1>1, <1>2, <1>6, <2>2, <3>1, OthersStaySane
  <2> QED
    BY <2>1, <2>2
<1>9. Apart'
  <2>1. \A t \in Req : Async(t)' => Async(t) /\ req'[t] = req[t]
    BY <1>2, IdleIsNone DEF Async
  <2> QED
    BY <2>1 DEF IInv, Apart
<1>10. NothingLeftOver'
  <2>1. ASSUME NEW a \in Id, Path(a) \in blobs, Owned(a) PROVE Owned(a)'
    <3>1. CASE row[a] = "live" \/ a \in left
      BY <1>1, <1>4, <3>1 DEF Owned
    <3>2. CASE \E q \in Req : req[q] # Idle /\ a \in req[q].own
      <4>1. PICK q \in Req : req[q] # Idle /\ a \in req[q].own
        BY <3>2
      <4>2. CASE q \notin rs
        BY <1>2, <4>1, <4>2 DEF Owned
      <4>3. CASE q \in rs /\ Async(q)
        BY <1>4, <4>1, <4>3 DEF Owned
      <4>4. CASE ~Async(q)
        <5>1. row[a] # "none"
          BY <4>1, <4>4 DEF IInv, Sane
        <5>2. row[a] = "live" \/ row[a] = "deleted"
          BY <5>1 DEF IInv, Typed
        <5> QED
          BY <1>1, <1>4, <2>1, <5>2 DEF IInv, RowsTrue, Gone, Owned
      <4> QED
        BY <4>2, <4>3, <4>4
    <3> QED
      BY <2>1, <3>1, <3>2 DEF Owned
  <2> QED
    BY <1>1, <2>1, StillOwned DEF IInv
<1> QED
  BY <1>3, <1>5, <1>7, <1>8, <1>9, <1>10 DEF IInv

LEMMA FailCrashKillKeep ==
    ASSUME IInv, (\E r \in Req : Fail(r)) \/ (\E w \in Worker : Crash(w) \/ Kill(w))
    PROVE  IInv'
<1>1. \E rs \in SUBSET Req : Ended(rs)
  <2>1. ASSUME NEW r \in Req, Fail(r) PROVE \E rs \in SUBSET Req : Ended(rs)
    <3>1. {r} \in SUBSET Req /\ Ended({r})
      BY <2>1 DEF Fail
    <3> QED
      BY <3>1
  <2>2. ASSUME NEW w \in Worker, Crash(w) \/ Kill(w) PROVE \E rs \in SUBSET Req : Ended(rs)
    <3>1. Running(w) \in SUBSET Req /\ Ended(Running(w))
      BY <2>2 DEF Crash, Kill, Running
    <3> QED
      BY <3>1
  <2> QED
    BY <2>1, <2>2
<1>2. faults' \in 0 .. MaxFaults
  <2>1. Fault \/ UNCHANGED faults
    BY DEF Fail, Crash, Kill
  <2>2. faults \in 0 .. MaxFaults /\ MaxFaults \in Nat
    BY UploadsAssumption DEF IInv, Typed
  <2> QED
    BY <2>1, <2>2 DEF Fault
<1> QED
  BY <1>1, <1>2, EndedKeeps

-----------------------------------------------------------------------------
(* The invariant and what it gives.                                        *)

LEMMA InitIInv == Init => IInv
<1> SUFFICES ASSUME Init PROVE IInv
  OBVIOUS
<1>1. Typed /\ Unused
  <2>1. 1 \in 1 .. MaxId + 1 /\ 0 \in 0 .. MaxFaults
    BY UploadsAssumption
  <2>2. Typed
    BY <2>1 DEF Init, Typed
  <2> QED
    BY <2>2 DEF Init, Unused
<1>2. Apart /\ \A r \in Req : Sane(r)
  BY IdleIsNone DEF Init, Apart, Sane, Async
<1>3. RowsTrue /\ NothingLeftOver
  BY DEF Init, RowsTrue, NothingLeftOver
<1> QED
  BY <1>1, <1>2, <1>3 DEF IInv

LEMMA NextIInv == IInv /\ [Next]_vars => IInv'
<1> SUFFICES ASSUME IInv, [Next]_vars PROVE IInv'
  OBVIOUS
<1>1. CASE Next
  BY <1>1, BeginKeeps, StoreKeeps, SkipTouchDroppedKeep, DropKeeps, CommitKeeps, FailCrashKillKeep
     DEF Next, Step
<1>2. CASE UNCHANGED vars
  BY <1>2 DEF vars, IInv, Typed, Unused, Apart, RowsTrue, NothingLeftOver, Sane, Async,
              Stored, Gone, Live, Path
<1> QED
  BY <1>1, <1>2

LEMMA Invariance == Spec => []IInv
  BY InitIInv, NextIInv, PTL DEF Spec

\* Rows, blobs, requests and history stay within their types.
THEOREM TypeCorrect == Spec => []TypeOK
<1>1. IInv => TypeOK
  BY IdleIsNone DEF IInv, Typed, Session, Unused, Sane, TypeOK
<1> QED
  BY <1>1, Invariance, PTL

\* No upload, failure or restart, and no deletion of another attachment, takes
\* the file of a live attachment from the store.
THEOREM FilesAlwaysKept == Spec => []FilesKept
<1>1. IInv => FilesKept
  BY DEF IInv, RowsTrue, Stored, Live, FilesKept
<1> QED
  BY <1>1, Invariance, PTL

\* Every blob belongs to a live attachment or an upload under way, or was left by
\* an upload that failed or a store that kept it.
THEOREM NeverLeftOver == Spec => []NothingLeftOver
<1>1. IInv => NothingLeftOver
  BY DEF IInv
<1> QED
  BY <1>1, Invariance, PTL

-----------------------------------------------------------------------------
(* The limit. While no two uploads have overlapped, the list an upload       *)
(* counts on is at least as long as what it will leave.                     *)

Within ==
    ~overlap =>
        /\ Cardinality(Live) <= Max
        /\ \A r \in Req : Async(r) =>
             /\ Cardinality(Live) + Cardinality(req[r].own) <= req[r].count
             /\ req[r].own # {} => req[r].count <= Max
        /\ \A r, q \in Req : Async(r) /\ Async(q) => r = q

LEMMA FiniteIds ==
    ASSUME NEW S \in SUBSET Id
    PROVE  IsFiniteSet(S) /\ Cardinality(S) \in Nat
<1>1. IsFiniteSet(Id)
  BY FS_Interval, UploadsAssumption DEF Id
<1> QED
  BY <1>1, FS_Subset, FS_CardinalityType

\* Where attachments only go and uploads only end, nothing can break it.
LEMMA WithinStays ==
    ASSUME IInv, Within, UNCHANGED overlap, Live' \subseteq Live,
           \A r \in Req : Async(r)' => /\ Async(r)
                                       /\ req'[r].own = req[r].own
                                       /\ req'[r].count = req[r].count
    PROVE  Within'
<1> SUFFICES ASSUME ~overlap PROVE Within'
  BY DEF Within
<1> DEFINE live == Live
           live1 == Live'
<1>1. /\ IsFiniteSet(live) /\ Cardinality(live) \in Nat /\ Cardinality(live1) \in Nat
      /\ Cardinality(live1) <= Cardinality(live)
  <2>1. live \in SUBSET Id /\ live1 \in SUBSET live
    BY DEF Live
  <2> HIDE DEF live, live1
  <2>2. live1 \in SUBSET Id
    BY <2>1
  <2> QED
    BY <2>1, <2>2, FiniteIds, FS_Subset
<1>2. ASSUME NEW r \in Req, Async(r)'
      PROVE  /\ Cardinality(live1) + Cardinality(req'[r].own) <= req'[r].count
             /\ req'[r].own # {} => req'[r].count <= Max
  <2>1. /\ Async(r) /\ req'[r].own = req[r].own /\ req'[r].count = req[r].count
        /\ Cardinality(live) + Cardinality(req[r].own) <= req[r].count
        /\ req[r].own # {} => req[r].count <= Max
    BY <1>2 DEF Within
  <2>2. /\ req[r].own \subseteq Id /\ req[r].count \in Nat
    BY <2>1, SessionFacts, IdleIsNone DEF Session
  <2>3. Cardinality(req[r].own) \in Nat
    BY <2>2, FiniteIds
  <2> HIDE DEF live, live1
  <2> QED
    BY <1>1, <2>1, <2>2, <2>3
<1>3. Cardinality(live) <= Max /\ Max \in Nat
  BY UploadsAssumption DEF Within
<1>4. Cardinality(live1) <= Max
  <2> HIDE DEF live, live1
  <2> QED
    BY <1>1, <1>3
<1> QED
  BY <1>2, <1>4 DEF Within

LEMMA WithinAfterBegin ==
    ASSUME IInv, Within, NEW r \in Req, Begin(r)
    PROVE  Within'
<1>1. req[r] = Idle /\ req \in [Req -> {Idle} \union Session] /\ UNCHANGED row
  BY DEF Begin, IInv, Typed
<1>2. Live' = Live
  BY <1>1 DEF Live
<1>3. CASE /\ req' = [req EXCEPT ![r] = Request("upload", "reading", {})]
           /\ overlap' = (overlap \/ \E x \in Req : Async(x))
  <2> SUFFICES ASSUME ~overlap, \A q \in Req : ~Async(q) PROVE Within'
    BY <1>3 DEF Within
  <2>1. \A q \in Req \ {r} : ~Async(q)'
    BY <1>1, <1>3 DEF Async
  <2>2. req'[r] = Request("upload", "reading", {})
    BY <1>1, <1>3
  <2>3. req'[r].own = {} /\ req'[r].count = Cardinality(Live)
    BY <2>2 DEF Request
  <2>4. Cardinality(Live) \in Nat /\ Cardinality({}) = 0
    <3>1. Live \in SUBSET Id
      BY DEF Live
    <3> QED
      BY <3>1, FiniteIds, FS_EmptySet
  <2>5. Cardinality(Live') + Cardinality(req'[r].own) <= req'[r].count
    BY <1>2, <2>3, <2>4
  <2>6. Cardinality(Live') <= Max
    BY <1>2 DEF Within
  <2> QED
    BY <2>1, <2>3, <2>5, <2>6 DEF Within
<1>4. ASSUME NEW kind \in {"detach", "remove"}, NEW own,
             req' = [req EXCEPT ![r] = Request(kind, "dropping", own)], UNCHANGED overlap
      PROVE  Within'
  <2>1. \A q \in Req : Async(q)' => Async(q) /\ req'[q] = req[q]
    BY <1>1, <1>4 DEF Async, Request
  <2> QED
    BY <1>2, <1>4, <2>1, WithinStays
<1>5. \/ /\ req' = [req EXCEPT ![r] = Request("upload", "reading", {})]
         /\ overlap' = (overlap \/ \E x \in Req : Async(x))
      \/ /\ \E a \in Live : req' = [req EXCEPT ![r] = Request("detach", "dropping", {a})]
         /\ UNCHANGED overlap
      \/ /\ req' = [req EXCEPT ![r] = Request("remove", "dropping", Live)]
         /\ UNCHANGED overlap
  BY DEF Begin
<1> QED
  BY <1>3, <1>4, <1>5

LEMMA WithinAfterStore ==
    ASSUME IInv, Within, NEW r \in Req, Store(r)
    PROVE  Within'
<1>1. /\ Async(r) /\ req[r] # Idle /\ req[r].count < Max
      /\ UNCHANGED <<row, overlap>>
      /\ req' = [req EXCEPT ![r].at = "touching", ![r].count = @ + 1,
                            ![r].own = @ \union {nextId}]
  BY IdleIsNone DEF Store, Resumes, Room
<1> SUFFICES ASSUME ~overlap PROVE Within'
  BY <1>1 DEF Within
<1>2. /\ req[r] \in Session /\ req \in [Req -> {Idle} \union Session]
      /\ req[r].own \subseteq Id /\ req[r].count \in Nat /\ Max \in Nat
  BY <1>1, SessionFacts, UploadsAssumption DEF IInv, Typed, Session
<1>3. /\ req'[r].own = req[r].own \union {nextId} /\ req'[r].count = req[r].count + 1
      /\ \A q \in Req \ {r} : req'[q] = req[q]
  BY <1>1, <1>2 DEF Session
<1>4. Live' = Live
  BY <1>1 DEF Live
<1>5. \A q \in Req : Async(q)' => q = r
  BY <1>1, <1>3 DEF Within, Async
<1>6. Cardinality(Live) + Cardinality(req[r].own) <= req[r].count /\ Cardinality(Live) <= Max
  BY <1>1 DEF Within
<1>7. /\ Cardinality(Live) \in Nat /\ Cardinality(req[r].own) \in Nat
      /\ Cardinality(req'[r].own) \in {Cardinality(req[r].own), Cardinality(req[r].own) + 1}
  <2>1. Live \in SUBSET Id
    BY DEF Live
  <2>2. IsFiniteSet(req[r].own) /\ Cardinality(req[r].own) \in Nat /\ Cardinality(Live) \in Nat
    BY <1>2, <2>1, FiniteIds
  <2> QED
    BY <1>3, <2>2, FS_AddElement
<1>8. /\ Cardinality(Live') + Cardinality(req'[r].own) <= req'[r].count
      /\ req'[r].count <= Max
  BY <1>1, <1>2, <1>3, <1>4, <1>6, <1>7
<1> QED
  BY <1>4, <1>5, <1>6, <1>8 DEF Within

LEMMA WithinAfterCommit ==
    ASSUME IInv, Within, NEW r \in Req, Commit(r)
    PROVE  Within'
<1>1. /\ req[r] # Idle /\ row' = Written(r) /\ UNCHANGED overlap
      /\ req' = [req EXCEPT ![r] = Idle]
  BY IdleIsNone DEF Commit
<1>2. req[r].own \subseteq Id /\ req \in [Req -> {Idle} \union Session] /\ req[r] \in Session
  BY <1>1, SessionFacts DEF IInv, Typed
<1>3. \A q \in Req : Async(q)' => q # r /\ Async(q) /\ req'[q] = req[q]
  BY <1>1, <1>2 DEF Async, Idle
<1>4. CASE ~Async(r)
  <2>1. Live' \subseteq Live
    BY <1>1, <1>4 DEF Live, Written
  <2> QED
    BY <1>1, <1>3, <2>1, WithinStays
<1>5. CASE Async(r)
  <2> SUFFICES ASSUME ~overlap PROVE Within'
    BY <1>1 DEF Within
  <2>1. \A q \in Req : ~Async(q)'
    BY <1>3, <1>5 DEF Within
  <2>2. Live' = Live \union req[r].own
    BY <1>1, <1>2, <1>5 DEF Live, Written
  <2>3. /\ IsFiniteSet(Live) /\ Cardinality(Live) \in Nat
        /\ IsFiniteSet(req[r].own) /\ Cardinality(req[r].own) \in Nat
        /\ Cardinality(Live \cap req[r].own) \in Nat
    <3>1. Live \in SUBSET Id /\ Live \cap req[r].own \in SUBSET Id
      BY DEF Live
    <3> QED
      BY <1>2, <3>1, FiniteIds
  <2>4. Cardinality(Live') =
          Cardinality(Live) + Cardinality(req[r].own) - Cardinality(Live \cap req[r].own)
    BY <2>2, <2>3, FS_Union
  <2>5. /\ Cardinality(Live) <= Max /\ req[r].count \in Nat /\ Max \in Nat
        /\ Cardinality(Live) + Cardinality(req[r].own) <= req[r].count
        /\ req[r].own # {} => req[r].count <= Max
    BY <1>2, <1>5, UploadsAssumption DEF Within, Session
  <2>6. Cardinality(Live') <= Max
    <3>1. CASE req[r].own = {}
      BY <2>2, <2>5, <3>1
    <3>2. CASE req[r].own # {}
      BY <2>3, <2>4, <2>5, <3>2
    <3> QED
      BY <3>1, <3>2
  <2> QED
    BY <2>1, <2>6 DEF Within
<1> QED
  BY <1>4, <1>5

LEMMA WithinAfterOthers ==
    ASSUME IInv, Within,
           \/ \E r \in Req : Skip(r) \/ Touch(r) \/ Drop(r) \/ Dropped(r) \/ Fail(r)
           \/ \E w \in Worker : Crash(w) \/ Kill(w)
           \/ UNCHANGED vars
    PROVE  Within'
<1>1. UNCHANGED <<row, overlap>>
  BY DEF Skip, Touch, Drop, Dropped, Fail, Crash, Kill, Ended, vars
<1>2. Live' = Live
  BY <1>1 DEF Live
<1>3. req \in [Req -> {Idle} \union Session]
  BY DEF IInv, Typed
<1>4. ASSUME NEW q \in Req, Async(q)'
      PROVE  Async(q) /\ req'[q].own = req[q].own /\ req'[q].count = req[q].count
  <2>1. CASE \E r \in Req : Skip(r) \/ Touch(r) \/ Dropped(r)
    <3>1. PICK r \in Req, at \in {"reading", "closing", "ending"} :
            req[r] # Idle /\ req' = [req EXCEPT ![r].at = at]
      BY <2>1 DEF Skip, Touch, Dropped, Resumes, To, Idle
    <3> QED
      BY <1>3, <1>4, <3>1 DEF Async, Session
  <2>2. CASE \E r \in Req : Drop(r)
    <3>1. PICK r \in Req : Drop(r)
      BY <2>2
    <3>2. PICK a \in req[r].todo : req' = [req EXCEPT ![r].todo = @ \ {a}]
      BY <3>1 DEF Drop
    <3> QED
      BY <1>3, <1>4, <3>1, <3>2 DEF Async, Session
  <2>3. CASE (\E r \in Req : Fail(r)) \/ (\E w \in Worker : Crash(w) \/ Kill(w))
    <3>1. \E rs : req' = [r \in Req |-> IF r \in rs THEN Idle ELSE req[r]]
      BY <2>3 DEF Fail, Crash, Kill, Ended
    <3> QED
      BY <1>4, <3>1 DEF Async, Idle
  <2>4. CASE UNCHANGED vars
    BY <1>4, <2>4 DEF vars, Async
  <2> QED
    BY <2>1, <2>2, <2>3, <2>4
<1> QED
  BY <1>1, <1>2, <1>4, WithinStays

\* One upload after the other, whatever is deleted and fails in between, a
\* submission never has more attachments than the limit.
THEOREM LimitKept == Spec => []LimitUnlessOverlap
<1>1. Init => Within
  <2> SUFFICES ASSUME Init PROVE Within
    OBVIOUS
  <2>1. Live = {} /\ \A r \in Req : ~Async(r)
    BY DEF Init, Live, Async, Idle
  <2>2. Cardinality({}) = 0 /\ Max \in Nat
    BY FS_EmptySet, UploadsAssumption
  <2> QED
    BY <2>1, <2>2 DEF Within
<1>2. IInv /\ Within /\ [Next]_vars => Within'
  BY WithinAfterBegin, WithinAfterStore, WithinAfterCommit, WithinAfterOthers DEF Next, Step
<1>3. Within => LimitUnlessOverlap
  <2>1. Cardinality(Live) \in Nat /\ Max \in Nat
    BY FiniteIds, UploadsAssumption DEF Live
  <2> QED
    BY <2>1 DEF Within, LimitUnlessOverlap
<1> QED
  BY <1>1, <1>2, <1>3, Invariance, PTL DEF Spec
=============================================================================
