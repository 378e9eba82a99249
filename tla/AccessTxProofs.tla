--------------------------- MODULE AccessTxProofs ---------------------------
(***************************************************************************)
(* What counters and row locks keep in order, and who keeps the admin role,  *)
(* for any number of people, networks, overlapping requests and windows.    *)
(***************************************************************************)
EXTENDS AccessTx, FiniteSetTheorems, TLAPS

Known == {"none", "active", "disabled"}

Busy ==
    [kind: {"login", "verify", "grant", "revoke", "toggle"},
     at: {"network", "address", "using", "saving", "refusing", "writing"},
     user: User, net: Net, window: 0 .. MaxWindow,
     known: Known, count: Nat, hits: SUBSET (Bucket \X Nat),
     ids: SUBSET Nat, by: User, saved: BOOLEAN, grants: BOOLEAN]

AdminType   == [user: User, by: {"bootstrap", "grant"}, active: BOOLEAN]
TokenType   == [user: User, used: BOOLEAN, window: 0 .. MaxWindow]
SessionType == [user: User, link: Nat, net: Net, window: 0 .. MaxWindow,
                late: BOOLEAN, revoked: BOOLEAN]

\* TypeOK without the requests.
Tables ==
    /\ window \in 0 .. MaxWindow /\ begun \in 0 .. MaxRequests /\ stale \in BOOLEAN
    /\ counters \in [Bucket -> Seq(Nat \ {0})]
    /\ account \in [User -> Known]
    /\ admins \in Seq(AdminType) /\ tokens \in Seq(TokenType)
    /\ sessions \in Seq(SessionType)
    /\ \A i \in DOMAIN admins : account[admins[i].user] # "none"
    /\ \A i \in DOMAIN sessions :
         /\ account[sessions[i].user] # "none"
         /\ sessions[i].link \in {0} \union DOMAIN tokens

IpKey(x)   == <<IF x.kind = "login" THEN "login_ip" ELSE "verify_ip", x.net, x.window>>
MailKey(x) == <<"login_email", x.user, x.window>>

\* Where a request of each kind can be, and what it has counted by then.
AtFine(x) ==
    /\ x.at = "network" => x.kind \in {"login", "verify"}
    /\ x.at = "address" => x.kind = "login"
    /\ x.at = "using" => x.kind = "verify"
    /\ x.at = "refusing" => x.kind \in {"login", "verify"}
    /\ x.at = "saving" => x.kind \in {"verify", "grant"}

HitsFine(x) ==
    /\ x.at = "network" => x.hits = {}
    /\ x.kind = "login" /\ x.at = "address" => \A h \in x.hits : h[1] = IpKey(x)
    /\ x.kind = "login" /\ x.at = "writing" => <<MailKey(x), x.count>> \in x.hits
    /\ x.kind = "verify" /\ x.at # "network" => x.hits = {<<IpKey(x), x.count>>}
    /\ x.kind \in {"grant", "revoke", "toggle"} => x.hits = {}
    /\ \A g, h \in x.hits : g[1] = h[1] => g = h

\* What it has read is still there.
ReadFine(x) ==
    /\ \A h \in x.hits : h[2] > 0 => Len(counters[h[1]]) > 0
    /\ x.at \in {"network", "address"} /\ x.count > 0 => Len(counters[BucketOf(x)]) > 0
    /\ x.known # "none" => account[x.user] # "none"
    /\ x.kind = "verify" => x.ids \subseteq DOMAIN tokens
    /\ x.kind = "verify" /\ x.at \in {"using", "saving", "writing"} => x.ids # {}

Fine(r) == Running(r) => AtFine(req[r]) /\ HitsFine(req[r]) /\ ReadFine(req[r])

\* No two requests have found, and count on, the same counter.
Exclusive ==
    \A r, q \in Req :
        r # q /\ Running(r) /\ Running(q) =>
            \A g \in req[r].hits, h \in req[q].hits : g[1] = h[1] => g[2] = 0 \/ h[2] = 0

IInv == /\ Tables /\ req \in [Req -> {Idle} \union Busy]
        /\ \A r \in Req : Fine(r)
        /\ Exclusive

-----------------------------------------------------------------------------
(* Sequences and keys.                                                     *)

LEMMA FunctionIsSeq ==
    ASSUME NEW S, NEW n \in Nat, NEW f \in [1 .. n -> S]
    PROVE  f \in Seq(S) /\ Len(f) = n /\ DOMAIN f = 1 .. n
  OBVIOUS

LEMMA Mapped ==
    ASSUME NEW S, NEW T, NEW q \in Seq(S), NEW f \in [DOMAIN q -> T]
    PROVE  f \in Seq(T) /\ Len(f) = Len(q) /\ DOMAIN f = DOMAIN q
<1>1. Len(q) \in Nat /\ DOMAIN q = 1 .. Len(q)
  OBVIOUS
<1> QED
  BY <1>1, FunctionIsSeq

LEMMA Appended ==
    ASSUME NEW S, NEW q \in Seq(S), NEW x \in S
    PROVE  /\ Append(q, x) \in Seq(S)
           /\ Len(q) \in Nat /\ Len(Append(q, x)) = Len(q) + 1
           /\ DOMAIN q = 1 .. Len(q) /\ DOMAIN Append(q, x) = 1 .. Len(q) + 1
           /\ DOMAIN q \subseteq DOMAIN Append(q, x)
           /\ \A i \in DOMAIN q : Append(q, x)[i] = q[i]
           /\ Append(q, x)[Len(q) + 1] = x
           /\ \A i \in DOMAIN Append(q, x) : i \in DOMAIN q \/ i = Len(q) + 1
<1>1. /\ Append(q, x) \in Seq(S)
      /\ Len(q) \in Nat /\ Len(Append(q, x)) = Len(q) + 1
      /\ DOMAIN q = 1 .. Len(q) /\ DOMAIN Append(q, x) = 1 .. Len(q) + 1
  OBVIOUS
<1>2. /\ \A i \in 1 .. Len(q) : Append(q, x)[i] = q[i]
      /\ Append(q, x)[Len(q) + 1] = x
  OBVIOUS
<1>3. /\ 1 .. Len(q) \subseteq 1 .. Len(q) + 1
      /\ \A i \in 1 .. Len(q) + 1 : i \in 1 .. Len(q) \/ i = Len(q) + 1
  BY <1>1
<1> QED
  BY <1>1, <1>2, <1>3

LEMMA IdleIsNone == Idle \notin Busy /\ \A x \in Busy : x # Idle
  BY DEF Idle, Busy

LEMMA KeyFacts ==
    ASSUME NEW x \in Busy
    PROVE  /\ IpKey(x) \in Bucket /\ MailKey(x) \in Bucket /\ IpKey(x) # MailKey(x)
           /\ x.at = "network" /\ x.kind \in {"login", "verify"} => BucketOf(x) = IpKey(x)
           /\ x.at = "address" => BucketOf(x) = MailKey(x)
<1>1. x.user \in User /\ x.net \in Net /\ x.window \in 0 .. MaxWindow
  BY DEF Busy
<1>2. IpKey(x) \in Bucket /\ MailKey(x) \in Bucket
  BY <1>1 DEF IpKey, MailKey, Bucket
<1>3. IpKey(x) # MailKey(x)
  BY DEF IpKey, MailKey
<1>4. x.at = "network" /\ x.kind \in {"login", "verify"} => BucketOf(x) = IpKey(x)
  BY DEF BucketOf, IpKey
<1>5. x.at = "address" => BucketOf(x) = MailKey(x)
  BY DEF BucketOf, MailKey
<1> QED
  BY <1>2, <1>3, <1>4, <1>5

LEMMA FoundFacts ==
    ASSUME Tables, NEW k \in Bucket
    PROVE  /\ Found(k) \in Nat /\ Len(counters[k]) \in Nat
           /\ Found(k) > 0 => Len(counters[k]) > 0
<1>1. counters[k] \in Seq(Nat \ {0})
  BY DEF Tables
<1>2. Len(counters[k]) \in Nat
  BY <1>1
<1>3. CASE counters[k] = <<>>
  BY <1>2, <1>3 DEF Found
<1>4. CASE counters[k] # <<>>
  <2>1. counters[k][1] \in Nat \ {0} /\ Len(counters[k]) > 0
    BY <1>1, <1>4
  <2> QED
    BY <1>2, <1>4, <2>1 DEF Found
<1> QED
  BY <1>3, <1>4

\* A count is added, and never taken away; an insert adds a row.
LEMMA CountedFacts ==
    ASSUME IInv, NEW r \in Req, Running(r)
    PROVE  /\ Counted(r) \in [Bucket -> Seq(Nat \ {0})]
           /\ \A k \in Bucket : Len(Counted(r)[k]) >= Len(counters[k])
           /\ \A k \in Bucket : <<k, 0>> \in req[r].hits =>
                Len(Counted(r)[k]) = Len(counters[k]) + 1
<1>1. /\ req[r] \in Busy /\ HitsFine(req[r]) /\ ReadFine(req[r])
      /\ counters \in [Bucket -> Seq(Nat \ {0})]
  BY DEF IInv, Fine, Running, Tables
<1>2. ASSUME NEW k \in Bucket
      PROVE  /\ Counted(r)[k] \in Seq(Nat \ {0})
             /\ Len(Counted(r)[k]) >= Len(counters[k])
             /\ <<k, 0>> \in req[r].hits => Len(Counted(r)[k]) = Len(counters[k]) + 1
  <2>1. counters[k] \in Seq(Nat \ {0}) /\ Len(counters[k]) \in Nat
    BY <1>1
  <2>2. CASE ~ \E h \in req[r].hits : h[1] = k
    <3>1. Counted(r)[k] = counters[k]
      BY <2>2 DEF Counted
    <3>2. <<k, 0>>[1] = k
      OBVIOUS
    <3> QED
      BY <2>1, <2>2, <3>1, <3>2
  <2>3. CASE \E h \in req[r].hits : h[1] = k
    <3> DEFINE g == CHOOSE h \in req[r].hits : h[1] = k
               c == g[2]
    <3>1. g \in req[r].hits /\ g[1] = k
      BY <2>3
    <3>2. g \in Bucket \X Nat
      BY <1>1, <3>1 DEF Busy
    <3>3. c \in Nat
      BY <3>2
    <3>4. Counted(r)[k] = IF c = 0 THEN Append(counters[k], OneMore(0))
                          ELSE [counters[k] EXCEPT ![1] = OneMore(c)]
      BY <2>3 DEF Counted
    <3>5. <<k, 0>> \in req[r].hits => c = 0
      <4>1. <<k, 0>>[1] = k /\ <<k, 0>>[2] = 0
        OBVIOUS
      <4>2. <<k, 0>> \in req[r].hits => g = <<k, 0>>
        BY <1>1, <3>1, <4>1 DEF HitsFine
      <4> QED
        BY <4>1, <4>2
    <3>6. c > 0 => Len(counters[k]) > 0
      BY <1>1, <3>1 DEF ReadFine
    <3> HIDE DEF c, g
    <3>7. CASE c = 0
      <4>1. OneMore(0) \in Nat \ {0}
        BY DEF OneMore
      <4>2. /\ Counted(r)[k] \in Seq(Nat \ {0})
            /\ Len(Counted(r)[k]) = Len(counters[k]) + 1
        BY <2>1, <3>4, <3>7, <4>1, Appended
      <4> QED
        BY <2>1, <4>2
    <3>8. CASE c # 0
      <4>1. OneMore(c) \in Nat \ {0}
        BY <3>3 DEF OneMore
      <4>2. 1 \in DOMAIN counters[k] /\ counters[k] \in [1 .. Len(counters[k]) -> Nat \ {0}]
        BY <2>1, <3>3, <3>6, <3>8
      <4>3. Counted(r)[k] \in [1 .. Len(counters[k]) -> Nat \ {0}]
        BY <3>4, <3>8, <4>1, <4>2
      <4>4. Counted(r)[k] \in Seq(Nat \ {0}) /\ Len(Counted(r)[k]) = Len(counters[k])
        BY <2>1, <4>3, FunctionIsSeq
      <4> QED
        BY <2>1, <3>5, <3>8, <4>4
    <3> QED
      BY <3>7, <3>8
  <2> QED
    BY <2>2, <2>3
<1>3. Counted(r) \in [Bucket -> Seq(Nat \ {0})]
  <2>1. Counted(r) = [k \in Bucket |-> Counted(r)[k]]
    BY DEF Counted
  <2> QED
    BY <1>2, <2>1
<1> QED
  BY <1>2, <1>3

-----------------------------------------------------------------------------
(* Steps of one request.                                                   *)

\* What others have read stays: counters and accounts are never taken away.
Grows ==
    /\ \A k \in Bucket : Len(counters'[k]) >= Len(counters[k])
    /\ \A u \in User : account[u] # "none" => account'[u] # "none"
    /\ DOMAIN tokens \subseteq DOMAIN tokens'

LEMMA BusyFacts ==
    ASSUME IInv, NEW r \in Req, Running(r)
    PROVE  /\ req[r] \in Busy
           /\ AtFine(req[r]) /\ HitsFine(req[r]) /\ ReadFine(req[r])
           /\ \A h \in req[r].hits : h[1] \in Bucket /\ h[2] \in Nat
<1>1. req[r] \in Busy /\ Fine(r)
  BY DEF IInv, Running
<1>2. \A h \in req[r].hits : h \in Bucket \X Nat
  BY <1>1 DEF Busy
<1> QED
  BY <1>1, <1>2 DEF Fine

LEMMA CountersAreSeqs ==
    ASSUME Tables, NEW k \in Bucket PROVE Len(counters[k]) \in Nat
<1>1. counters[k] \in Seq(Nat \ {0})
  BY DEF Tables
<1> QED
  BY <1>1

LEMMA FineStays ==
    ASSUME IInv, Tables', Grows, NEW t \in Req, req'[t] = req[t]
    PROVE  Fine(t)'
<1> SUFFICES ASSUME Running(t) PROVE AtFine(req[t]) /\ HitsFine(req[t]) /\ ReadFine(req[t])'
  BY DEF Fine, Running
<1>1. /\ req[t] \in Busy
      /\ AtFine(req[t]) /\ HitsFine(req[t]) /\ ReadFine(req[t])
      /\ \A h \in req[t].hits : h[1] \in Bucket /\ h[2] \in Nat
  BY BusyFacts
<1>2. \A k \in Bucket : Len(counters[k]) > 0 => Len(counters'[k]) > 0
  <2>1. \A k \in Bucket : Len(counters[k]) \in Nat
    BY CountersAreSeqs DEF IInv
  <2>2. \A k \in Bucket : Len(counters'[k]) \in Nat
    <3>1. ASSUME NEW k \in Bucket PROVE Len(counters'[k]) \in Nat
      <4>1. counters'[k] \in Seq(Nat \ {0})
        BY DEF Tables
      <4> QED
        BY <4>1
    <3> QED
      BY <3>1
  <2> QED
    BY <2>1, <2>2 DEF Grows
<1>3. req[t].at \in {"network", "address"} => BucketOf(req[t]) \in Bucket
  BY <1>1, KeyFacts DEF AtFine
<1>4. /\ req[t].user \in User
      /\ req[t].known # "none" => account'[req[t].user] # "none"
  BY <1>1 DEF Busy, ReadFine, Grows
<1>5. req[t].kind = "verify" => req[t].ids \subseteq DOMAIN tokens'
  BY <1>1 DEF ReadFine, Grows
<1>6. \A h \in req[t].hits : h[2] > 0 => Len(counters'[h[1]]) > 0
  BY <1>1, <1>2 DEF ReadFine
<1>7. req[t].at \in {"network", "address"} /\ req[t].count > 0
         => Len(counters'[BucketOf(req[t])]) > 0
  BY <1>1, <1>2, <1>3 DEF ReadFine
<1>8. req[t].kind = "verify" /\ req[t].at \in {"using", "saving", "writing"} => req[t].ids # {}
  BY <1>1 DEF ReadFine
<1> QED
  BY <1>1, <1>4, <1>5, <1>6, <1>7, <1>8 DEF ReadFine

\* It is enough to look at the request that takes the step.
LEMMA StepKeeps ==
    ASSUME IInv, Tables', Grows, NEW r \in Req, NEW x \in {Idle} \union Busy,
           req' = [req EXCEPT ![r] = x], Fine(r)',
           x = Idle \/ \A g \in x.hits :
               \/ Running(r) /\ g \in req[r].hits
               \/ \A q \in Req \ {r} : Running(q) =>
                    \A h \in req[q].hits : h[1] = g[1] => h[2] = 0
    PROVE  IInv'
<1>1. req \in [Req -> {Idle} \union Busy]
  BY DEF IInv
<1>2. /\ req' \in [Req -> {Idle} \union Busy]
      /\ req'[r] = x /\ \A t \in Req \ {r} : req'[t] = req[t]
  BY <1>1
<1>3. \A t \in Req : Fine(t)'
  BY <1>2, FineStays
<1>4. Exclusive'
  <2> SUFFICES ASSUME NEW t \in Req, NEW q \in Req, t # q, Running(t)', Running(q)',
                      NEW g \in req'[t].hits, NEW h \in req'[q].hits, g[1] = h[1]
               PROVE  g[2] = 0 \/ h[2] = 0
    BY DEF Exclusive
  <2>1. CASE t # r /\ q # r
    BY <1>2, <2>1 DEF IInv, Exclusive, Running
  <2>2. CASE t = r
    BY <1>2, <2>2 DEF IInv, Exclusive, Running
  <2>3. CASE q = r
    BY <1>2, <2>3 DEF IInv, Exclusive, Running
  <2> QED
    BY <2>1, <2>2, <2>3
<1> QED
  BY <1>2, <1>3, <1>4 DEF IInv

\* A request reads on, or begins.
LEMMA GoesKeeps ==
    ASSUME IInv, NEW r \in Req, NEW x \in Busy,
           req' = [req EXCEPT ![r] = x], begun' \in 0 .. MaxRequests,
           UNCHANGED <<window, counters, account, admins, tokens, sessions, stale>>,
           AtFine(x), HitsFine(x), ReadFine(x),
           \A g \in x.hits :
               \/ Running(r) /\ g \in req[r].hits
               \/ \A q \in Req \ {r} : Running(q) =>
                    \A h \in req[q].hits : h[1] = g[1] => h[2] = 0
    PROVE  IInv'
<1>1. Tables'
  BY DEF IInv, Tables
<1>2. Grows
  BY CountersAreSeqs DEF IInv, Grows
<1>3. req'[r] = x
  BY DEF IInv
<1>4. Fine(r)'
  <2>1. BucketOf(req'[r]) = BucketOf(x)
    BY <1>3
  <2> QED
    BY <1>3, <2>1 DEF Fine, ReadFine
<1> QED
  BY <1>1, <1>2, <1>4, StepKeeps

\* It is given up, with nothing written.
LEMMA GivenUpKeeps ==
    ASSUME IInv, NEW r \in Req, req' = [req EXCEPT ![r] = Idle],
           UNCHANGED <<window, begun, counters, account, admins, tokens, sessions, stale>>
    PROVE  IInv'
<1>1. Tables'
  BY DEF IInv, Tables
<1>2. Grows
  BY CountersAreSeqs DEF IInv, Grows
<1>3. Fine(r)'
  BY DEF IInv, Fine, Running
<1> QED
  BY <1>1, <1>2, <1>3, StepKeeps

\* It commits what it has counted, and more.
LEMMA EndsKeeps ==
    ASSUME IInv, NEW r \in Req, Running(r), Ends(r), stale' \in BOOLEAN,
           account' \in [User -> Known], admins' \in Seq(AdminType),
           tokens' \in Seq(TokenType), sessions' \in Seq(SessionType),
           \A u \in User : account[u] # "none" => account'[u] # "none",
           DOMAIN tokens \subseteq DOMAIN tokens',
           \A i \in DOMAIN admins' : account'[admins'[i].user] # "none",
           \A i \in DOMAIN sessions' : /\ account'[sessions'[i].user] # "none"
                                       /\ sessions'[i].link \in {0} \union DOMAIN tokens'
    PROVE  IInv'
<1>1. /\ counters' = Counted(r) /\ req' = [req EXCEPT ![r] = Idle]
      /\ UNCHANGED <<window, begun>>
  BY DEF Ends
<1>2. Tables'
  BY <1>1, CountedFacts DEF IInv, Tables
<1>3. Grows
  BY <1>1, CountedFacts DEF Grows
<1>4. Fine(r)'
  BY <1>1 DEF IInv, Fine, Running
<1> QED
  BY <1>1, <1>2, <1>3, <1>4, StepKeeps

-----------------------------------------------------------------------------
(* Asking for a link.                                                      *)

LEMMA LoginKeeps ==
    ASSUME IInv, NEW r \in Req, Login(r)
    PROVE  IInv'
<1>1. PICK u \in User, n \in Net :
        Begin(r, [Request("login", "network", u, n) EXCEPT
                    !.count = Found(BucketOf(Request("login", "network", u, n)))])
  BY DEF Login
<1> DEFINE y == Request("login", "network", u, n)
           x == [y EXCEPT !.count = Found(BucketOf(y))]
<1>2. /\ y \in Busy /\ y.kind = "login" /\ y.at = "network" /\ y.hits = {} /\ y.known = "none"
  BY DEF Request, Busy, Known, IInv, Tables
<1> HIDE DEF y
<1>3. BucketOf(y) \in Bucket
  BY <1>2, KeyFacts
<1>4. Found(BucketOf(y)) \in Nat /\ (Found(BucketOf(y)) > 0 => Len(counters[BucketOf(y)]) > 0)
  BY <1>3, FoundFacts DEF IInv
<1>5. /\ x \in Busy /\ x.kind = "login" /\ x.at = "network" /\ x.hits = {} /\ x.known = "none"
      /\ x.count = Found(BucketOf(y)) /\ x.net = y.net /\ x.window = y.window
  BY <1>2, <1>4 DEF Busy
<1>6. BucketOf(x) = BucketOf(y)
  BY <1>2, <1>5, KeyFacts DEF IpKey
<1>7. Begin(r, x)
  BY <1>1 DEF y
<1> HIDE DEF x
<1>8. AtFine(x) /\ HitsFine(x) /\ ReadFine(x)
  BY <1>4, <1>5, <1>6 DEF AtFine, HitsFine, ReadFine
<1>9. begun' \in 0 .. MaxRequests
  BY <1>7, AccessTxAssumption DEF Begin, IInv, Tables
<1>10. req' = [req EXCEPT ![r] = x]
  BY <1>7 DEF Begin
<1>11. UNCHANGED <<window, counters, account, admins, tokens, sessions, stale>>
  BY <1>7 DEF Begin
<1> QED
  BY <1>5, <1>8, <1>9, <1>10, <1>11, GoesKeeps

\* Whoever counts is alone on the counter it found.
LEMMA HitFacts ==
    ASSUME IInv, NEW r \in Req, Running(r), req[r].at \in {"network", "address"},
           ~Locked(r, BucketOf(req[r]))
    PROVE  /\ BucketOf(req[r]) \in Bucket
           /\ Hit(r) = [req[r] EXCEPT !.hits = @ \union {<<BucketOf(req[r]), req[r].count>>}]
           /\ Hit(r) \in Busy
           /\ Hit(r).hits = req[r].hits \union {<<BucketOf(req[r]), req[r].count>>}
           /\ \A g \in Hit(r).hits :
                \/ g \in req[r].hits
                \/ \A q \in Req \ {r} : Running(q) => \A h \in req[q].hits : h[1] = g[1] => h[2] = 0
           /\ \A h \in Hit(r).hits : h[2] > 0 => Len(counters[h[1]]) > 0
           /\ \A g, h \in Hit(r).hits : g[1] = h[1] => g = h
<1> DEFINE k == BucketOf(req[r])
           c == req[r].count
           new == <<k, c>>
<1>1. /\ req[r] \in Busy /\ AtFine(req[r]) /\ HitsFine(req[r]) /\ ReadFine(req[r])
      /\ \A h \in req[r].hits : h[1] \in Bucket /\ h[2] \in Nat
  BY BusyFacts
<1>2. k \in Bucket /\ c \in Nat
  BY <1>1, KeyFacts DEF AtFine, Busy
<1>3. new \in Bucket \X Nat /\ new[1] = k /\ new[2] = c
  BY <1>2
<1>4. c > 0 => Len(counters[k]) > 0
  BY <1>1 DEF ReadFine
<1>5. \A h \in req[r].hits : h[1] # k
  <2>1. CASE req[r].at = "network"
    BY <1>1, <2>1 DEF HitsFine
  <2>2. CASE req[r].at = "address"
    <3>1. k = MailKey(req[r]) /\ IpKey(req[r]) # MailKey(req[r]) /\ req[r].kind = "login"
      BY <1>1, <2>2, KeyFacts DEF AtFine
    <3> QED
      BY <1>1, <2>2, <3>1 DEF HitsFine
  <2> QED
    BY <2>1, <2>2
<1>6. \A q \in Req \ {r} : Running(q) => \A h \in req[q].hits : h[1] = k => h[2] = 0
  <2>1. ASSUME NEW q \in Req \ {r}, Running(q), NEW h \in req[q].hits, h[1] = k
        PROVE  h[2] = 0
    <3>1. h[2] \in Nat /\ ~(h[2] > 0)
      BY <2>1, BusyFacts DEF Locked
    <3> QED
      BY <3>1
  <2> QED
    BY <2>1
<1>7. Hit(r) = [req[r] EXCEPT !.hits = @ \union {new}]
  BY DEF Hit
<1> HIDE DEF new
<1>8. req[r].hits \union {new} \in SUBSET (Bucket \X Nat)
  BY <1>1, <1>3 DEF Busy
<1>9. Hit(r) \in Busy /\ Hit(r).hits = req[r].hits \union {new}
  BY <1>1, <1>7, <1>8 DEF Busy
<1>10. \A g \in Hit(r).hits : g \in req[r].hits \/ g = new
  BY <1>9
<1>11. \A h \in Hit(r).hits : h[2] > 0 => Len(counters[h[1]]) > 0
  BY <1>1, <1>3, <1>4, <1>10 DEF ReadFine
<1>12. \A g, h \in Hit(r).hits : g[1] = h[1] => g = h
  BY <1>1, <1>3, <1>5, <1>10 DEF HitsFine
<1>13. \A g \in Hit(r).hits :
          \/ g \in req[r].hits
          \/ \A q \in Req \ {r} : Running(q) => \A h \in req[q].hits : h[1] = g[1] => h[2] = 0
  BY <1>3, <1>6, <1>10
<1> QED
  BY <1>2, <1>7, <1>9, <1>11, <1>12, <1>13 DEF new

LEMMA CountNetworkKeeps ==
    ASSUME IInv, NEW r \in Req, CountNetwork(r)
    PROVE  IInv'
<1>1. Running(r) /\ req[r].kind = "login" /\ req[r].at = "network" /\ ~Locked(r, BucketOf(req[r]))
  BY DEF CountNetwork
<1> DEFINE y == Hit(r)
           x == [y EXCEPT !.at = "address"]
<1>2. /\ req[r] \in Busy /\ HitsFine(req[r]) /\ ReadFine(req[r])
  BY <1>1, BusyFacts
<1>3. /\ y \in Busy /\ y.kind = "login" /\ y.net = req[r].net /\ y.window = req[r].window
      /\ y.user = req[r].user /\ y.known = req[r].known /\ y.count = req[r].count
      /\ y.hits = {<<BucketOf(req[r]), req[r].count>>} /\ BucketOf(req[r]) = IpKey(req[r])
  BY <1>1, <1>2, HitFacts, KeyFacts DEF Busy, HitsFine
<1>4. /\ \A g \in y.hits :
           \/ g \in req[r].hits
           \/ \A q \in Req \ {r} : Running(q) => \A h \in req[q].hits : h[1] = g[1] => h[2] = 0
      /\ \A h \in y.hits : h[2] > 0 => Len(counters[h[1]]) > 0
      /\ \A g, h \in y.hits : g[1] = h[1] => g = h
  BY <1>1, HitFacts
<1> HIDE DEF y
<1>5. /\ x \in Busy /\ x.kind = "login" /\ x.net = req[r].net /\ x.window = req[r].window
      /\ x.at = "address" /\ x.user = req[r].user /\ x.known = req[r].known /\ x.hits = y.hits
  BY <1>3 DEF Busy
<1>6. \/ Goes(r, [x EXCEPT !.at = "refusing"]) \/ Goes(r, Idle)
      \/ Goes(r, [x EXCEPT !.count = Found(BucketOf(x))])
  BY DEF CountNetwork, y
<1> HIDE DEF x
<1>7. begun \in 0 .. MaxRequests
  BY DEF IInv, Tables
<1>8. req[r].known # "none" => account[req[r].user] # "none"
  BY <1>2 DEF ReadFine
<1>9. CASE Goes(r, [x EXCEPT !.at = "refusing"])
  <2> DEFINE z == [x EXCEPT !.at = "refusing"]
  <2>1. /\ z \in Busy /\ z.kind = "login" /\ z.at = "refusing" /\ z.known = x.known
        /\ z.user = x.user /\ z.hits = y.hits
    BY <1>5 DEF Busy
  <2>2. /\ req' = [req EXCEPT ![r] = z]
        /\ UNCHANGED <<window, begun, counters, account, admins, tokens, sessions, stale>>
    BY <1>9 DEF Goes
  <2> HIDE DEF z
  <2>3. AtFine(z) /\ HitsFine(z) /\ ReadFine(z)
    BY <1>4, <1>5, <1>8, <2>1 DEF AtFine, HitsFine, ReadFine
  <2> QED
    BY <1>1, <1>4, <1>7, <2>1, <2>2, <2>3, GoesKeeps
<1>10. CASE Goes(r, Idle)
  BY <1>10, GivenUpKeeps DEF Goes
<1>11. CASE Goes(r, [x EXCEPT !.count = Found(BucketOf(x))])
  <2> DEFINE z == [x EXCEPT !.count = Found(BucketOf(x))]
  <2>1. BucketOf(x) \in Bucket /\ BucketOf(x) = MailKey(x)
    BY <1>5, KeyFacts
  <2>2. Found(BucketOf(x)) \in Nat /\ (Found(BucketOf(x)) > 0 => Len(counters[BucketOf(x)]) > 0)
    BY <2>1, FoundFacts DEF IInv
  <2>3. /\ z \in Busy /\ z.kind = "login" /\ z.at = "address" /\ z.known = x.known
        /\ z.user = x.user /\ z.net = x.net /\ z.window = x.window /\ z.hits = y.hits
        /\ z.count = Found(BucketOf(x))
    BY <1>5, <2>2 DEF Busy
  <2>4. /\ req' = [req EXCEPT ![r] = z]
        /\ UNCHANGED <<window, begun, counters, account, admins, tokens, sessions, stale>>
    BY <1>11 DEF Goes
  <2> HIDE DEF z
  <2>5. BucketOf(z) = BucketOf(x)
    BY <2>1, <2>3, KeyFacts DEF MailKey
  <2>6. \A h \in z.hits : h[1] = IpKey(z)
    <3>1. IpKey(z) = IpKey(req[r])
      BY <1>1, <1>5, <2>3 DEF IpKey
    <3> QED
      BY <1>3, <2>3, <3>1
  <2>7. AtFine(z) /\ HitsFine(z) /\ ReadFine(z)
    BY <1>4, <1>5, <1>8, <2>2, <2>3, <2>5, <2>6 DEF AtFine, HitsFine, ReadFine
  <2> QED
    BY <1>1, <1>4, <1>7, <2>3, <2>4, <2>7, GoesKeeps
<1> QED
  BY <1>6, <1>9, <1>10, <1>11

LEMMA OpenLinksFacts ==
    ASSUME Tables, NEW u PROVE OpenLinks(u) \subseteq DOMAIN tokens /\ OpenLinks(u) \in SUBSET Nat
<1>1. DOMAIN tokens \subseteq Nat
  BY DEF Tables
<1> QED
  BY <1>1 DEF OpenLinks

LEMMA CountAddressKeeps ==
    ASSUME IInv, NEW r \in Req, CountAddress(r)
    PROVE  IInv'
<1>1. Running(r) /\ req[r].at = "address" /\ ~Locked(r, BucketOf(req[r]))
  BY DEF CountAddress
<1> DEFINE y == Hit(r)
<1>2. /\ req[r] \in Busy /\ AtFine(req[r]) /\ ReadFine(req[r])
  BY <1>1, BusyFacts
<1>3. /\ y \in Busy /\ y.kind = "login" /\ y.net = req[r].net /\ y.window = req[r].window
      /\ y.user = req[r].user /\ y.known = req[r].known /\ y.count = req[r].count
      /\ y.hits = req[r].hits \union {<<MailKey(req[r]), req[r].count>>}
  BY <1>1, <1>2, HitFacts, KeyFacts DEF Busy, AtFine
<1>4. /\ \A g \in y.hits :
           \/ g \in req[r].hits
           \/ \A q \in Req \ {r} : Running(q) => \A h \in req[q].hits : h[1] = g[1] => h[2] = 0
      /\ \A h \in y.hits : h[2] > 0 => Len(counters[h[1]]) > 0
      /\ \A g, h \in y.hits : g[1] = h[1] => g = h
  BY <1>1, HitFacts
<1>5. PICK at \in {"refusing", "writing"} :
        Goes(r, [y EXCEPT !.at = at, !.ids = OpenLinks(req[r].user)])
  BY DEF CountAddress
<1> HIDE DEF y
<1> DEFINE x == [y EXCEPT !.at = at, !.ids = OpenLinks(req[r].user)]
<1>6. OpenLinks(req[r].user) \in SUBSET Nat
  BY OpenLinksFacts DEF IInv
<1>7. /\ x \in Busy /\ x.kind = "login" /\ x.at = at /\ x.known = req[r].known
      /\ x.user = req[r].user /\ x.window = req[r].window /\ x.count = req[r].count /\ x.hits = y.hits
  BY <1>3, <1>6 DEF Busy
<1>8. /\ req' = [req EXCEPT ![r] = x]
      /\ UNCHANGED <<window, begun, counters, account, admins, tokens, sessions, stale>>
  BY <1>5 DEF Goes
<1> HIDE DEF x
<1>9. AtFine(x) /\ HitsFine(x) /\ ReadFine(x)
  <2>1. MailKey(x) = MailKey(req[r])
    BY <1>7 DEF MailKey
  <2>2. req[r].known # "none" => account[req[r].user] # "none"
    BY <1>2 DEF ReadFine
  <2> QED
    BY <1>3, <1>4, <1>7, <2>1, <2>2 DEF AtFine, HitsFine, ReadFine
<1>10. begun \in 0 .. MaxRequests
  BY DEF IInv, Tables
<1> QED
  BY <1>1, <1>4, <1>7, <1>8, <1>9, <1>10, GoesKeeps

\* Links marked used keep their place, their owner and their window.
LEMMA UsedUpFacts ==
    ASSUME Tables, NEW ids
    PROVE  /\ UsedUp(ids) \in Seq(TokenType)
           /\ DOMAIN UsedUp(ids) = DOMAIN tokens /\ Len(UsedUp(ids)) = Len(tokens)
           /\ \A i \in DOMAIN tokens :
                /\ UsedUp(ids)[i].user = tokens[i].user
                /\ UsedUp(ids)[i].window = tokens[i].window
                /\ UsedUp(ids)[i].used = (tokens[i].used \/ i \in ids)
<1>1. \A i \in DOMAIN tokens : tokens[i] \in TokenType
  BY DEF Tables
<1>2. UsedUp(ids) \in [DOMAIN tokens -> TokenType]
  BY <1>1 DEF UsedUp, TokenType
<1>3. \A i \in DOMAIN tokens :
        /\ UsedUp(ids)[i].user = tokens[i].user
        /\ UsedUp(ids)[i].window = tokens[i].window
        /\ UsedUp(ids)[i].used = (tokens[i].used \/ i \in ids)
  BY <1>1 DEF UsedUp, TokenType
<1> QED
  BY <1>2, <1>3, Mapped DEF Tables

LEMMA IssueLinkKeeps ==
    ASSUME IInv, NEW r \in Req, IssueLink(r)
    PROVE  IInv'
<1>1. /\ Running(r) /\ Ends(r) /\ UNCHANGED <<account, admins, sessions, stale>>
      /\ tokens' = Append(UsedUp(req[r].ids),
                          [user |-> req[r].user, used |-> FALSE, window |-> req[r].window])
  BY DEF IssueLink, Commits
<1> DEFINE x == [user |-> req[r].user, used |-> FALSE, window |-> req[r].window]
<1>2. x \in TokenType
  BY <1>1, BusyFacts DEF TokenType, Busy
<1> HIDE DEF x
<1>3. tokens' = Append(UsedUp(req[r].ids), x)
  BY <1>1 DEF x
<1>4. tokens' \in Seq(TokenType) /\ DOMAIN tokens \subseteq DOMAIN tokens'
  BY <1>2, <1>3, UsedUpFacts, Appended DEF IInv
<1> QED
  BY <1>1, <1>4, EndsKeeps DEF IInv, Tables

LEMMA RefuseKeeps ==
    ASSUME IInv, NEW r \in Req, Refuse(r)
    PROVE  IInv'
<1>1. Running(r) /\ Ends(r) /\ UNCHANGED <<account, admins, tokens, sessions, stale>>
  BY DEF Refuse
<1> QED
  BY <1>1, EndsKeeps DEF IInv, Tables

-----------------------------------------------------------------------------
(* Using a link.                                                           *)

LEMMA VerifyKeeps ==
    ASSUME IInv, NEW r \in Req, Verify(r)
    PROVE  IInv'
<1>1. PICK ids \in {{}} \union {{i} : i \in DOMAIN tokens}, u \in User, n \in Net :
        Begin(r, [Request("verify", "network", u, n) EXCEPT
                    !.count = Found(BucketOf(Request("verify", "network", u, n))), !.ids = ids])
  BY DEF Verify
<1> DEFINE y == Request("verify", "network", u, n)
           x == [y EXCEPT !.count = Found(BucketOf(y)), !.ids = ids]
<1>2. /\ y \in Busy /\ y.kind = "verify" /\ y.at = "network" /\ y.hits = {} /\ y.known = "none"
  BY DEF Request, Busy, Known, IInv, Tables
<1> HIDE DEF y
<1>3. BucketOf(y) \in Bucket
  BY <1>2, KeyFacts
<1>4. Found(BucketOf(y)) \in Nat /\ (Found(BucketOf(y)) > 0 => Len(counters[BucketOf(y)]) > 0)
  BY <1>3, FoundFacts DEF IInv
<1>5. ids \subseteq DOMAIN tokens /\ ids \in SUBSET Nat
  <2>1. DOMAIN tokens \subseteq Nat
    BY DEF IInv, Tables
  <2> QED
    BY <2>1
<1>6. /\ x \in Busy /\ x.kind = "verify" /\ x.at = "network" /\ x.hits = {} /\ x.known = "none"
      /\ x.count = Found(BucketOf(y)) /\ x.net = y.net /\ x.window = y.window /\ x.ids = ids
  BY <1>2, <1>4, <1>5 DEF Busy
<1>7. BucketOf(x) = BucketOf(y)
  BY <1>2, <1>6, KeyFacts DEF IpKey
<1>8. Begin(r, x)
  BY <1>1 DEF y
<1> HIDE DEF x
<1>9. AtFine(x) /\ HitsFine(x) /\ ReadFine(x)
  BY <1>4, <1>5, <1>6, <1>7 DEF AtFine, HitsFine, ReadFine
<1>10. begun' \in 0 .. MaxRequests
  BY <1>8, AccessTxAssumption DEF Begin, IInv, Tables
<1>11. /\ req' = [req EXCEPT ![r] = x]
       /\ UNCHANGED <<window, counters, account, admins, tokens, sessions, stale>>
  BY <1>8 DEF Begin
<1> QED
  BY <1>6, <1>9, <1>10, <1>11, GoesKeeps

LEMMA CountVerifyKeeps ==
    ASSUME IInv, NEW r \in Req, CountVerify(r)
    PROVE  IInv'
<1>1. Running(r) /\ req[r].kind = "verify" /\ req[r].at = "network" /\ ~Locked(r, BucketOf(req[r]))
  BY DEF CountVerify
<1> DEFINE y == Hit(r)
<1>2. req[r] \in Busy /\ HitsFine(req[r]) /\ ReadFine(req[r])
  BY <1>1, BusyFacts
<1>3. /\ y \in Busy /\ y.kind = "verify" /\ y.net = req[r].net /\ y.window = req[r].window
      /\ y.user = req[r].user /\ y.known = req[r].known /\ y.count = req[r].count
      /\ y.ids = req[r].ids /\ y.hits = {<<IpKey(req[r]), req[r].count>>}
  BY <1>1, <1>2, HitFacts, KeyFacts DEF Busy, HitsFine
<1>4. /\ \A g \in y.hits :
           \/ g \in req[r].hits
           \/ \A q \in Req \ {r} : Running(q) => \A h \in req[q].hits : h[1] = g[1] => h[2] = 0
      /\ \A h \in y.hits : h[2] > 0 => Len(counters[h[1]]) > 0
      /\ \A g, h \in y.hits : g[1] = h[1] => g = h
  BY <1>1, HitFacts
<1>5. PICK at \in {"refusing", "using"} :
        /\ Goes(r, [y EXCEPT !.at = at])
        /\ at = "using" => req[r].ids # {}
  BY DEF CountVerify
<1> HIDE DEF y
<1> DEFINE x == [y EXCEPT !.at = at]
<1>6. /\ x \in Busy /\ x.kind = "verify" /\ x.at = at /\ x.known = req[r].known
      /\ x.user = req[r].user /\ x.net = req[r].net /\ x.window = req[r].window
      /\ x.count = req[r].count /\ x.hits = y.hits /\ x.ids = req[r].ids
  BY <1>3 DEF Busy
<1>7. /\ req' = [req EXCEPT ![r] = x]
      /\ UNCHANGED <<window, begun, counters, account, admins, tokens, sessions, stale>>
  BY <1>5 DEF Goes
<1> HIDE DEF x
<1>8. AtFine(x) /\ HitsFine(x) /\ ReadFine(x)
  <2>1. IpKey(x) = IpKey(req[r])
    BY <1>1, <1>6 DEF IpKey
  <2>2. /\ req[r].known # "none" => account[req[r].user] # "none"
        /\ req[r].ids \subseteq DOMAIN tokens
    BY <1>1, <1>2 DEF ReadFine
  <2> QED
    BY <1>3, <1>4, <1>5, <1>6, <2>1, <2>2 DEF AtFine, HitsFine, ReadFine
<1>9. begun \in 0 .. MaxRequests
  BY DEF IInv, Tables
<1> QED
  BY <1>1, <1>4, <1>6, <1>7, <1>8, <1>9, GoesKeeps

\* A request that has counted reads on.
LEMMA ReadsOnKeeps ==
    ASSUME IInv, NEW r \in Req, Running(r), NEW x \in Busy,
           req[r].at \in {"using", "saving"}, x.at \in {"saving", "writing"},
           x.kind = req[r].kind, x.user = req[r].user, x.net = req[r].net,
           x.window = req[r].window, x.count = req[r].count,
           x.hits = req[r].hits, x.ids = req[r].ids,
           x.known # "none" => account[x.user] # "none",
           Goes(r, x)
    PROVE  IInv'
<1>1. AtFine(req[r]) /\ HitsFine(req[r]) /\ ReadFine(req[r])
  BY BusyFacts
<1>2. /\ req' = [req EXCEPT ![r] = x]
      /\ UNCHANGED <<window, begun, counters, account, admins, tokens, sessions, stale>>
  BY DEF Goes
<1>3. x.kind = "login" => FALSE
  <2>1. req[r].kind = "login" => FALSE
    BY <1>1 DEF AtFine
  <2> QED
    BY <2>1
<1>4. AtFine(x) /\ HitsFine(x) /\ ReadFine(x)
  <2>1. IpKey(x) = IpKey(req[r])
    BY DEF IpKey
  <2> QED
    BY <1>1, <1>3, <2>1 DEF AtFine, HitsFine, ReadFine
<1>5. begun \in 0 .. MaxRequests
  BY DEF IInv, Tables
<1> QED
  BY <1>2, <1>4, <1>5, GoesKeeps

LEMMA LoadUserKeeps ==
    ASSUME IInv, NEW r \in Req, LoadUser(r)
    PROVE  IInv'
<1>1. Running(r) /\ req[r].at = "using" /\ req[r] \in Busy
  BY BusyFacts DEF LoadUser
<1>2. PICK at \in {"saving", "writing"} :
        Goes(r, [req[r] EXCEPT !.known = account[req[r].user], !.at = at])
  BY DEF LoadUser
<1> DEFINE x == [req[r] EXCEPT !.known = account[req[r].user], !.at = at]
<1>3. account[req[r].user] \in Known
  BY <1>1 DEF IInv, Tables, Busy
<1>4. /\ x \in Busy /\ x.kind = req[r].kind /\ x.at = at /\ x.known = account[req[r].user]
      /\ x.user = req[r].user /\ x.net = req[r].net /\ x.window = req[r].window
      /\ x.count = req[r].count /\ x.hits = req[r].hits /\ x.ids = req[r].ids
  BY <1>1, <1>3 DEF Busy
<1> HIDE DEF x
<1>5. Goes(r, x)
  BY <1>2 DEF x
<1> QED
  BY <1>1, <1>4, <1>5, ReadsOnKeeps

\* What a request saves, or that it gives up.
LEMMA SaveFacts ==
    ASSUME IInv, NEW r \in Req, Save(r)
    PROVE  /\ Running(r) /\ req[r].at = "saving" /\ req[r] \in Busy
           /\ req[r].kind \in {"verify", "grant"}
           /\ \/ Goes(r, Idle)
              \/ \E saved, grants \in BOOLEAN :
                   /\ Goes(r, [req[r] EXCEPT !.at = "writing", !.saved = saved, !.grants = grants])
                   /\ req[r].kind = "verify" => saved
                   /\ req[r].kind = "verify" /\ grants =>
                        req[r].user = Bootstrap /\ ActiveRows = {}
                   /\ saved => ~Held(r)
<1>1. /\ Running(r) /\ req[r].at = "saving" /\ req[r] \in Busy
      /\ req[r].kind \in {"verify", "grant"}
  BY BusyFacts DEF Save, AtFine
<1> DEFINE inserts == req[r].known = "none"
           writes == inserts \/ req[r].kind = "verify"
           grants == IF req[r].kind = "verify"
                     THEN req[r].user = Bootstrap /\ ActiveRows = {} ELSE Rows(req[r].user) = {}
<1>2. /\ writes => ~Held(r)
      /\ \/ Goes(r, Idle)
         \/ Goes(r, [req[r] EXCEPT !.at = "writing", !.saved = writes, !.grants = grants])
  BY DEF Save
<1>3. writes \in BOOLEAN /\ grants \in BOOLEAN
  OBVIOUS
<1>4. /\ req[r].kind = "verify" => writes
      /\ req[r].kind = "verify" /\ grants => req[r].user = Bootstrap /\ ActiveRows = {}
  OBVIOUS
<1> HIDE DEF writes, grants
<1> QED
  BY <1>1, <1>2, <1>3, <1>4

LEMMA SaveKeeps ==
    ASSUME IInv, NEW r \in Req, Save(r)
    PROVE  IInv'
<1>1. Running(r) /\ req[r].at = "saving" /\ req[r] \in Busy
  BY SaveFacts
<1>2. CASE Goes(r, Idle)
  BY <1>2, GivenUpKeeps DEF Goes
<1>3. ASSUME NEW saved \in BOOLEAN, NEW grants \in BOOLEAN,
             Goes(r, [req[r] EXCEPT !.at = "writing", !.saved = saved, !.grants = grants])
      PROVE  IInv'
  <2> DEFINE x == [req[r] EXCEPT !.at = "writing", !.saved = saved, !.grants = grants]
  <2>1. /\ x \in Busy /\ x.kind = req[r].kind /\ x.at = "writing" /\ x.known = req[r].known
        /\ x.user = req[r].user /\ x.net = req[r].net /\ x.window = req[r].window
        /\ x.count = req[r].count /\ x.hits = req[r].hits /\ x.ids = req[r].ids
    BY <1>1 DEF Busy
  <2>2. x.known # "none" => account[x.user] # "none"
    BY <1>1, <2>1, BusyFacts DEF ReadFine
  <2> HIDE DEF x
  <2>3. Goes(r, x)
    BY <1>3 DEF x
  <2> QED
    BY <1>1, <2>1, <2>2, <2>3, ReadsOnKeeps
<1> QED
  BY <1>2, <1>3, SaveFacts

\* A session row and perhaps the first admin row, or only the link used up.
LEMMA OpenSessionFacts ==
    ASSUME IInv, NEW r \in Req, OpenSession(r)
    PROVE  /\ Running(r) /\ Ends(r) /\ UNCHANGED stale
           /\ req[r].kind = "verify" /\ req[r].at = "writing" /\ req[r] \in Busy
           /\ req[r].hits = {<<IpKey(req[r]), req[r].count>>}
           /\ tokens' = UsedUp(req[r].ids)
           /\ \/ UNCHANGED <<account, admins, sessions>>
              \/ /\ req[r].known # "disabled"
                 /\ account' = [account EXCEPT ![req[r].user] =
                                  IF req[r].known = "none" THEN "active" ELSE @]
                 /\ account'[req[r].user] # "none"
                 /\ \/ UNCHANGED admins
                    \/ req[r].grants /\ admins' = Append(admins, AdminRow(req[r].user, "bootstrap"))
                 /\ \E x \in SessionType :
                      /\ sessions' = Append(sessions, x)
                      /\ x.user = req[r].user /\ x.link \in req[r].ids /\ x.link \in DOMAIN tokens
                      /\ x.net = req[r].net /\ x.window = req[r].window
                      /\ x.late = Late(r) /\ x.revoked = FALSE
<1>1. /\ Running(r) /\ Ends(r) /\ UNCHANGED stale /\ tokens' = UsedUp(req[r].ids)
      /\ req[r].kind = "verify" /\ req[r].at = "writing"
  BY DEF OpenSession, Commits
<1>2. req[r] \in Busy /\ HitsFine(req[r]) /\ ReadFine(req[r])
  BY <1>1, BusyFacts
<1>3. /\ req[r].hits = {<<IpKey(req[r]), req[r].count>>}
      /\ req[r].ids \subseteq DOMAIN tokens /\ req[r].ids # {}
  BY <1>1, <1>2 DEF HitsFine, ReadFine
<1>4. CASE UNCHANGED <<account, admins, sessions>>
  BY <1>1, <1>2, <1>3, <1>4
<1>5. CASE ~ UNCHANGED <<account, admins, sessions>>
  <2> DEFINE x == [user |-> req[r].user, link |-> CHOOSE i \in req[r].ids : TRUE,
                   net |-> req[r].net, window |-> req[r].window, late |-> Late(r),
                   revoked |-> FALSE]
             link == CHOOSE i \in req[r].ids : TRUE
  <2>1. /\ req[r].known # "disabled"
        /\ account' = [account EXCEPT ![req[r].user] =
                         IF req[r].known = "none" THEN "active" ELSE @]
        /\ \/ UNCHANGED admins
           \/ req[r].grants /\ admins' = Append(admins, AdminRow(req[r].user, "bootstrap"))
        /\ sessions' = Append(sessions, x)
    BY <1>5 DEF OpenSession
  <2>2. link \in req[r].ids /\ link \in DOMAIN tokens /\ link \in Nat
    <3>1. link \in req[r].ids
      BY <1>3
    <3> HIDE DEF link
    <3> QED
      BY <1>2, <1>3, <3>1 DEF Busy
  <2>3. x \in SessionType
    <3>1. Late(r) \in BOOLEAN
      BY DEF Late
    <3> QED
      BY <1>2, <2>2, <3>1 DEF SessionType, Busy
  <2>4. account'[req[r].user] # "none"
    <3>1. req[r].user \in User /\ account \in [User -> Known]
      BY <1>2 DEF Busy, IInv, Tables
    <3> QED
      BY <1>2, <2>1, <3>1 DEF ReadFine
  <2>5. /\ x.user = req[r].user /\ x.link = link
        /\ x.net = req[r].net /\ x.window = req[r].window
        /\ x.late = Late(r) /\ x.revoked = FALSE
    OBVIOUS
  <2> HIDE DEF x, link
  <2> QED
    BY <1>1, <1>2, <1>3, <2>1, <2>2, <2>3, <2>4, <2>5
<1> QED
  BY <1>4, <1>5

\* An account that is written to exists, and the others stay.
LEMMA AccountFacts ==
    ASSUME Tables, NEW u \in User, NEW a \in {"active", "disabled", account[u]},
           a # "none", account' = [account EXCEPT ![u] = a]
    PROVE  /\ account' \in [User -> Known]
           /\ \A v \in User : account[v] # "none" => account'[v] # "none"
           /\ account'[u] # "none"
  BY DEF Tables, Known

LEMMA AdminsAreUsers ==
    ASSUME Tables
    PROVE  /\ \A i \in DOMAIN admins : admins[i] \in AdminType /\ admins[i].user \in User
           /\ \A i \in DOMAIN sessions : sessions[i] \in SessionType /\ sessions[i].user \in User
<1>1. admins \in Seq(AdminType) /\ sessions \in Seq(SessionType)
  BY DEF Tables
<1>2. /\ \A i \in DOMAIN admins : admins[i] \in AdminType
      /\ \A i \in DOMAIN sessions : sessions[i] \in SessionType
  BY <1>1
<1> QED
  BY <1>2 DEF AdminType, SessionType

LEMMA OpenSessionKeeps ==
    ASSUME IInv, NEW r \in Req, OpenSession(r)
    PROVE  IInv'
<1>1. /\ Running(r) /\ Ends(r) /\ UNCHANGED stale /\ tokens' = UsedUp(req[r].ids)
      /\ req[r] \in Busy
  BY OpenSessionFacts
<1>2. tokens' \in Seq(TokenType) /\ DOMAIN tokens' = DOMAIN tokens
  BY <1>1, UsedUpFacts DEF IInv
<1>3. CASE UNCHANGED <<account, admins, sessions>>
  BY <1>1, <1>2, <1>3, EndsKeeps DEF IInv, Tables
<1>4. CASE ~ UNCHANGED <<account, admins, sessions>>
  <2>1. PICK x \in SessionType :
          /\ sessions' = Append(sessions, x)
          /\ x.user = req[r].user /\ x.link \in DOMAIN tokens
    BY <1>4, OpenSessionFacts
  <2>2. /\ account' = [account EXCEPT ![req[r].user] =
                         IF req[r].known = "none" THEN "active" ELSE @]
        /\ account'[req[r].user] # "none"
        /\ \/ UNCHANGED admins
           \/ admins' = Append(admins, AdminRow(req[r].user, "bootstrap"))
    BY <1>4, OpenSessionFacts
  <2>3. req[r].user \in User /\ account \in [User -> Known]
    BY <1>1 DEF Busy, IInv, Tables
  <2>4. /\ account' \in [User -> Known]
        /\ \A v \in User : account[v] # "none" => account'[v] # "none"
    BY <2>2, <2>3 DEF Known
  <2>5. AdminRow(req[r].user, "bootstrap") \in AdminType
    BY <2>3 DEF AdminRow, AdminType
  <2>6. /\ admins \in Seq(AdminType) /\ sessions \in Seq(SessionType)
        /\ \A i \in DOMAIN admins : admins[i].user \in User /\ account[admins[i].user] # "none"
        /\ \A i \in DOMAIN sessions : /\ sessions[i].user \in User
                                      /\ account[sessions[i].user] # "none"
                                      /\ sessions[i].link \in {0} \union DOMAIN tokens
    BY AdminsAreUsers DEF IInv, Tables
  <2>7. admins' \in Seq(AdminType) /\ \A i \in DOMAIN admins' : account'[admins'[i].user] # "none"
    <3>1. CASE UNCHANGED admins
      BY <2>4, <2>6, <3>1
    <3>2. CASE admins' = Append(admins, AdminRow(req[r].user, "bootstrap"))
      <4> DEFINE y == AdminRow(req[r].user, "bootstrap")
      <4>1. y.user = req[r].user /\ y \in AdminType
        BY <2>5 DEF AdminRow
      <4> HIDE DEF y
      <4>2. /\ admins' \in Seq(AdminType) /\ \A i \in DOMAIN admins : admins'[i] = admins[i]
            /\ admins'[Len(admins) + 1] = y
            /\ \A i \in DOMAIN admins' : i \in DOMAIN admins \/ i = Len(admins) + 1
        BY <2>6, <3>2, <4>1, Appended DEF y
      <4> QED
        BY <2>2, <2>4, <2>6, <4>1, <4>2
    <3> QED
      BY <2>2, <3>1, <3>2
  <2>8. /\ sessions' \in Seq(SessionType)
        /\ \A i \in DOMAIN sessions' : /\ account'[sessions'[i].user] # "none"
                                       /\ sessions'[i].link \in {0} \union DOMAIN tokens'
    <3>1. /\ sessions' \in Seq(SessionType) /\ \A i \in DOMAIN sessions : sessions'[i] = sessions[i]
          /\ sessions'[Len(sessions) + 1] = x
          /\ \A i \in DOMAIN sessions' : i \in DOMAIN sessions \/ i = Len(sessions) + 1
      BY <2>1, <2>6, Appended
    <3> QED
      BY <1>2, <2>1, <2>2, <2>4, <2>6, <3>1
  <2> QED
    BY <1>1, <1>2, <2>4, <2>7, <2>8, EndsKeeps DEF IInv, Tables
<1> QED
  BY <1>3, <1>4

-----------------------------------------------------------------------------
(* Admins.                                                                 *)

\* A request of an admin begins.
LEMMA AdminBegins ==
    ASSUME IInv, NEW r \in Req, NEW x \in Busy, Begin(r, x),
           x.kind \in {"grant", "revoke", "toggle"}, x.at \in {"saving", "writing"},
           x.at = "saving" => x.kind = "grant", x.hits = {},
           x.known # "none" => account[x.user] # "none"
    PROVE  IInv'
<1>1. AtFine(x) /\ HitsFine(x) /\ ReadFine(x)
  BY DEF AtFine, HitsFine, ReadFine
<1>2. begun' \in 0 .. MaxRequests
  BY AccessTxAssumption DEF Begin, IInv, Tables
<1>3. /\ req' = [req EXCEPT ![r] = x]
      /\ UNCHANGED <<window, counters, account, admins, tokens, sessions, stale>>
  BY DEF Begin
<1> QED
  BY <1>1, <1>2, <1>3, GoesKeeps

LEMMA ANetIsNet == ANet \in Net
  BY AccessTxAssumption DEF ANet

\* What a request of an admin holds when it begins.
LEMMA AdminRequests ==
    ASSUME IInv, NEW r \in Req, Grant(r) \/ Revoke(r) \/ Toggle(r)
    PROVE  \E x \in Busy :
             /\ Begin(r, x)
             /\ x.hits = {} /\ (x.known # "none" => account[x.user] # "none")
             /\ ~x.saved /\ ~x.grants
             /\ Authorised(x.by)
             /\ \/ x.kind = "grant" /\ x.at = "saving"
                \/ /\ x.kind = "revoke" /\ x.at = "writing" /\ x.by # x.user
                   /\ \E i \in DOMAIN admins : x.ids = {i} /\ admins[i].user = x.user
                \/ /\ x.kind = "toggle" /\ x.at = "writing" /\ x.by # x.user
                   /\ x.known = account[x.user] /\ x.known # "none"
                   /\ x.ids = OpenSessions(x.user)
<1>1. /\ ANet \in Net /\ window \in 0 .. MaxWindow /\ account \in [User -> Known]
      /\ \A i \in DOMAIN admins : admins[i].user \in User /\ i \in Nat
      /\ DOMAIN sessions \subseteq Nat
  <2>1. DOMAIN admins \subseteq Nat /\ DOMAIN sessions \subseteq Nat
    BY DEF IInv, Tables
  <2> QED
    BY <2>1, ANetIsNet, AdminsAreUsers DEF IInv, Tables
<1>2. CASE Grant(r)
  <2>1. PICK by \in User, u \in User :
          /\ Authorised(by)
          /\ Begin(r, [Request("grant", "saving", u, ANet) EXCEPT !.by = by, !.known = account[u]])
    BY <1>2 DEF Grant
  <2> DEFINE x == [Request("grant", "saving", u, ANet) EXCEPT !.by = by, !.known = account[u]]
  <2>2. x \in Busy
    BY <1>1 DEF Request, Busy, Known
  <2>3. /\ x.kind = "grant" /\ x.at = "saving" /\ x.hits = {} /\ ~x.saved /\ ~x.grants
        /\ x.by = by /\ x.user = u /\ x.known = account[u]
    BY DEF Request
  <2>4. Begin(r, x)
    BY <2>1
  <2> HIDE DEF x
  <2> QED
    BY <2>1, <2>2, <2>3, <2>4
<1>3. CASE Revoke(r)
  <2>1. PICK by \in User, i \in ActiveRows :
          /\ Authorised(by) /\ Protected(by, admins[i].user)
          /\ Begin(r, [Request("revoke", "writing", admins[i].user, ANet)
                          EXCEPT !.by = by, !.ids = {i}])
    BY <1>3 DEF Revoke
  <2> DEFINE x == [Request("revoke", "writing", admins[i].user, ANet)
                      EXCEPT !.by = by, !.ids = {i}]
  <2>2. i \in DOMAIN admins
    BY DEF ActiveRows
  <2>3. x \in Busy
    BY <1>1, <2>2 DEF Request, Busy, Known
  <2>4. /\ x.kind = "revoke" /\ x.at = "writing" /\ x.hits = {} /\ ~x.saved /\ ~x.grants
        /\ x.by = by /\ x.user = admins[i].user /\ x.known = "none" /\ x.ids = {i}
    BY DEF Request
  <2>5. Begin(r, x) /\ by # admins[i].user
    BY <2>1 DEF Protected
  <2> HIDE DEF x
  <2> QED
    BY <2>1, <2>2, <2>3, <2>4, <2>5
<1>4. CASE Toggle(r)
  <2>1. PICK by \in User, u \in User :
          /\ Authorised(by) /\ Protected(by, u) /\ account[u] # "none"
          /\ Begin(r, [Request("toggle", "writing", u, ANet)
                          EXCEPT !.by = by, !.known = account[u], !.ids = OpenSessions(u)])
    BY <1>4 DEF Toggle
  <2> DEFINE x == [Request("toggle", "writing", u, ANet)
                      EXCEPT !.by = by, !.known = account[u], !.ids = OpenSessions(u)]
  <2>2. OpenSessions(u) \in SUBSET Nat
    BY <1>1 DEF OpenSessions
  <2>3. x \in Busy
    BY <1>1, <2>2 DEF Request, Busy, Known
  <2>4. /\ x.kind = "toggle" /\ x.at = "writing" /\ x.hits = {} /\ ~x.saved /\ ~x.grants
        /\ x.by = by /\ x.user = u /\ x.known = account[u] /\ x.ids = OpenSessions(u)
    BY DEF Request
  <2>5. Begin(r, x) /\ by # u
    BY <2>1 DEF Protected
  <2> HIDE DEF x
  <2> QED
    BY <2>1, <2>3, <2>4, <2>5
<1> QED
  BY <1>2, <1>3, <1>4

LEMMA AdminRequestsKeep ==
    ASSUME IInv, NEW r \in Req, Grant(r) \/ Revoke(r) \/ Toggle(r)
    PROVE  IInv'
  BY AdminRequests, AdminBegins

LEMMA CommitGrantKeeps ==
    ASSUME IInv, NEW r \in Req, CommitGrant(r)
    PROVE  IInv'
<1>1. /\ Running(r) /\ Ends(r) /\ ActsStale(r) /\ UNCHANGED <<tokens, sessions>>
      /\ account' = [account EXCEPT ![req[r].user] = IF req[r].known = "none" THEN "active" ELSE @]
      /\ admins' = Append(admins, AdminRow(req[r].user, "grant"))
  BY DEF CommitGrant, Commits
<1>2. req[r].user \in User /\ ReadFine(req[r]) /\ account \in [User -> Known]
  BY <1>1, BusyFacts DEF Busy, IInv, Tables
<1>3. /\ account' \in [User -> Known]
      /\ \A v \in User : account[v] # "none" => account'[v] # "none"
      /\ account'[req[r].user] # "none"
  BY <1>1, <1>2 DEF Known, ReadFine
<1> DEFINE y == AdminRow(req[r].user, "grant")
<1>4. y.user = req[r].user /\ y \in AdminType
  BY <1>2 DEF AdminRow, AdminType
<1>5. /\ admins \in Seq(AdminType)
      /\ \A i \in DOMAIN admins : admins[i].user \in User /\ account[admins[i].user] # "none"
      /\ \A i \in DOMAIN sessions : sessions[i].user \in User /\ account[sessions[i].user] # "none"
  BY AdminsAreUsers DEF IInv, Tables
<1> HIDE DEF y
<1>6. /\ admins' \in Seq(AdminType) /\ \A i \in DOMAIN admins : admins'[i] = admins[i]
      /\ admins'[Len(admins) + 1] = y
      /\ \A i \in DOMAIN admins' : i \in DOMAIN admins \/ i = Len(admins) + 1
  BY <1>1, <1>4, <1>5, Appended DEF y
<1>7. \A i \in DOMAIN admins' : account'[admins'[i].user] # "none"
  BY <1>3, <1>4, <1>5, <1>6
<1>8. stale' \in BOOLEAN
  BY <1>1 DEF ActsStale
<1> QED
  BY <1>1, <1>3, <1>5, <1>6, <1>7, <1>8, EndsKeeps DEF IInv, Tables

\* A revoked row keeps its place and its user.
LEMMA RevokedFacts ==
    ASSUME IInv, NEW r \in Req, CommitRevoke(r)
    PROVE  /\ admins' \in Seq(AdminType) /\ DOMAIN admins' = DOMAIN admins
           /\ \A i \in DOMAIN admins : /\ admins'[i].user = admins[i].user
                                       /\ admins'[i].by = admins[i].by
                                       /\ admins'[i].active = (admins[i].active /\ i \notin req[r].ids)
<1>1. admins' = [i \in DOMAIN admins |->
                   IF i \in req[r].ids THEN [admins[i] EXCEPT !.active = FALSE] ELSE admins[i]]
  BY DEF CommitRevoke
<1>2. \A i \in DOMAIN admins : admins[i] \in AdminType
  BY AdminsAreUsers DEF IInv
<1>3. \A i \in DOMAIN admins :
        /\ admins'[i] \in AdminType
        /\ admins'[i].user = admins[i].user /\ admins'[i].by = admins[i].by
        /\ admins'[i].active = (admins[i].active /\ i \notin req[r].ids)
  BY <1>1, <1>2 DEF AdminType
<1>4. admins' \in [DOMAIN admins -> AdminType]
  BY <1>1, <1>3
<1> QED
  BY <1>3, <1>4, Mapped DEF IInv, Tables

LEMMA CommitRevokeKeeps ==
    ASSUME IInv, NEW r \in Req, CommitRevoke(r)
    PROVE  IInv'
<1>1. Running(r) /\ Ends(r) /\ ActsStale(r) /\ UNCHANGED <<account, tokens, sessions>>
  BY DEF CommitRevoke, Commits
<1>2. stale' \in BOOLEAN
  BY <1>1 DEF ActsStale
<1> QED
  BY <1>1, <1>2, RevokedFacts, EndsKeeps DEF IInv, Tables

\* Sessions signed out keep everything else.
LEMMA ToggledFacts ==
    ASSUME IInv, NEW r \in Req, CommitToggle(r)
    PROVE  /\ Running(r) /\ Ends(r) /\ ActsStale(r) /\ UNCHANGED <<admins, tokens>>
           /\ req[r] \in Busy /\ req[r].kind = "toggle" /\ req[r].at = "writing"
           /\ account' = [account EXCEPT ![req[r].user] =
                            IF req[r].known = "active" THEN "disabled" ELSE "active"]
           /\ sessions' \in Seq(SessionType) /\ DOMAIN sessions' = DOMAIN sessions
           /\ \A i \in DOMAIN sessions :
                /\ sessions'[i].user = sessions[i].user /\ sessions'[i].link = sessions[i].link
                /\ sessions'[i].net = sessions[i].net /\ sessions'[i].window = sessions[i].window
                /\ sessions'[i].late = sessions[i].late
                /\ sessions'[i].revoked =
                     (sessions[i].revoked \/ (req[r].known = "active" /\ i \in req[r].ids))
<1>1. /\ Running(r) /\ Ends(r) /\ ActsStale(r) /\ UNCHANGED <<admins, tokens>>
      /\ req[r].kind = "toggle" /\ req[r].at = "writing"
      /\ account' = [account EXCEPT ![req[r].user] =
                       IF req[r].known = "active" THEN "disabled" ELSE "active"]
      /\ sessions' = [i \in DOMAIN sessions |->
                        IF req[r].known = "active" /\ i \in req[r].ids
                        THEN [sessions[i] EXCEPT !.revoked = TRUE] ELSE sessions[i]]
  BY DEF CommitToggle, Commits
<1>2. req[r] \in Busy
  BY <1>1, BusyFacts
<1>3. \A i \in DOMAIN sessions : sessions[i] \in SessionType
  BY AdminsAreUsers DEF IInv
<1>4. \A i \in DOMAIN sessions :
        /\ sessions'[i] \in SessionType
        /\ sessions'[i].user = sessions[i].user /\ sessions'[i].link = sessions[i].link
        /\ sessions'[i].net = sessions[i].net /\ sessions'[i].window = sessions[i].window
        /\ sessions'[i].late = sessions[i].late
        /\ sessions'[i].revoked =
             (sessions[i].revoked \/ (req[r].known = "active" /\ i \in req[r].ids))
  BY <1>1, <1>3 DEF SessionType
<1>5. sessions' \in [DOMAIN sessions -> SessionType]
  BY <1>1, <1>4
<1>6. sessions' \in Seq(SessionType) /\ DOMAIN sessions' = DOMAIN sessions
  BY <1>5, Mapped DEF IInv, Tables
<1> QED
  BY <1>1, <1>2, <1>4, <1>6

LEMMA CommitToggleKeeps ==
    ASSUME IInv, NEW r \in Req, CommitToggle(r)
    PROVE  IInv'
<1>1. /\ Running(r) /\ Ends(r) /\ ActsStale(r) /\ UNCHANGED <<admins, tokens>>
      /\ req[r] \in Busy
      /\ account' = [account EXCEPT ![req[r].user] =
                       IF req[r].known = "active" THEN "disabled" ELSE "active"]
      /\ sessions' \in Seq(SessionType) /\ DOMAIN sessions' = DOMAIN sessions
      /\ \A i \in DOMAIN sessions :
           sessions'[i].user = sessions[i].user /\ sessions'[i].link = sessions[i].link
  BY ToggledFacts
<1>2. req[r].user \in User /\ account \in [User -> Known]
  BY <1>1 DEF Busy, IInv, Tables
<1>3. /\ account' \in [User -> Known]
      /\ \A v \in User : account[v] # "none" => account'[v] # "none"
  BY <1>1, <1>2 DEF Known
<1>4. /\ \A i \in DOMAIN admins : admins[i].user \in User /\ account[admins[i].user] # "none"
      /\ \A i \in DOMAIN sessions : sessions[i].user \in User /\ account[sessions[i].user] # "none"
  BY AdminsAreUsers DEF IInv, Tables
<1>5. stale' \in BOOLEAN
  BY <1>1 DEF ActsStale
<1> QED
  BY <1>1, <1>3, <1>4, <1>5, EndsKeeps DEF IInv, Tables

-----------------------------------------------------------------------------
(* The invariant.                                                          *)

LEMMA CrashKeeps ==
    ASSUME IInv, NEW r \in Req, Crash(r) PROVE IInv'
  BY GivenUpKeeps DEF Crash, Goes

LEMMA NextWindowKeeps ==
    ASSUME IInv, NextWindow PROVE IInv'
<1>1. /\ UNCHANGED <<counters, account, admins, tokens, sessions, req, begun, stale>>
      /\ window < MaxWindow /\ window' = window + 1
  BY DEF NextWindow
<1>2. window' \in 0 .. MaxWindow
  BY <1>1, AccessTxAssumption DEF IInv, Tables
<1>3. Tables'
  BY <1>1, <1>2 DEF IInv, Tables
<1>4. Grows
  BY <1>1, CountersAreSeqs DEF IInv, Grows
<1>5. \A r \in Req : Fine(r)'
  BY <1>1, <1>3, <1>4, FineStays
<1> QED
  BY <1>1, <1>3, <1>5 DEF IInv, Exclusive, Running

LEMMA InitIInv == Init => IInv
<1> SUFFICES ASSUME Init PROVE IInv
  OBVIOUS
<1>1. \/ InitWith(<<>>)
      \/ \E u \in User : InitWith(<<Bootstrap, u>>)
  BY DEF Init
<1>2. PICK staff \in Seq(User) : InitWith(staff)
  <2>1. <<>> \in Seq(User)
    OBVIOUS
  <2>2. \A u \in User : <<Bootstrap, u>> \in Seq(User)
    BY AccessTxAssumption
  <2> QED
    BY <1>1, <2>1, <2>2
<1>3. /\ window = 0 /\ counters = [k \in Bucket |-> <<>>] /\ tokens = <<>>
      /\ account = [u \in User |-> IF \E i \in DOMAIN staff : staff[i] = u THEN "active" ELSE "none"]
      /\ admins = [i \in DOMAIN staff |-> AdminRow(staff[i], IF i = 1 THEN "bootstrap" ELSE "grant")]
      /\ sessions = [i \in DOMAIN staff |-> SignedIn(staff[i])]
      /\ req = [r \in Req |-> Idle] /\ begun = 0 /\ stale = FALSE
  BY <1>2 DEF InitWith
<1>4. 0 \in 0 .. MaxWindow /\ 0 \in 0 .. MaxRequests /\ \A i \in DOMAIN staff : staff[i] \in User
  BY AccessTxAssumption
<1>5. counters \in [Bucket -> Seq(Nat \ {0})] /\ tokens \in Seq(TokenType)
  BY <1>3
<1>6. admins \in Seq(AdminType) /\ DOMAIN admins = DOMAIN staff
  <2>1. admins \in [DOMAIN staff -> AdminType]
    BY <1>3, <1>4 DEF AdminRow, AdminType
  <2> QED
    BY <2>1, Mapped
<1>7. sessions \in Seq(SessionType) /\ DOMAIN sessions = DOMAIN staff
  <2>1. \A i \in DOMAIN staff : SignedIn(staff[i]) \in SessionType
    BY <1>4, ANetIsNet DEF SignedIn, SessionType
  <2>2. sessions \in [DOMAIN staff -> SessionType]
    BY <1>3, <2>1
  <2> QED
    BY <2>2, Mapped
<1>8. account \in [User -> Known] /\ \A i \in DOMAIN staff : account[staff[i]] = "active"
  BY <1>3, <1>4 DEF Known
<1>9. /\ \A i \in DOMAIN admins : admins[i].user = staff[i]
      /\ \A i \in DOMAIN sessions : sessions[i].user = staff[i] /\ sessions[i].link = 0
  BY <1>3, <1>6, <1>7 DEF AdminRow, SignedIn
<1>10. Tables
  BY <1>3, <1>4, <1>5, <1>6, <1>7, <1>8, <1>9 DEF Tables
<1>11. \A r \in Req : ~Running(r)
  BY <1>3 DEF Running
<1> QED
  BY <1>3, <1>10, <1>11 DEF IInv, Fine, Exclusive

LEMMA NextIInv == IInv /\ [Next]_vars => IInv'
<1> SUFFICES ASSUME IInv, [Next]_vars PROVE IInv'
  OBVIOUS
<1>1. CASE Next
  BY <1>1, NextWindowKeeps, LoginKeeps, CountNetworkKeeps, CountAddressKeeps, IssueLinkKeeps,
     VerifyKeeps, CountVerifyKeeps, LoadUserKeeps, SaveKeeps, OpenSessionKeeps, AdminRequestsKeep,
     CommitGrantKeeps, CommitRevokeKeeps, CommitToggleKeeps, RefuseKeeps, CrashKeeps
     DEF Next
<1>2. CASE UNCHANGED vars
  <2>1. Tables' /\ Grows
    BY <1>2, CountersAreSeqs DEF vars, IInv, Tables, Grows
  <2>2. \A r \in Req : Fine(r)'
    BY <1>2, <2>1, FineStays DEF vars
  <2> QED
    BY <1>2, <2>1, <2>2 DEF vars, IInv, Exclusive, Running
<1> QED
  BY <1>1, <1>2

LEMMA Invariance == Spec => []IInv
  BY InitIInv, NextIInv, PTL DEF Spec

\* Rows and requests stay within their types, and admins and sessions are of
\* people with an account.
THEOREM TypeCorrect == Spec => []TypeOK
<1>1. IInv => TypeOK
  BY DEF IInv, Tables, TypeOK, Busy, Known, AdminType, TokenType, SessionType
<1> QED
  BY <1>1, Invariance, PTL

-----------------------------------------------------------------------------
(* Sessions of a disabled account.                                         *)

\* What an admin asked for is not changed by what others do.
AdminKind == {"grant", "revoke", "toggle"}

\* A request under way in q, of those kinds, is the one that was.
SameRequest(q) ==
    (req'[q] # Idle /\ req'[q].kind \in AdminKind) =>
        /\ Running(q) /\ req[q].kind = req'[q].kind
        /\ req[q].kind # "grant" => req'[q] = req[q]

LEMMA EndedRequests ==
    ASSUME IInv, NEW r \in Req, req' = [req EXCEPT ![r] = Idle]
    PROVE  \A q \in Req : req'[q] # Idle => q # r /\ Running(q) /\ req'[q] = req[q]
  BY DEF IInv, Running

\* Every other step leaves accounts, admins and sessions alone, and begins
\* nothing for an admin.
Elsewhere ==
    /\ UNCHANGED <<account, admins, sessions, stale>>
    /\ \A q \in Req : SameRequest(q)

LEMMA Steps ==
    ASSUME IInv, [Next]_vars
    PROVE  \/ Elsewhere
           \/ \E r \in Req : OpenSession(r) \/ CommitGrant(r) \/ CommitRevoke(r) \/ CommitToggle(r)
           \/ \E r \in Req : Grant(r) \/ Revoke(r) \/ Toggle(r)
<1>1. ASSUME NEW r \in Req, NEW x, Begin(r, x) \/ Goes(r, x), x.kind \notin AdminKind
      PROVE  Elsewhere
  BY <1>1 DEF Begin, Goes, Elsewhere, SameRequest, Running, IInv
<1>2. ASSUME NEW r \in Req, NEW x, Goes(r, x), Running(r), x.kind = "grant", req[r].kind = "grant"
      PROVE  Elsewhere
  BY <1>2 DEF Goes, Elsewhere, SameRequest, Running, IInv
<1>3. ASSUME NEW r \in Req, Login(r) \/ Verify(r) PROVE Elsewhere
  <2>1. CASE Login(r)
    <3>1. PICK u \in User, n \in Net :
            Begin(r, [Request("login", "network", u, n) EXCEPT
                        !.count = Found(BucketOf(Request("login", "network", u, n)))])
      BY <2>1 DEF Login
    <3> DEFINE x == [Request("login", "network", u, n) EXCEPT
                       !.count = Found(BucketOf(Request("login", "network", u, n)))]
    <3>2. x.kind = "login" /\ Begin(r, x)
      BY <3>1 DEF Request
    <3> HIDE DEF x
    <3> QED
      BY <1>1, <3>2 DEF AdminKind
  <2>2. CASE Verify(r)
    <3>1. PICK ids \in {{}} \union {{i} : i \in DOMAIN tokens}, u \in User, n \in Net :
            Begin(r, [Request("verify", "network", u, n) EXCEPT
                        !.count = Found(BucketOf(Request("verify", "network", u, n))), !.ids = ids])
      BY <2>2 DEF Verify
    <3> DEFINE x == [Request("verify", "network", u, n) EXCEPT
                       !.count = Found(BucketOf(Request("verify", "network", u, n))), !.ids = ids]
    <3>2. x.kind = "verify" /\ Begin(r, x)
      BY <3>1 DEF Request
    <3> HIDE DEF x
    <3> QED
      BY <1>1, <3>2 DEF AdminKind
  <2> QED
    BY <1>3, <2>1, <2>2
<1>4. ASSUME NEW r \in Req, CountNetwork(r) \/ CountAddress(r) \/ CountVerify(r) \/ LoadUser(r)
      PROVE  Elsewhere
  <2>1. /\ Running(r) /\ req[r] \in Busy /\ AtFine(req[r])
        /\ req[r].at \in {"network", "address", "using"}
    BY <1>4, BusyFacts DEF CountNetwork, CountAddress, CountVerify, LoadUser
  <2>2. req[r].kind \notin AdminKind
    BY <2>1 DEF AtFine, AdminKind
  <2> DEFINE y == Hit(r)
             z == [y EXCEPT !.at = "address"]
  <2>3. /\ y.kind = req[r].kind /\ z.kind = req[r].kind
        /\ \A at : /\ [y EXCEPT !.at = at].kind = req[r].kind
                   /\ [z EXCEPT !.at = at].kind = req[r].kind
        /\ \A c : [z EXCEPT !.count = c].kind = req[r].kind
    BY <2>1 DEF Hit, Busy
  <2>4. Idle.kind \notin AdminKind
    BY DEF Idle, AdminKind
  <2>5. CASE CountNetwork(r)
    <3>1. \/ Goes(r, [z EXCEPT !.at = "refusing"]) \/ Goes(r, Idle)
          \/ Goes(r, [z EXCEPT !.count = Found(BucketOf(z))])
      BY <2>5 DEF CountNetwork
    <3> HIDE DEF y, z
    <3> QED
      BY <1>1, <2>2, <2>3, <2>4, <3>1
  <2>6. CASE CountAddress(r)
    <3>1. PICK at \in {"refusing", "writing"} :
            Goes(r, [y EXCEPT !.at = at, !.ids = OpenLinks(req[r].user)])
      BY <2>6 DEF CountAddress
    <3> DEFINE x == [y EXCEPT !.at = at, !.ids = OpenLinks(req[r].user)]
    <3>2. x.kind = req[r].kind /\ Goes(r, x)
      BY <2>1, <3>1 DEF Hit, Busy
    <3> HIDE DEF x, y, z
    <3> QED
      BY <1>1, <2>2, <3>2
  <2>7. CASE CountVerify(r)
    <3>1. PICK at \in {"refusing", "using"} : Goes(r, [y EXCEPT !.at = at])
      BY <2>7 DEF CountVerify
    <3> HIDE DEF y, z
    <3> QED
      BY <1>1, <2>2, <2>3, <3>1
  <2>8. CASE LoadUser(r)
    <3>1. PICK at \in {"writing", "saving"} :
            Goes(r, [req[r] EXCEPT !.known = account[req[r].user], !.at = at])
      BY <2>8 DEF LoadUser
    <3> DEFINE x == [req[r] EXCEPT !.known = account[req[r].user], !.at = at]
    <3>2. x.kind = req[r].kind /\ Goes(r, x)
      BY <2>1, <3>1 DEF Busy
    <3> HIDE DEF x, y, z
    <3> QED
      BY <1>1, <2>2, <3>2
  <2> QED
    BY <1>4, <2>5, <2>6, <2>7, <2>8
<1>5. ASSUME NEW r \in Req, Save(r) PROVE Elsewhere
  <2>1. Running(r) /\ req[r] \in Busy /\ req[r].kind \in {"verify", "grant"}
    BY <1>5, SaveFacts
  <2>2. CASE Goes(r, Idle)
    BY <1>1, <2>2 DEF Idle, AdminKind
  <2>3. ASSUME NEW saved \in BOOLEAN, NEW grants \in BOOLEAN,
               Goes(r, [req[r] EXCEPT !.at = "writing", !.saved = saved, !.grants = grants])
        PROVE  Elsewhere
    <3> DEFINE x == [req[r] EXCEPT !.at = "writing", !.saved = saved, !.grants = grants]
    <3>1. x.kind = req[r].kind /\ Goes(r, x)
      BY <2>1, <2>3 DEF Busy
    <3> HIDE DEF x
    <3> QED
      BY <1>1, <1>2, <2>1, <3>1 DEF AdminKind
  <2> QED
    BY <1>5, <2>2, <2>3, SaveFacts
<1>6. ASSUME NEW r \in Req, Crash(r) \/ Refuse(r) \/ IssueLink(r) PROVE Elsewhere
  <2>1. /\ UNCHANGED <<account, admins, sessions, stale>>
        /\ req' = [req EXCEPT ![r] = Idle]
    BY <1>6 DEF Crash, Refuse, IssueLink, Goes, Ends
  <2> QED
    BY <2>1, EndedRequests DEF Elsewhere, SameRequest
<1>7. CASE NextWindow \/ UNCHANGED vars
  BY <1>7 DEF NextWindow, vars, Elsewhere, SameRequest, Running
<1> QED
  BY <1>3, <1>4, <1>5, <1>6, <1>7 DEF Next

\* A toggle under way signs out every session it does not know to be late.
Toggling(q) == Running(q) /\ req[q].kind = "toggle" /\ req[q].known = "active"

KnowsSessions ==
    \A q \in Req : Toggling(q) =>
        \A i \in DOMAIN sessions :
            sessions[i].user = req[q].user /\ ~sessions[i].revoked
                => i \in req[q].ids \/ sessions[i].late

SignedOut == SignedOutUnlessLate /\ KnowsSessions

LEMMA SignedOutStays ==
    ASSUME IInv, SignedOut, UNCHANGED sessions,
           \A u \in User : account'[u] = "disabled" => account[u] = "disabled",
           \A q \in Req : SameRequest(q)
    PROVE  SignedOut'
<1>1. SignedOutUnlessLate'
  BY AdminsAreUsers DEF IInv, SignedOut, SignedOutUnlessLate
<1>2. KnowsSessions'
  BY DEF SignedOut, KnowsSessions, Toggling, SameRequest, Running, AdminKind
<1> QED
  BY <1>1, <1>2 DEF SignedOut

LEMMA SignedOutKept == IInv /\ SignedOut /\ [Next]_vars => SignedOut'
<1> SUFFICES ASSUME IInv, SignedOut, [Next]_vars PROVE SignedOut'
  OBVIOUS
<1>1. CASE Elsewhere
  BY <1>1, SignedOutStays DEF Elsewhere
<1>2. ASSUME NEW r \in Req, OpenSession(r) PROVE SignedOut'
  <2>1. /\ req' = [req EXCEPT ![r] = Idle] /\ req[r] \in Busy /\ req[r].user \in User
    BY <1>2, OpenSessionFacts DEF Ends, Busy
  <2>2. \A q \in Req : SameRequest(q)
    BY <2>1, EndedRequests DEF SameRequest
  <2>3. CASE UNCHANGED <<account, admins, sessions>>
    BY <2>2, <2>3, SignedOutStays
  <2>4. CASE ~ UNCHANGED <<account, admins, sessions>>
    <3>1. /\ account' = [account EXCEPT ![req[r].user] =
                           IF req[r].known = "none" THEN "active" ELSE @]
          /\ account \in [User -> Known]
      BY <1>2, <2>4, OpenSessionFacts DEF IInv, Tables
    <3>2. PICK x \in SessionType :
            /\ sessions' = Append(sessions, x)
            /\ x.user = req[r].user /\ x.late = Late(r)
      BY <1>2, <2>4, OpenSessionFacts
    <3>3. /\ \A i \in DOMAIN sessions : sessions'[i] = sessions[i]
          /\ sessions'[Len(sessions) + 1] = x
          /\ \A i \in DOMAIN sessions' : i \in DOMAIN sessions \/ i = Len(sessions) + 1
      <4>1. sessions \in Seq(SessionType)
        BY DEF IInv, Tables
      <4> QED
        BY <3>2, <4>1, Appended
    <3>4. \A u \in User : account'[u] = "disabled" => account[u] = "disabled"
      BY <2>1, <3>1
    <3>5. account[req[r].user] = "disabled" => x.late
      BY <3>2 DEF Late
    <3>6. SignedOutUnlessLate'
      BY <2>1, <3>2, <3>3, <3>4, <3>5, AdminsAreUsers DEF IInv, SignedOut, SignedOutUnlessLate
    <3>7. \A q \in Req : Toggling(q)' => Toggling(q) /\ req'[q] = req[q]
      BY <2>2 DEF Toggling, SameRequest, Running, AdminKind
    <3>8. \A q \in Req : Toggling(q) /\ req[q].user = req[r].user => x.late
      BY <3>2 DEF Toggling, Late
    <3>9. KnowsSessions'
      BY <3>2, <3>3, <3>7, <3>8 DEF SignedOut, KnowsSessions
    <3> QED
      BY <3>6, <3>9 DEF SignedOut
  <2> QED
    BY <2>3, <2>4
<1>3. ASSUME NEW r \in Req, CommitGrant(r) \/ CommitRevoke(r) PROVE SignedOut'
  <2>1. /\ UNCHANGED sessions /\ req' = [req EXCEPT ![r] = Idle]
        /\ \/ UNCHANGED account
           \/ account' = [account EXCEPT ![req[r].user] =
                            IF req[r].known = "none" THEN "active" ELSE @]
    BY <1>3 DEF CommitGrant, CommitRevoke, Ends
  <2>2. \A u \in User : account'[u] = "disabled" => account[u] = "disabled"
    BY <2>1 DEF IInv, Tables
  <2> QED
    BY <2>1, <2>2, EndedRequests, SignedOutStays DEF SameRequest
<1>4. ASSUME NEW r \in Req, CommitToggle(r) PROVE SignedOut'
  <2>1. /\ Running(r) /\ req' = [req EXCEPT ![r] = Idle] /\ req[r] \in Busy /\ req[r].kind = "toggle"
        /\ account' = [account EXCEPT ![req[r].user] =
                         IF req[r].known = "active" THEN "disabled" ELSE "active"]
        /\ DOMAIN sessions' = DOMAIN sessions
        /\ \A i \in DOMAIN sessions :
             /\ sessions'[i].user = sessions[i].user
             /\ sessions'[i].late = sessions[i].late
             /\ sessions'[i].revoked =
                  (sessions[i].revoked \/ (req[r].known = "active" /\ i \in req[r].ids))
    BY <1>4, ToggledFacts DEF Ends
  <2>2. /\ req[r].user \in User /\ account \in [User -> Known]
        /\ \A i \in DOMAIN sessions : sessions[i].user \in User
    BY <2>1, AdminsAreUsers DEF Busy, IInv, Tables
  <2>3. req[r].known = "active" => Toggling(r)
    BY <2>1 DEF Toggling
  <2>4. SignedOutUnlessLate'
    <3> SUFFICES ASSUME NEW i \in DOMAIN sessions, account'[sessions[i].user] = "disabled",
                        ~sessions'[i].revoked
                 PROVE  sessions[i].late
      BY <2>1 DEF SignedOutUnlessLate
    <3>1. CASE sessions[i].user = req[r].user
      BY <2>1, <2>2, <2>3, <3>1 DEF SignedOut, KnowsSessions
    <3>2. CASE sessions[i].user # req[r].user
      BY <2>1, <2>2, <3>2 DEF SignedOut, SignedOutUnlessLate
    <3> QED
      BY <3>1, <3>2
  <2>5. \A q \in Req : Toggling(q)' => Toggling(q) /\ req'[q] = req[q]
    BY <2>1, EndedRequests DEF Toggling, Running
  <2>6. KnowsSessions'
    BY <2>1, <2>5 DEF SignedOut, KnowsSessions
  <2> QED
    BY <2>4, <2>6 DEF SignedOut
<1>5. ASSUME NEW r \in Req, Grant(r) \/ Revoke(r) \/ Toggle(r) PROVE SignedOut'
  <2>1. PICK x \in Busy :
          /\ Begin(r, x)
          /\ x.kind = "toggle" => x.ids = OpenSessions(x.user)
    BY <1>5, AdminRequests
  <2>2. /\ UNCHANGED <<sessions, account>> /\ req'[r] = x
        /\ \A q \in Req \ {r} : req'[q] = req[q]
    BY <2>1 DEF Begin, IInv
  <2>3. SignedOutUnlessLate'
    BY <2>2 DEF SignedOut, SignedOutUnlessLate
  <2>4. KnowsSessions'
    BY <2>1, <2>2 DEF SignedOut, KnowsSessions, Toggling, Running, OpenSessions
  <2> QED
    BY <2>3, <2>4 DEF SignedOut
<1> QED
  BY <1>1, <1>2, <1>3, <1>4, <1>5, Steps

\* A session that enabling the account would bring back was opened by a sign-in
\* that overlapped the disabling.
THEOREM SignedOutWhenDisabled == Spec => []SignedOutUnlessLate
<1>1. Init => SignedOut
  <2> SUFFICES ASSUME Init PROVE SignedOut
    OBVIOUS
  <2>1. \A r \in Req : ~Running(r)
    BY DEF Init, InitWith, Running
  <2>2. \A u \in User : account[u] # "disabled"
    <3>1. PICK staff : InitWith(staff)
      BY DEF Init
    <3> QED
      BY <3>1 DEF InitWith
  <2>3. IInv
    BY InitIInv
  <2> QED
    BY <2>1, <2>2, <2>3, AdminsAreUsers DEF IInv, SignedOut, SignedOutUnlessLate, KnowsSessions, Toggling
<1>2. SignedOut => SignedOutUnlessLate
  BY DEF SignedOut
<1> QED
  BY <1>1, <1>2, SignedOutKept, Invariance, PTL DEF Spec

-----------------------------------------------------------------------------
(* An admin remains.                                                       *)

Admin(q) == Running(q) /\ req[q].kind \in AdminKind

\* Without an admin row nobody was disabled and nobody acts as an admin; who
\* revokes or disables does it to somebody else.
Orderly ==
    /\ AdminUnlessStale
    /\ admins = <<>> => /\ \A u \in User : account[u] # "disabled"
                        /\ \A q \in Req : ~Admin(q)
    /\ \A q \in Req : Admin(q) /\ req[q].kind # "grant" =>
         /\ req[q].by # req[q].user
         /\ req[q].kind = "revoke" =>
              \E i \in DOMAIN admins : req[q].ids = {i} /\ admins[i].user = req[q].user

LEMMA NotEmpty ==
    ASSUME NEW S, NEW q \in Seq(S), q # <<>> PROVE \E i \in DOMAIN q : TRUE
<1>1. Len(q) \in Nat /\ Len(q) # 0 /\ DOMAIN q = 1 .. Len(q)
  OBVIOUS
<1>2. 1 \in DOMAIN q
  BY <1>1
<1> QED
  BY <1>2

LEMMA StillAdmin ==
    ASSUME NEW u, NEW i \in Rows(u), IsAdmin(u), account'[u] = "active",
           i \in DOMAIN admins', admins'[i].user = u, admins'[i].active
    PROVE  IsAdmin(u)'
  BY DEF IsAdmin, Rows

\* Whoever was an admin still is when rows are only added and nobody is disabled.
LEMMA AdminsStay ==
    ASSUME NEW u \in User, IsAdmin(u), account'[u] = "active",
           \A i \in DOMAIN admins : i \in DOMAIN admins' /\ admins'[i] = admins[i]
    PROVE  IsAdmin(u)'
<1>1. PICK i \in Rows(u) : TRUE
  BY DEF IsAdmin
<1>2. i \in DOMAIN admins /\ admins[i].user = u /\ admins[i].active
  BY DEF Rows
<1> QED
  BY <1>2, StillAdmin

\* Requests that go on as they were keep their part of it.
LEMMA OrderlyStays ==
    ASSUME Orderly, NEW r \in Req, \A q \in Req : SameRequest(q),
           \A q \in Req : Admin(q)' => Admin(q) /\ req'[q].kind = req[q].kind,
           AdminUnlessStale', DOMAIN admins \subseteq DOMAIN admins',
           \A i \in DOMAIN admins : admins'[i].user = admins[i].user,
           admins' = <<>> => /\ admins = <<>>
                             /\ \A u \in User : account'[u] = "disabled" => account[u] = "disabled"
    PROVE  Orderly'
<1>1. ASSUME NEW q \in Req, Admin(q)', req'[q].kind # "grant"
      PROVE  /\ req'[q].by # req'[q].user
             /\ req'[q].kind = "revoke" =>
                  \E i \in DOMAIN admins' : req'[q].ids = {i} /\ admins'[i].user = req'[q].user
  <2>1. Admin(q) /\ req'[q] = req[q] /\ req[q].kind # "grant"
    BY <1>1 DEF SameRequest, Admin, Running
  <2> QED
    BY <2>1 DEF Orderly
<1>2. admins' = <<>> => /\ \A u \in User : account'[u] # "disabled"
                        /\ \A q \in Req : ~Admin(q)'
  BY DEF Orderly
<1> QED
  BY <1>1, <1>2 DEF Orderly

LEMMA AdminsGoOn ==
    ASSUME NEW q \in Req, SameRequest(q)
    PROVE  Admin(q)' => Admin(q) /\ req'[q].kind = req[q].kind
  BY DEF SameRequest, Admin, Running

LEMMA EndedIsSame ==
    ASSUME IInv, NEW r \in Req, req' = [req EXCEPT ![r] = Idle]
    PROVE  \A q \in Req : SameRequest(q)
  BY EndedRequests DEF SameRequest

LEMMA OrderlyKept == IInv /\ Orderly /\ [Next]_vars => Orderly'
<1> SUFFICES ASSUME IInv, Orderly, [Next]_vars PROVE Orderly'
  OBVIOUS
<1>1. CASE Elsewhere
  <2>1. AdminUnlessStale'
    BY <1>1 DEF Elsewhere, Orderly, AdminUnlessStale, IsAdmin, Rows
  <2>2. CASE Req = {}
    BY <1>1, <2>1, <2>2 DEF Orderly, Elsewhere
  <2>3. CASE Req # {}
    BY <1>1, <2>1, <2>3, OrderlyStays, AdminsGoOn DEF Elsewhere
  <2> QED
    BY <2>2, <2>3
<1>2. ASSUME NEW r \in Req, OpenSession(r) PROVE Orderly'
  <2>1. /\ req' = [req EXCEPT ![r] = Idle] /\ UNCHANGED stale
        /\ req[r] \in Busy /\ req[r].user \in User
        /\ account \in [User -> Known] /\ admins \in Seq(AdminType)
    BY <1>2, OpenSessionFacts DEF Ends, Busy, IInv, Tables
  <2>2. \A q \in Req : SameRequest(q)
    BY <2>1, EndedIsSame
  <2>3. CASE UNCHANGED <<account, admins, sessions>>
    <3>1. AdminUnlessStale'
      BY <2>1, <2>3 DEF Orderly, AdminUnlessStale, IsAdmin, Rows
    <3> QED
      BY <2>2, <2>3, <3>1, OrderlyStays, AdminsGoOn
  <2>4. CASE ~ UNCHANGED <<account, admins, sessions>>
    <3> DEFINE y == AdminRow(req[r].user, "bootstrap")
    <3>1. /\ account' = [account EXCEPT ![req[r].user] =
                           IF req[r].known = "none" THEN "active" ELSE @]
          /\ account'[req[r].user] # "none"
          /\ UNCHANGED admins \/ admins' = Append(admins, y)
      BY <1>2, <2>4, OpenSessionFacts
    <3>2. /\ \A u \in User : account'[u] = "disabled" => account[u] = "disabled"
          /\ \A u \in User : account[u] = "active" => account'[u] = "active"
          /\ account' \in [User -> Known]
      BY <2>1, <3>1 DEF Known
    <3>3. y.user = req[r].user /\ y.active /\ y \in AdminType
      BY <2>1 DEF AdminRow, AdminType
    <3> HIDE DEF y
    <3>4. /\ \A i \in DOMAIN admins : i \in DOMAIN admins' /\ admins'[i] = admins[i]
          /\ admins' # <<>> /\ admins = <<>> =>
               \E i \in DOMAIN admins' : admins'[i] = y
      <4>1. CASE UNCHANGED admins
        BY <4>1
      <4>2. CASE admins' = Append(admins, y)
        <5>1. /\ DOMAIN admins \subseteq DOMAIN admins'
              /\ \A i \in DOMAIN admins : admins'[i] = admins[i]
              /\ admins'[Len(admins) + 1] = y /\ DOMAIN admins' = 1 .. Len(admins) + 1
              /\ Len(admins) \in Nat
          BY <2>1, <3>3, <4>2, Appended
        <5>2. Len(admins) + 1 \in DOMAIN admins'
          BY <5>1
        <5> QED
          BY <5>1, <5>2
      <4> QED
        BY <3>1, <4>1, <4>2
    <3>5. AdminUnlessStale'
      <4> SUFFICES ASSUME admins' # <<>>, ~stale PROVE \E u \in User : IsAdmin(u)'
        BY <2>1 DEF AdminUnlessStale
      <4>1. CASE admins # <<>>
        <5>1. PICK u \in User : IsAdmin(u)
          BY <4>1 DEF Orderly, AdminUnlessStale
        <5>2. account'[u] = "active"
          BY <3>2, <5>1 DEF IsAdmin
        <5> QED
          BY <3>4, <5>1, <5>2, AdminsStay
      <4>2. CASE admins = <<>>
        <5>1. account'[req[r].user] # "disabled"
          BY <2>1, <3>2, <4>2 DEF Orderly
        <5>2. account'[req[r].user] = "active"
          BY <2>1, <3>1, <3>2, <5>1 DEF Known
        <5> QED
          BY <2>1, <3>3, <3>4, <4>2, <5>2 DEF IsAdmin, Rows
      <4> QED
        BY <4>1, <4>2
    <3>6. admins' = <<>> => admins = <<>>
      <4>1. admins # <<>> => \E i \in DOMAIN admins : TRUE
        BY <2>1, NotEmpty
      <4>2. DOMAIN <<>> = {}
        OBVIOUS
      <4> QED
        BY <3>4, <4>1, <4>2
    <3> QED
      BY <2>2, <3>2, <3>4, <3>5, <3>6, OrderlyStays, AdminsGoOn
  <2> QED
    BY <2>3, <2>4
<1>3. ASSUME NEW r \in Req, Running(r), req[r].kind \in AdminKind,
             req' = [req EXCEPT ![r] = Idle], ActsStale(r),
             NEW u \in User, u = req[r].by, IsAdmin(u) => IsAdmin(u)',
             DOMAIN admins \subseteq DOMAIN admins',
             \A i \in DOMAIN admins : admins'[i].user = admins[i].user
      PROVE  Orderly'
  <2>1. admins # <<>>
    BY <1>3 DEF Orderly, Admin
  <2>2. AdminUnlessStale'
    <3>1. CASE IsAdmin(u)
      BY <1>3, <3>1 DEF AdminUnlessStale
    <3>2. CASE ~IsAdmin(u)
      BY <1>3, <3>2 DEF AdminUnlessStale, ActsStale
    <3> QED
      BY <3>1, <3>2
  <2>3. admins' # <<>>
    <3>1. admins \in Seq(AdminType)
      BY DEF IInv, Tables
    <3>2. \E i \in DOMAIN admins : TRUE
      BY <2>1, <3>1, NotEmpty
    <3>3. DOMAIN <<>> = {}
      OBVIOUS
    <3> QED
      BY <1>3, <3>2, <3>3
  <2> QED
    BY <1>3, <2>2, <2>3, OrderlyStays, AdminsGoOn, EndedIsSame
<1>4. ASSUME NEW r \in Req, CommitGrant(r) PROVE Orderly'
  <2>1. /\ Running(r) /\ req[r].kind = "grant" /\ req' = [req EXCEPT ![r] = Idle] /\ ActsStale(r)
        /\ account' = [account EXCEPT ![req[r].user] = IF req[r].known = "none" THEN "active" ELSE @]
        /\ admins' = Append(admins, AdminRow(req[r].user, "grant"))
    BY <1>4 DEF CommitGrant, Commits, Ends
  <2>2. /\ req[r].user \in User /\ req[r].by \in User /\ account \in [User -> Known]
        /\ admins \in Seq(AdminType)
    BY <2>1, BusyFacts DEF Busy, IInv, Tables
  <2>3. /\ DOMAIN admins \subseteq DOMAIN admins'
        /\ \A i \in DOMAIN admins : admins'[i] = admins[i]
    <3> DEFINE y == AdminRow(req[r].user, "grant")
    <3>1. y \in AdminType
      BY <2>2 DEF AdminRow, AdminType
    <3> HIDE DEF y
    <3>2. admins' = Append(admins, y)
      BY <2>1 DEF y
    <3> QED
      BY <2>2, <3>1, <3>2, Appended
  <2>4. PICK u \in User : u = req[r].by
    BY <2>2
  <2>5. IsAdmin(u) => IsAdmin(u)'
    <3>1. account[u] = "active" => account'[u] = "active"
      BY <2>1, <2>2
    <3> QED
      BY <2>3, <3>1, AdminsStay DEF IsAdmin
  <2> QED
    BY <1>3, <2>1, <2>3, <2>4, <2>5 DEF AdminKind
<1>5. ASSUME NEW r \in Req, CommitRevoke(r) PROVE Orderly'
  <2>1. /\ Running(r) /\ req[r].kind = "revoke" /\ req' = [req EXCEPT ![r] = Idle] /\ ActsStale(r)
        /\ UNCHANGED account
    BY <1>5 DEF CommitRevoke, Commits, Ends
  <2>2. /\ DOMAIN admins' = DOMAIN admins
        /\ \A i \in DOMAIN admins : /\ admins'[i].user = admins[i].user
                                    /\ admins'[i].active = (admins[i].active /\ i \notin req[r].ids)
    BY <1>5, RevokedFacts
  <2>3. PICK k \in DOMAIN admins : /\ req[r].ids = {k} /\ admins[k].user = req[r].user
                                   /\ req[r].by # req[r].user
    BY <2>1 DEF Orderly, Admin, AdminKind
  <2>4. PICK u \in User : u = req[r].by
    BY <2>1, BusyFacts DEF Busy
  <2>5. ASSUME IsAdmin(u) PROVE IsAdmin(u)'
    <3>1. PICK i \in Rows(u) : TRUE
      BY <2>5 DEF IsAdmin
    <3>2. i \in DOMAIN admins /\ admins[i].user = u /\ admins[i].active /\ i # k
      BY <2>3, <2>4 DEF Rows
    <3>3. account'[u] = "active"
      BY <2>1, <2>5 DEF IsAdmin
    <3>4. admins'[i].user = u /\ admins'[i].active
      BY <2>2, <2>3, <3>2
    <3> QED
      BY <2>2, <2>5, <3>2, <3>3, <3>4, StillAdmin
  <2> QED
    BY <1>3, <2>1, <2>2, <2>4, <2>5 DEF AdminKind
<1>6. ASSUME NEW r \in Req, CommitToggle(r) PROVE Orderly'
  <2>1. /\ Running(r) /\ req[r].kind = "toggle" /\ req' = [req EXCEPT ![r] = Idle] /\ ActsStale(r)
        /\ UNCHANGED admins /\ req[r] \in Busy
        /\ account' = [account EXCEPT ![req[r].user] =
                         IF req[r].known = "active" THEN "disabled" ELSE "active"]
    BY <1>6, ToggledFacts DEF Ends
  <2>2. req[r].by # req[r].user /\ req[r].by \in User /\ account \in [User -> Known]
    BY <2>1 DEF Orderly, Admin, AdminKind, Busy, IInv, Tables
  <2>3. PICK u \in User : u = req[r].by
    BY <2>2
  <2>4. account'[u] = account[u]
    BY <2>1, <2>2, <2>3
  <2>5. IsAdmin(u) => IsAdmin(u)'
    BY <2>1, <2>4 DEF IsAdmin, Rows
  <2> QED
    BY <1>3, <2>1, <2>3, <2>5 DEF AdminKind
<1>7. ASSUME NEW r \in Req, Grant(r) \/ Revoke(r) \/ Toggle(r) PROVE Orderly'
  <2>1. PICK x \in Busy :
          /\ Begin(r, x) /\ IsAdmin(x.by)
          /\ x.kind # "grant" => x.by # x.user
          /\ x.kind = "revoke" => \E i \in DOMAIN admins : x.ids = {i} /\ admins[i].user = x.user
    BY <1>7, AdminRequests DEF Authorised
  <2>2. /\ UNCHANGED <<account, admins, stale>> /\ req'[r] = x
        /\ \A q \in Req \ {r} : req'[q] = req[q]
    BY <2>1 DEF Begin, IInv
  <2>3. admins # <<>>
    <3>1. Rows(x.by) # {}
      BY <2>1 DEF IsAdmin
    <3>2. DOMAIN <<>> = {}
      OBVIOUS
    <3> QED
      BY <3>1, <3>2 DEF Rows
  <2>4. AdminUnlessStale'
    BY <2>2 DEF Orderly, AdminUnlessStale, IsAdmin, Rows
  <2>5. ASSUME NEW q \in Req, Admin(q)', req'[q].kind # "grant"
        PROVE  /\ req'[q].by # req'[q].user
               /\ req'[q].kind = "revoke" =>
                    \E i \in DOMAIN admins' : req'[q].ids = {i} /\ admins'[i].user = req'[q].user
    <3>1. CASE q = r
      BY <2>1, <2>2, <2>5, <3>1
    <3>2. CASE q # r
      BY <2>2, <2>5, <3>2 DEF Orderly, Admin, Running
    <3> QED
      BY <3>1, <3>2
  <2> QED
    BY <2>2, <2>3, <2>4, <2>5 DEF Orderly
<1> QED
  BY <1>1, <1>2, <1>4, <1>5, <1>6, <1>7, Steps

\* An installation that has had an admin has one who is not disabled, unless
\* somebody acted as an admin who was no longer one.
THEOREM AdminKept == Spec => []AdminUnlessStale
<1>1. Init => Orderly
  <2> SUFFICES ASSUME Init PROVE Orderly
    OBVIOUS
  <2>1. IInv
    BY InitIInv
  <2>2. PICK staff : InitWith(staff) /\ staff \in Seq(User)
    <3>1. <<>> \in Seq(User) /\ \A u \in User : <<Bootstrap, u>> \in Seq(User)
      BY AccessTxAssumption
    <3> QED
      BY <3>1 DEF Init
  <2>3. /\ account = [u \in User |-> IF \E i \in DOMAIN staff : staff[i] = u THEN "active" ELSE "none"]
        /\ admins = [i \in DOMAIN staff |-> AdminRow(staff[i], IF i = 1 THEN "bootstrap" ELSE "grant")]
        /\ req = [r \in Req |-> Idle]
    BY <2>2 DEF InitWith
  <2>4. /\ \A q \in Req : ~Admin(q)
        /\ \A u \in User : account[u] # "disabled"
    BY <2>3 DEF Admin, Running
  <2>5. AdminUnlessStale
    <3> SUFFICES ASSUME admins # <<>> PROVE \E u \in User : IsAdmin(u)
      BY DEF AdminUnlessStale
    <3>1. admins \in Seq(AdminType)
      BY <2>1 DEF IInv, Tables
    <3>2. PICK i \in DOMAIN admins : TRUE
      BY <3>1, NotEmpty
    <3>3. i \in DOMAIN staff /\ staff[i] \in User
      BY <2>2, <2>3
    <3>4. admins[i].user = staff[i] /\ admins[i].active /\ account[staff[i]] = "active"
      BY <2>3, <3>3 DEF AdminRow
    <3> QED
      BY <3>2, <3>3, <3>4 DEF IsAdmin, Rows
  <2> QED
    BY <2>4, <2>5 DEF Orderly
<1>2. Orderly => AdminUnlessStale
  BY DEF Orderly
<1> QED
  BY <1>1, <1>2, OrderlyKept, Invariance, PTL DEF Spec

-----------------------------------------------------------------------------
(* The role of the bootstrap admin.                                        *)

BootRows == {i \in ActiveRows : admins[i].by = "bootstrap"}

\* A sign-in that is going to grant him the role.
Granting(q) == Running(q) /\ req[q].kind = "verify" /\ req[q].grants

\* There is one at a time, since it has the row of the user, and no row before it.
GrantsOnce ==
    /\ \A i, j \in BootRows : i = j
    /\ \A q \in Req : Granting(q) => /\ req[q].at = "writing" /\ req[q].saved
                                     /\ req[q].user = Bootstrap /\ BootRows = {}
    /\ \A r, q \in Req : Granting(r) /\ Granting(q) => r = q

GrantGoesOn(q) == Granting(q)' => Granting(q) /\ req'[q] = req[q]

LEMMA GrantsStay ==
    ASSUME GrantsOnce, \A q \in Req : GrantGoesOn(q), BootRows' \subseteq BootRows
    PROVE  GrantsOnce'
  BY DEF GrantsOnce, GrantGoesOn

\* No step but Save and the commit has to do with it.
LEMMA GrantSteps ==
    ASSUME IInv, GrantsOnce, [Next]_vars
    PROVE  (\E r \in Req : Save(r)) \/ \A q \in Req : GrantGoesOn(q)
<1>1. ASSUME NEW r \in Req, NEW x, Begin(r, x), x.kind = "verify" => ~x.grants
      PROVE  \A q \in Req : GrantGoesOn(q)
  BY <1>1 DEF Begin, GrantGoesOn, Granting, Running, IInv
<1>2. ASSUME NEW r \in Req, NEW x, Goes(r, x), Running(r), req[r].at # "writing",
             x.kind = req[r].kind, x.grants = req[r].grants
      PROVE  \A q \in Req : GrantGoesOn(q)
  <2>1. ~Granting(r)
    BY <1>2 DEF GrantsOnce
  <2> QED
    BY <1>2, <2>1 DEF Goes, GrantGoesOn, Granting, Running, IInv
<1>3. ASSUME NEW r \in Req, req' = [req EXCEPT ![r] = Idle]
      PROVE  \A q \in Req : GrantGoesOn(q)
  BY <1>3, EndedRequests DEF GrantGoesOn, Granting, Running
<1>4. ASSUME NEW r \in Req, Login(r) \/ Verify(r) PROVE \A q \in Req : GrantGoesOn(q)
  <2>1. CASE Login(r)
    <3>1. PICK u \in User, n \in Net :
            Begin(r, [Request("login", "network", u, n) EXCEPT
                        !.count = Found(BucketOf(Request("login", "network", u, n)))])
      BY <2>1 DEF Login
    <3> DEFINE x == [Request("login", "network", u, n) EXCEPT
                       !.count = Found(BucketOf(Request("login", "network", u, n)))]
    <3>2. x.kind = "login" /\ Begin(r, x)
      BY <3>1 DEF Request
    <3> HIDE DEF x
    <3> QED
      BY <1>1, <3>2
  <2>2. CASE Verify(r)
    <3>1. PICK ids \in {{}} \union {{i} : i \in DOMAIN tokens}, u \in User, n \in Net :
            Begin(r, [Request("verify", "network", u, n) EXCEPT
                        !.count = Found(BucketOf(Request("verify", "network", u, n))), !.ids = ids])
      BY <2>2 DEF Verify
    <3> DEFINE x == [Request("verify", "network", u, n) EXCEPT
                       !.count = Found(BucketOf(Request("verify", "network", u, n))), !.ids = ids]
    <3>2. ~x.grants /\ Begin(r, x)
      BY <3>1 DEF Request
    <3> HIDE DEF x
    <3> QED
      BY <1>1, <3>2
  <2> QED
    BY <1>4, <2>1, <2>2
<1>5. ASSUME NEW r \in Req, CountNetwork(r) \/ CountAddress(r) \/ CountVerify(r) \/ LoadUser(r)
      PROVE  \A q \in Req : GrantGoesOn(q)
  <2>1. Running(r) /\ req[r] \in Busy /\ req[r].at # "writing"
    BY <1>5, BusyFacts DEF CountNetwork, CountAddress, CountVerify, LoadUser
  <2>2. CASE Goes(r, Idle)
    BY <1>3, <2>2 DEF Goes
  <2>3. CASE \E x : Goes(r, x) /\ x.kind = req[r].kind /\ x.grants = req[r].grants
    BY <1>2, <2>1, <2>3
  <2> DEFINE y == Hit(r)
             z == [y EXCEPT !.at = "address"]
  <2>4. CASE CountNetwork(r)
    <3>1. \/ Goes(r, [z EXCEPT !.at = "refusing"]) \/ Goes(r, Idle)
          \/ Goes(r, [z EXCEPT !.count = Found(BucketOf(z))])
      BY <2>4 DEF CountNetwork
    <3>2. /\ [z EXCEPT !.at = "refusing"].kind = req[r].kind
          /\ [z EXCEPT !.at = "refusing"].grants = req[r].grants
          /\ [z EXCEPT !.count = Found(BucketOf(z))].kind = req[r].kind
          /\ [z EXCEPT !.count = Found(BucketOf(z))].grants = req[r].grants
      BY <2>1 DEF Hit, Busy
    <3> HIDE DEF z
    <3> QED
      BY <2>2, <2>3, <3>1, <3>2
  <2>5. CASE CountAddress(r)
    <3>1. PICK at \in {"refusing", "writing"} :
            Goes(r, [y EXCEPT !.at = at, !.ids = OpenLinks(req[r].user)])
      BY <2>5 DEF CountAddress
    <3> DEFINE x == [y EXCEPT !.at = at, !.ids = OpenLinks(req[r].user)]
    <3>2. Goes(r, x) /\ x.kind = req[r].kind /\ x.grants = req[r].grants
      BY <2>1, <3>1 DEF Hit, Busy
    <3> HIDE DEF x
    <3> QED
      BY <2>3, <3>2
  <2>6. CASE CountVerify(r)
    <3>1. PICK at \in {"refusing", "using"} : Goes(r, [y EXCEPT !.at = at])
      BY <2>6 DEF CountVerify
    <3> DEFINE x == [y EXCEPT !.at = at]
    <3>2. Goes(r, x) /\ x.kind = req[r].kind /\ x.grants = req[r].grants
      BY <2>1, <3>1 DEF Hit, Busy
    <3> HIDE DEF x
    <3> QED
      BY <2>3, <3>2
  <2>7. CASE LoadUser(r)
    <3>1. PICK at \in {"writing", "saving"} :
            Goes(r, [req[r] EXCEPT !.known = account[req[r].user], !.at = at])
      BY <2>7 DEF LoadUser
    <3> DEFINE x == [req[r] EXCEPT !.known = account[req[r].user], !.at = at]
    <3>2. Goes(r, x) /\ x.kind = req[r].kind /\ x.grants = req[r].grants
      BY <2>1, <3>1 DEF Busy
    <3> HIDE DEF x
    <3> QED
      BY <2>3, <3>2
  <2> QED
    BY <1>5, <2>4, <2>5, <2>6, <2>7
<1>6. ASSUME NEW r \in Req, Grant(r) \/ Revoke(r) \/ Toggle(r)
      PROVE  \A q \in Req : GrantGoesOn(q)
  <2>1. PICK x \in Busy : Begin(r, x) /\ ~x.grants
    BY <1>6, AdminRequests
  <2> QED
    BY <1>1, <2>1
<1>7. ASSUME NEW r \in Req,
             \/ Crash(r) \/ Refuse(r) \/ IssueLink(r) \/ OpenSession(r)
             \/ CommitGrant(r) \/ CommitRevoke(r) \/ CommitToggle(r)
      PROVE  \A q \in Req : GrantGoesOn(q)
  <2>1. req' = [req EXCEPT ![r] = Idle]
    BY <1>7 DEF Crash, Refuse, IssueLink, OpenSession, CommitGrant, CommitRevoke, CommitToggle,
                Goes, Ends
  <2> QED
    BY <1>3, <2>1
<1>8. CASE NextWindow \/ UNCHANGED vars
  BY <1>8 DEF NextWindow, vars, GrantGoesOn, Granting, Running
<1> QED
  BY <1>4, <1>5, <1>6, <1>7, <1>8 DEF Next

LEMMA GrantsKept == IInv /\ GrantsOnce /\ [Next]_vars => GrantsOnce'
<1> SUFFICES ASSUME IInv, GrantsOnce, [Next]_vars PROVE GrantsOnce'
  OBVIOUS
<1>1. ASSUME NEW r \in Req, Save(r) PROVE GrantsOnce'
  <2>1. UNCHANGED admins
    BY <1>1 DEF Save, Goes
  <2>2. BootRows' = BootRows
    BY <2>1 DEF BootRows, ActiveRows
  <2>3. CASE Goes(r, Idle)
    <3>1. \A q \in Req : GrantGoesOn(q)
      BY <2>3, EndedRequests DEF Goes, GrantGoesOn, Granting, Running
    <3> QED
      BY <2>2, <3>1, GrantsStay
  <2>4. ASSUME NEW saved \in BOOLEAN, NEW grants \in BOOLEAN,
               Goes(r, [req[r] EXCEPT !.at = "writing", !.saved = saved, !.grants = grants]),
               req[r].kind = "verify" => saved,
               req[r].kind = "verify" /\ grants => req[r].user = Bootstrap /\ ActiveRows = {},
               saved => ~Held(r)
        PROVE  GrantsOnce'
    <3> DEFINE x == [req[r] EXCEPT !.at = "writing", !.saved = saved, !.grants = grants]
    <3>1. req[r] \in Busy
      BY <1>1, SaveFacts
    <3>2. /\ x.kind = req[r].kind /\ x.at = "writing" /\ x.user = req[r].user
          /\ x.saved = saved /\ x.grants = grants
      BY <3>1 DEF Busy
    <3>3. req'[r] = x /\ \A q \in Req \ {r} : req'[q] = req[q]
      BY <2>4 DEF Goes, IInv
    <3> HIDE DEF x
    <3>4. \A q \in Req \ {r} : Granting(q)' = Granting(q)
      BY <3>3 DEF Granting, Running
    <3>5. ASSUME Granting(r)'
          PROVE  /\ saved /\ req[r].user = Bootstrap /\ BootRows = {}
                 /\ \A q \in Req \ {r} : ~Granting(q)
      <4>1. req[r].kind = "verify" /\ grants
        BY <3>2, <3>3, <3>5 DEF Granting
      <4>2. saved /\ req[r].user = Bootstrap /\ ActiveRows = {} /\ ~Held(r)
        BY <2>4, <4>1
      <4>3. \A q \in Req \ {r} : ~Granting(q)
        BY <4>2 DEF GrantsOnce, Granting, Held
      <4> QED
        BY <4>2, <4>3 DEF BootRows
    <3>6. \A q \in Req : Granting(q)' => /\ req'[q].at = "writing" /\ req'[q].saved
                                         /\ req'[q].user = Bootstrap /\ BootRows' = {}
      <4> SUFFICES ASSUME NEW q \in Req, Granting(q)'
                   PROVE  /\ req'[q].at = "writing" /\ req'[q].saved
                          /\ req'[q].user = Bootstrap /\ BootRows' = {}
        OBVIOUS
      <4>1. CASE q = r
        BY <2>2, <3>2, <3>3, <3>5, <4>1
      <4>2. CASE q # r
        BY <2>2, <3>3, <3>4, <4>2 DEF GrantsOnce
      <4> QED
        BY <4>1, <4>2
    <3>7. \A q, p \in Req : Granting(q)' /\ Granting(p)' => q = p
      BY <3>4, <3>5 DEF GrantsOnce
    <3> QED
      BY <2>2, <3>6, <3>7 DEF GrantsOnce
  <2> QED
    BY <1>1, <2>3, <2>4, SaveFacts
<1>2. ASSUME NEW r \in Req, OpenSession(r), \A q \in Req : GrantGoesOn(q) PROVE GrantsOnce'
  <2>1. /\ req' = [req EXCEPT ![r] = Idle] /\ req[r] \in Busy /\ req[r].user \in User
        /\ Running(r) /\ req[r].kind = "verify" /\ admins \in Seq(AdminType)
        /\ \/ UNCHANGED admins
           \/ req[r].grants /\ admins' = Append(admins, AdminRow(req[r].user, "bootstrap"))
    BY <1>2, OpenSessionFacts DEF Ends, Busy, IInv, Tables
  <2>2. CASE UNCHANGED admins
    <3>1. BootRows' = BootRows
      BY <2>2 DEF BootRows, ActiveRows
    <3> QED
      BY <1>2, <3>1, GrantsStay
  <2>3. CASE req[r].grants /\ admins' = Append(admins, AdminRow(req[r].user, "bootstrap"))
    <3>1. Granting(r) /\ BootRows = {} /\ \A q \in Req \ {r} : ~Granting(q)
      BY <2>1, <2>3 DEF Granting, GrantsOnce
    <3>2. \A q \in Req : ~Granting(q)'
      <4>1. ~Granting(r)'
        BY <2>1 DEF Granting, Running, IInv
      <4> QED
        BY <1>2, <3>1, <4>1 DEF GrantGoesOn
    <3>3. \A i \in DOMAIN admins' : \/ i \in DOMAIN admins /\ admins'[i] = admins[i]
                                   \/ i = Len(admins) + 1
      <4> DEFINE y == AdminRow(req[r].user, "bootstrap")
      <4>1. y \in AdminType
        BY <2>1 DEF AdminRow, AdminType
      <4> HIDE DEF y
      <4>2. admins' = Append(admins, y)
        BY <2>3 DEF y
      <4> QED
        BY <2>1, <4>1, <4>2, Appended
    <3>4. \A i \in BootRows' : i = Len(admins) + 1
      BY <3>1, <3>3 DEF BootRows, ActiveRows
    <3> QED
      BY <3>2, <3>4 DEF GrantsOnce
  <2> QED
    BY <2>1, <2>2, <2>3
<1>3. ASSUME NEW r \in Req, CommitGrant(r), \A q \in Req : GrantGoesOn(q) PROVE GrantsOnce'
  <2> DEFINE y == AdminRow(req[r].user, "grant")
  <2>1. req[r] \in Busy /\ admins \in Seq(AdminType) /\ admins' = Append(admins, y)
    BY <1>3, BusyFacts DEF CommitGrant, Commits, IInv, Tables
  <2>2. y \in AdminType /\ y.by = "grant"
    BY <2>1 DEF AdminRow, AdminType, Busy
  <2> HIDE DEF y
  <2>3. /\ admins'[Len(admins) + 1] = y
        /\ \A i \in DOMAIN admins : admins'[i] = admins[i]
        /\ \A i \in DOMAIN admins' : i \in DOMAIN admins \/ i = Len(admins) + 1
    BY <2>1, <2>2, Appended
  <2>4. BootRows' \subseteq BootRows
    BY <2>2, <2>3 DEF BootRows, ActiveRows
  <2> QED
    BY <1>3, <2>4, GrantsStay
<1>4. ASSUME NEW r \in Req, CommitRevoke(r), \A q \in Req : GrantGoesOn(q) PROVE GrantsOnce'
  <2>1. BootRows' \subseteq BootRows
    BY <1>4, RevokedFacts DEF BootRows, ActiveRows
  <2> QED
    BY <1>4, <2>1, GrantsStay
<1>5. ASSUME UNCHANGED admins, \A q \in Req : GrantGoesOn(q) PROVE GrantsOnce'
  BY <1>5, GrantsStay DEF BootRows, ActiveRows
<1>6. ASSUME NEW r \in Req, CommitToggle(r) \/ Grant(r) \/ Revoke(r) \/ Toggle(r)
      PROVE  UNCHANGED admins
  <2>1. CommitToggle(r) => UNCHANGED admins
    BY ToggledFacts
  <2>2. Grant(r) \/ Revoke(r) \/ Toggle(r) => UNCHANGED admins
    BY AdminRequests DEF Begin
  <2> QED
    BY <1>6, <2>1, <2>2
<1>7. CASE \A q \in Req : GrantGoesOn(q)
  <2>1. CASE Elsewhere
    BY <1>5, <1>7, <2>1 DEF Elsewhere
  <2> QED
    BY <1>2, <1>3, <1>4, <1>5, <1>6, <1>7, <2>1, Steps
<1> QED
  BY <1>1, <1>7, GrantSteps

\* However sign-ins of the bootstrap admin overlap, he has the role once.
THEOREM BootstrapGrantedOnce == Spec => []BootstrapOnce
<1>1. Init => GrantsOnce
  <2> SUFFICES ASSUME Init PROVE GrantsOnce
    OBVIOUS
  <2>1. PICK staff : InitWith(staff)
    BY DEF Init
  <2>2. /\ admins = [i \in DOMAIN staff |-> AdminRow(staff[i], IF i = 1 THEN "bootstrap" ELSE "grant")]
        /\ req = [r \in Req |-> Idle]
    BY <2>1 DEF InitWith
  <2>3. \A i \in BootRows : i = 1
    BY <2>2 DEF BootRows, ActiveRows, AdminRow
  <2>4. \A q \in Req : ~Granting(q)
    BY <2>2 DEF Granting, Running
  <2> QED
    BY <2>3, <2>4 DEF GrantsOnce
<1>2. GrantsOnce => BootstrapOnce
  <2> SUFFICES ASSUME GrantsOnce PROVE Cardinality(BootRows) <= 1
    BY DEF BootstrapOnce, BootRows
  <2>1. CASE BootRows = {}
    BY <2>1, FS_EmptySet
  <2>2. CASE BootRows # {}
    <3>1. PICK i \in BootRows : TRUE
      BY <2>2
    <3>2. BootRows = {i}
      BY <3>1 DEF GrantsOnce
    <3>3. Cardinality({i}) = 1
      BY FS_Singleton
    <3>4. Cardinality(BootRows) = 1
      BY <3>2, <3>3
    <3> QED
      BY <3>4
  <2> QED
    BY <2>1, <2>2
<1> QED
  BY <1>1, <1>2, GrantsKept, Invariance, PTL DEF Spec

-----------------------------------------------------------------------------
(* What the counters keep in order.                                        *)

\* Others have counted what a request counts on: c of the counter k.
Behind(c, k) == Len(counters[k]) >= (IF c = 0 THEN 1 ELSE 2)

\* Who counts after another on the same counter is behind, since no two have
\* found the same row; who is behind splits the counter or has it split.
LEMMA CountsApart ==
    ASSUME IInv, NEW r \in Req, NEW q \in Req, r # q, Running(r), Running(q), NEW k \in Bucket,
           <<k, req[r].count>> \in req[r].hits, <<k, req[q].count>> \in req[q].hits,
           counters' = Counted(q), NEW c \in Nat, c = req[r].count
    PROVE  Behind(c, k)'
<1>1. req[q].count \in Nat
  BY BusyFacts DEF Busy
<1>2. <<k, c>>[1] = k /\ <<k, c>>[2] = c
      /\ <<k, req[q].count>>[1] = k /\ <<k, req[q].count>>[2] = req[q].count
  OBVIOUS
<1>3. c = 0 \/ req[q].count = 0
  BY <1>2 DEF IInv, Exclusive
<1>4. /\ c > 0 => Len(counters[k]) > 0
      /\ req[q].count > 0 => Len(counters[k]) > 0
  BY <1>2, BusyFacts DEF ReadFine
<1>5. /\ Len(counters'[k]) >= Len(counters[k])
      /\ req[q].count = 0 => Len(counters'[k]) = Len(counters[k]) + 1
  BY CountedFacts
<1>6. Len(counters[k]) \in Nat /\ Len(counters'[k]) \in Nat
  <2>1. counters'[k] \in Seq(Nat \ {0})
    BY CountedFacts
  <2> QED
    BY <2>1, CountersAreSeqs DEF IInv
<1> QED
  BY <1>1, <1>3, <1>4, <1>5, <1>6 DEF Behind

LEMMA SplitByBehind ==
    ASSUME IInv, NEW r \in Req, Running(r), NEW k \in Bucket,
           <<k, req[r].count>> \in req[r].hits, Behind(req[r].count, k), counters' = Counted(r)
    PROVE  Split(k)'
<1>1. req[r].count \in Nat
  BY BusyFacts DEF Busy
<1>2. /\ Len(counters'[k]) >= Len(counters[k])
      /\ req[r].count = 0 => Len(counters'[k]) = Len(counters[k]) + 1
  BY CountedFacts
<1>3. Len(counters[k]) \in Nat /\ Len(counters'[k]) \in Nat
  <2>1. counters'[k] \in Seq(Nat \ {0})
    BY CountedFacts
  <2> QED
    BY <2>1, CountersAreSeqs DEF IInv
<1> QED
  BY <1>1, <1>2, <1>3 DEF Behind, Split

\* Counters never shrink.
Counting == \A k \in Bucket : Len(counters'[k]) >= Len(counters[k])

LEMMA StillBehind ==
    ASSUME IInv, Counting, Tables', NEW k \in Bucket
    PROVE  /\ \A c \in Nat : Behind(c, k) => Behind(c, k)'
           /\ Split(k) => Split(k)'
<1>1. Len(counters[k]) \in Nat /\ Len(counters'[k]) \in Nat
  <2>1. counters'[k] \in Seq(Nat \ {0})
    BY DEF Tables
  <2> QED
    BY <2>1, CountersAreSeqs DEF IInv
<1> QED
  BY <1>1 DEF Counting, Behind, Split

\* A sign-in that has passed its check of the link.
Past(q) == Running(q) /\ req[q].kind = "verify" /\ req[q].at \in {"using", "saving", "writing"}

\* A request for a link that is about to issue it.
Issuing(q) == Running(q) /\ req[q].kind = "login" /\ req[q].at = "writing"

SameDoor(x, y) == x.link \in y.ids /\ x.net = y.net /\ x.window = y.window

OneLink(q) == req[q].kind = "verify" => \A a, b \in req[q].ids : a = b

\* A session from the link that a sign-in has passed with came by the same counter.
Doors ==
    /\ OneSessionPerNetwork
    /\ \A j \in DOMAIN sessions : sessions[j].link # 0 => tokens[sessions[j].link].used
    /\ \A q \in Req : Running(q) => OneLink(q)
    /\ \A q \in Req : Past(q) =>
         \A j \in DOMAIN sessions :
             SameDoor(sessions[j], req[q]) => Behind(req[q].count, IpKey(req[q]))

Rival(t, i, x) == t.user = x.user /\ t.window = x.window /\ ~t.used /\ i \notin x.ids

\* And so did a link that a request for one does not know.
Letters ==
    /\ OneUsableLinkPerWindow
    /\ \A q \in Req : Issuing(q) =>
         \A i \in DOMAIN tokens : Rival(tokens[i], i, req[q]) => Behind(req[q].count, MailKey(req[q]))

SameSessions ==
    /\ DOMAIN sessions' = DOMAIN sessions
    /\ \A i \in DOMAIN sessions : /\ sessions'[i].link = sessions[i].link
                                  /\ sessions'[i].net = sessions[i].net
                                  /\ sessions'[i].window = sessions[i].window

\* A request goes on as it was, or is at its check with the tables as they are.
DoorGoesOn(q) ==
    /\ Running(q)' => OneLink(q)'
    /\ Past(q)' =>
         \/ /\ Past(q)
            /\ req'[q].ids = req[q].ids /\ req'[q].count = req[q].count
            /\ req'[q].net = req[q].net /\ req'[q].window = req[q].window
         \/ \A i \in req'[q].ids : ~tokens[i].used

LetterGoesOn(q) ==
    Issuing(q)' => \/ Issuing(q) /\ req'[q] = req[q]
                   \/ req'[q].ids = OpenLinks(req'[q].user)

LEMMA KeepsOn ==
    ASSUME NEW q \in Req, Running(q) => OneLink(q), req'[q] = req[q] \/ req'[q] = Idle
    PROVE  DoorGoesOn(q) /\ LetterGoesOn(q)
  BY DEF DoorGoesOn, LetterGoesOn, Past, Issuing, Running, OneLink

LEMMA KeepOn ==
    ASSUME IInv, \A q \in Req : Running(q) => OneLink(q), NEW r \in Req, NEW x,
           req' = [req EXCEPT ![r] = x],
           x # Idle => /\ x.kind = "verify" => \A a, b \in x.ids : a = b
                       /\ x.kind = "verify" /\ x.at \in {"using", "saving", "writing"} =>
                            \/ /\ Past(r) /\ x.ids = req[r].ids /\ x.count = req[r].count
                               /\ x.net = req[r].net /\ x.window = req[r].window
                            \/ \A i \in x.ids : ~tokens[i].used
                       /\ x.kind = "login" /\ x.at = "writing" => x.ids = OpenLinks(x.user)
    PROVE  \A q \in Req : DoorGoesOn(q) /\ LetterGoesOn(q)
<1>1. DoorGoesOn(r) /\ LetterGoesOn(r)
  <2>1. req'[r] = x
    BY DEF IInv
  <2> QED
    BY <2>1 DEF DoorGoesOn, LetterGoesOn, Past, Issuing, Running, OneLink
<1>2. \A q \in Req \ {r} : req'[q] = req[q]
  BY DEF IInv
<1> QED
  BY <1>1, <1>2, KeepsOn

\* No step but the two commits has to do with it.
GoesOn ==
    /\ SameSessions /\ UNCHANGED tokens /\ Counting
    /\ \A q \in Req : DoorGoesOn(q) /\ LetterGoesOn(q)

LEMMA GoesGoesOn ==
    ASSUME IInv, UNCHANGED <<counters, tokens, sessions>>,
           \A q \in Req : DoorGoesOn(q) /\ LetterGoesOn(q)
    PROVE  GoesOn
  BY CountersAreSeqs DEF IInv, GoesOn, SameSessions, Counting

LEMMA GoesOnSteps ==
    ASSUME IInv, Doors, [Next]_vars
    PROVE  (\E r \in Req : OpenSession(r) \/ IssueLink(r)) \/ GoesOn
<1>1. \A q \in Req : Running(q) => OneLink(q)
  BY DEF Doors
<1>2. ASSUME NEW r \in Req, NEW x, Begin(r, x) \/ Goes(r, x),
             x # Idle => /\ x.kind = "verify" => \A a, b \in x.ids : a = b
                         /\ x.kind = "verify" /\ x.at \in {"using", "saving", "writing"} =>
                              \/ /\ Past(r) /\ x.ids = req[r].ids /\ x.count = req[r].count
                                 /\ x.net = req[r].net /\ x.window = req[r].window
                              \/ \A i \in x.ids : ~tokens[i].used
                         /\ x.kind = "login" /\ x.at = "writing" => x.ids = OpenLinks(x.user)
      PROVE  GoesOn
  <2>1. /\ req' = [req EXCEPT ![r] = x]
        /\ UNCHANGED <<counters, tokens, sessions>>
    BY <1>2 DEF Begin, Goes
  <2>2. \A q \in Req : DoorGoesOn(q) /\ LetterGoesOn(q)
    BY <1>1, <1>2, <2>1, KeepOn
  <2> QED
    BY <2>1, <2>2, GoesGoesOn
<1>3. ASSUME NEW r \in Req, Running(r), Ends(r), UNCHANGED tokens, SameSessions
      PROVE  GoesOn
  <2>1. req' = [req EXCEPT ![r] = Idle] /\ counters' = Counted(r)
    BY <1>3 DEF Ends
  <2>2. Counting
    BY <1>3, <2>1, CountedFacts DEF Counting
  <2>3. \A q \in Req : DoorGoesOn(q) /\ LetterGoesOn(q)
    BY <1>1, <2>1, KeepOn
  <2> QED
    BY <1>3, <2>2, <2>3 DEF GoesOn
<1>4. ASSUME NEW r \in Req, Login(r) PROVE GoesOn
  <2>1. PICK u \in User, n \in Net :
          Begin(r, [Request("login", "network", u, n) EXCEPT
                      !.count = Found(BucketOf(Request("login", "network", u, n)))])
    BY <1>4 DEF Login
  <2> DEFINE x == [Request("login", "network", u, n) EXCEPT
                     !.count = Found(BucketOf(Request("login", "network", u, n)))]
  <2>2. x.kind = "login" /\ x.at = "network" /\ Begin(r, x)
    BY <2>1 DEF Request
  <2> HIDE DEF x
  <2> QED
    BY <1>2, <2>2
<1>5. ASSUME NEW r \in Req, Verify(r) PROVE GoesOn
  <2>1. PICK ids \in {{}} \union {{i} : i \in DOMAIN tokens}, u \in User, n \in Net :
          Begin(r, [Request("verify", "network", u, n) EXCEPT
                      !.count = Found(BucketOf(Request("verify", "network", u, n))), !.ids = ids])
    BY <1>5 DEF Verify
  <2> DEFINE x == [Request("verify", "network", u, n) EXCEPT
                     !.count = Found(BucketOf(Request("verify", "network", u, n))), !.ids = ids]
  <2>2. x.kind = "verify" /\ x.at = "network" /\ x.ids = ids /\ Begin(r, x)
    BY <2>1 DEF Request
  <2>3. \A a, b \in ids : a = b
    OBVIOUS
  <2> HIDE DEF x
  <2> QED
    BY <1>2, <2>2, <2>3
<1>6. ASSUME NEW r \in Req, CountNetwork(r) PROVE GoesOn
  <2>1. Running(r) /\ req[r] \in Busy /\ req[r].kind = "login"
    BY <1>6, BusyFacts DEF CountNetwork
  <2> DEFINE y == [Hit(r) EXCEPT !.at = "address"]
             z == [y EXCEPT !.at = "refusing"]
             w == [y EXCEPT !.count = Found(BucketOf(y))]
  <2>2. Goes(r, z) \/ Goes(r, Idle) \/ Goes(r, w)
    BY <1>6 DEF CountNetwork
  <2>3. z.kind = "login" /\ z.at = "refusing" /\ w.kind = "login" /\ w.at = "address"
    BY <2>1 DEF Hit, Busy
  <2> HIDE DEF z, w
  <2>4. CASE Goes(r, z)
    BY <1>2, <2>3, <2>4
  <2>5. CASE Goes(r, w)
    BY <1>2, <2>3, <2>5
  <2>6. CASE Goes(r, Idle)
    BY <1>2, <2>6
  <2> QED
    BY <2>2, <2>4, <2>5, <2>6
<1>7. ASSUME NEW r \in Req, CountAddress(r) PROVE GoesOn
  <2>1. Running(r) /\ req[r] \in Busy /\ req[r].kind = "login"
    BY <1>7, BusyFacts DEF CountAddress, AtFine
  <2>2. PICK at \in {"refusing", "writing"} :
          Goes(r, [Hit(r) EXCEPT !.at = at, !.ids = OpenLinks(req[r].user)])
    BY <1>7 DEF CountAddress
  <2> DEFINE x == [Hit(r) EXCEPT !.at = at, !.ids = OpenLinks(req[r].user)]
  <2>3. x.kind = "login" /\ x.ids = OpenLinks(x.user) /\ Goes(r, x)
    BY <2>1, <2>2 DEF Hit, Busy
  <2> HIDE DEF x
  <2> QED
    BY <1>2, <2>3
<1>8. ASSUME NEW r \in Req, CountVerify(r) PROVE GoesOn
  <2>1. Running(r) /\ req[r] \in Busy /\ req[r].kind = "verify"
    BY <1>8, BusyFacts DEF CountVerify
  <2>2. \A a, b \in req[r].ids : a = b
    BY <1>1, <2>1 DEF OneLink
  <2>3. PICK at \in {"refusing", "using"} :
          /\ Goes(r, [Hit(r) EXCEPT !.at = at])
          /\ at = "using" => ~ \A i \in req[r].ids : tokens[i].used
    BY <1>8 DEF CountVerify
  <2> DEFINE x == [Hit(r) EXCEPT !.at = at]
  <2>4. x.kind = "verify" /\ x.at = at /\ x.ids = req[r].ids /\ Goes(r, x)
    BY <2>1, <2>3 DEF Hit, Busy
  <2> HIDE DEF x
  <2>5. at = "using" => \A i \in x.ids : ~tokens[i].used
    BY <2>2, <2>3, <2>4
  <2> QED
    BY <1>2, <2>2, <2>4, <2>5
<1>9. ASSUME NEW r \in Req, LoadUser(r) PROVE GoesOn
  <2>1. Running(r) /\ req[r] \in Busy /\ req[r].kind = "verify" /\ Past(r)
    BY <1>9, BusyFacts DEF LoadUser, AtFine, Past
  <2>2. \A a, b \in req[r].ids : a = b
    BY <1>1, <2>1 DEF OneLink
  <2>3. PICK at \in {"writing", "saving"} :
          Goes(r, [req[r] EXCEPT !.known = account[req[r].user], !.at = at])
    BY <1>9 DEF LoadUser
  <2> DEFINE x == [req[r] EXCEPT !.known = account[req[r].user], !.at = at]
  <2>4. /\ x.kind = "verify" /\ x.ids = req[r].ids /\ x.count = req[r].count
        /\ x.net = req[r].net /\ x.window = req[r].window /\ Goes(r, x)
    BY <2>1, <2>3 DEF Busy
  <2> HIDE DEF x
  <2> QED
    BY <1>2, <2>1, <2>2, <2>4
<1>10. ASSUME NEW r \in Req, Save(r) PROVE GoesOn
  <2>1. /\ Running(r) /\ req[r] \in Busy /\ req[r].at = "saving"
        /\ req[r].kind \in {"verify", "grant"}
    BY <1>10, SaveFacts
  <2>2. req[r].kind = "verify" => Past(r) /\ \A a, b \in req[r].ids : a = b
    BY <1>1, <2>1 DEF OneLink, Past
  <2>3. CASE Goes(r, Idle)
    BY <1>2, <2>3
  <2>4. ASSUME NEW saved \in BOOLEAN, NEW grants \in BOOLEAN,
               Goes(r, [req[r] EXCEPT !.at = "writing", !.saved = saved, !.grants = grants])
        PROVE  GoesOn
    <3> DEFINE x == [req[r] EXCEPT !.at = "writing", !.saved = saved, !.grants = grants]
    <3>1. /\ x.kind = req[r].kind /\ x.ids = req[r].ids /\ x.count = req[r].count
          /\ x.net = req[r].net /\ x.window = req[r].window /\ Goes(r, x)
      BY <2>1, <2>4 DEF Busy
    <3> HIDE DEF x
    <3> QED
      BY <1>2, <2>1, <2>2, <3>1
  <2> QED
    BY <1>10, <2>3, <2>4, SaveFacts
<1>11. ASSUME NEW r \in Req, Grant(r) \/ Revoke(r) \/ Toggle(r) PROVE GoesOn
  <2>1. PICK x \in Busy : Begin(r, x) /\ x.kind \notin {"verify", "login"}
    BY <1>11, AdminRequests
  <2> QED
    BY <1>2, <2>1
<1>12. ASSUME NEW r \in Req, CommitGrant(r) \/ CommitRevoke(r) \/ CommitToggle(r) \/ Refuse(r)
       PROVE  GoesOn
  <2>1. Running(r) /\ Ends(r) /\ UNCHANGED tokens
    BY <1>12 DEF CommitGrant, CommitRevoke, CommitToggle, Refuse, Commits
  <2>2. SameSessions
    BY <1>12, ToggledFacts DEF CommitGrant, CommitRevoke, Refuse, SameSessions
  <2> QED
    BY <1>3, <2>1, <2>2
<1>13. ASSUME NEW r \in Req, Crash(r) PROVE GoesOn
  BY <1>2, <1>13 DEF Crash
<1>14. CASE NextWindow \/ UNCHANGED vars
  <2>1. UNCHANGED <<req, counters, tokens, sessions>>
    BY <1>14 DEF NextWindow, vars
  <2> QED
    BY <1>1, <2>1, KeepsOn, GoesGoesOn
<1> QED
  BY <1>4, <1>5, <1>6, <1>7, <1>8, <1>9, <1>10, <1>11, <1>12, <1>13, <1>14 DEF Next

-----------------------------------------------------------------------------
(* One session from a link per network and window.                         *)

\* The key of the counter of a sign-in that has passed, and its count.
LEMMA PastFacts ==
    ASSUME IInv, NEW q \in Req, Past(q)
    PROVE  \E c \in Nat, k \in Bucket :
             /\ c = req[q].count /\ k = IpKey(req[q])
             /\ k = <<"verify_ip", req[q].net, req[q].window>>
             /\ <<k, c>> \in req[q].hits
<1>1. req[q] \in Busy /\ HitsFine(req[q]) /\ Running(q)
  BY BusyFacts DEF Past
<1>2. req[q].count \in Nat /\ IpKey(req[q]) \in Bucket
  BY <1>1, KeyFacts DEF Busy
<1>3. /\ IpKey(req[q]) = <<"verify_ip", req[q].net, req[q].window>>
      /\ <<IpKey(req[q]), req[q].count>> \in req[q].hits
  BY <1>1 DEF Past, HitsFine, IpKey
<1> QED
  BY <1>2, <1>3

LEMMA LinksTyped ==
    ASSUME Tables, NEW i \in DOMAIN tokens
    PROVE  tokens[i].user \in User /\ tokens[i].window \in 0 .. MaxWindow /\ tokens[i].used \in BOOLEAN
<1>1. tokens[i] \in TokenType
  BY DEF Tables
<1> QED
  BY <1>1 DEF TokenType

LEMMA LinksUsed ==
    ASSUME Tables, NEW ids, tokens' = UsedUp(ids)
    PROVE  /\ DOMAIN tokens' = DOMAIN tokens
           /\ \A i \in DOMAIN tokens :
                /\ tokens'[i].user = tokens[i].user /\ tokens'[i].window = tokens[i].window
                /\ tokens[i].used => tokens'[i].used
                /\ i \in ids => tokens'[i].used
<1>1. ASSUME NEW i \in DOMAIN tokens
      PROVE  (tokens[i].used => tokens'[i].used) /\ (i \in ids => tokens'[i].used)
  <2>1. tokens[i] \in TokenType
    BY DEF Tables
  <2>2. tokens'[i] = IF i \in ids THEN [tokens[i] EXCEPT !.used = TRUE] ELSE tokens[i]
    BY DEF UsedUp
  <2>3. CASE i \in ids
    BY <2>1, <2>2, <2>3 DEF TokenType
  <2>4. CASE i \notin ids
    BY <2>2, <2>4
  <2> QED
    BY <2>3, <2>4
<1>2. /\ DOMAIN tokens' = DOMAIN tokens
      /\ \A i \in DOMAIN tokens :
           tokens'[i].user = tokens[i].user /\ tokens'[i].window = tokens[i].window
  BY UsedUpFacts
<1> QED
  BY <1>1, <1>2

LEMMA LinkAdded ==
    ASSUME Tables, NEW ids, NEW x \in TokenType, tokens' = Append(UsedUp(ids), x)
    PROVE  /\ tokens'[Len(tokens) + 1] = x
           /\ \A i \in DOMAIN tokens' : i \in DOMAIN tokens \/ i = Len(tokens) + 1
           /\ \A i \in DOMAIN tokens :
                /\ tokens'[i].user = tokens[i].user /\ tokens'[i].window = tokens[i].window
                /\ tokens'[i].used <=> tokens[i].used \/ i \in ids
<1> DEFINE ups == UsedUp(ids)
<1>1. /\ ups \in Seq(TokenType) /\ DOMAIN ups = DOMAIN tokens /\ Len(ups) = Len(tokens)
      /\ \A i \in DOMAIN tokens :
           ups[i].user = tokens[i].user /\ ups[i].window = tokens[i].window
  BY UsedUpFacts
<1>2. ASSUME NEW i \in DOMAIN tokens PROVE ups[i].used <=> tokens[i].used \/ i \in ids
  <2>1. tokens[i] \in TokenType
    BY DEF Tables
  <2>2. ups[i] = IF i \in ids THEN [tokens[i] EXCEPT !.used = TRUE] ELSE tokens[i]
    BY DEF UsedUp
  <2>3. CASE i \in ids
    BY <2>1, <2>2, <2>3 DEF TokenType
  <2>4. CASE i \notin ids
    BY <2>2, <2>4
  <2> QED
    BY <2>3, <2>4
<1>3. tokens' = Append(ups, x)
  OBVIOUS
<1> HIDE DEF ups
<1>4. /\ tokens'[Len(ups) + 1] = x
      /\ \A i \in DOMAIN ups : tokens'[i] = ups[i]
      /\ \A i \in DOMAIN tokens' : i \in DOMAIN ups \/ i = Len(ups) + 1
  BY <1>1, <1>3, Appended
<1> QED
  BY <1>1, <1>2, <1>4

LEMMA DoorsStay ==
    ASSUME IInv, IInv', Doors, SameSessions, Counting,
           \A i \in DOMAIN tokens : tokens[i].used => tokens'[i].used,
           \A q \in Req : DoorGoesOn(q)
    PROVE  Doors'
<1>1. OneSessionPerNetwork'
  <2> SUFFICES ASSUME NEW i \in DOMAIN sessions, NEW j \in DOMAIN sessions, i # j,
                      sessions[i].link = sessions[j].link, sessions[i].link # 0,
                      sessions[i].net = sessions[j].net, sessions[i].window = sessions[j].window
               PROVE  Split(<<"verify_ip", sessions[i].net, sessions[i].window>>)'
    BY DEF OneSessionPerNetwork, SameSessions, Split
  <2>1. sessions[i].net \in Net /\ sessions[i].window \in 0 .. MaxWindow
    BY AdminsAreUsers DEF IInv, SessionType
  <2>2. PICK k \in Bucket : k = <<"verify_ip", sessions[i].net, sessions[i].window>>
    BY <2>1 DEF Bucket
  <2>3. Split(k)
    BY <2>2 DEF Doors, OneSessionPerNetwork
  <2>4. Split(k)'
    BY <2>3, StillBehind DEF IInv
  <2> QED
    BY <2>2, <2>4 DEF Split, SameSessions
<1>2. \A j \in DOMAIN sessions' : sessions'[j].link # 0 => tokens'[sessions'[j].link].used
  <2> SUFFICES ASSUME NEW j \in DOMAIN sessions, sessions[j].link # 0
               PROVE  tokens'[sessions[j].link].used
    BY DEF SameSessions
  <2>1. sessions[j].link \in DOMAIN tokens /\ tokens[sessions[j].link].used
    BY DEF IInv, Tables, Doors
  <2> QED
    BY <2>1
<1>3. \A q \in Req : Running(q)' => OneLink(q)'
  BY DEF DoorGoesOn
<1>4. ASSUME NEW q \in Req, Past(q)', NEW j \in DOMAIN sessions',
             SameDoor(sessions[j], req[q])'
      PROVE  Behind(req[q].count, IpKey(req[q]))'
  <2>1. j \in DOMAIN sessions /\ sessions[j].link \in req'[q].ids
        /\ sessions[j].net = req'[q].net /\ sessions[j].window = req'[q].window
    BY <1>4 DEF SameSessions, SameDoor
  <2>2. ~tokens[sessions[j].link].used =>  sessions[j].link = 0
    BY <2>1 DEF Doors
  <2>3. sessions[j].link # 0
    <3>1. req'[q].ids \subseteq DOMAIN tokens'
      BY <1>4 DEF IInv, Fine, ReadFine, Past
    <3>2. tokens' \in Seq(TokenType)
      BY DEF IInv, Tables
    <3>3. 0 \notin DOMAIN tokens'
      BY <3>2
    <3> QED
      BY <2>1, <3>1, <3>3
  <2>4. /\ Past(q) /\ req'[q].ids = req[q].ids /\ req'[q].count = req[q].count
        /\ req'[q].net = req[q].net /\ req'[q].window = req[q].window
    BY <1>4, <2>1, <2>2, <2>3 DEF DoorGoesOn
  <2>5. PICK c \in Nat, k \in Bucket : c = req[q].count /\ k = IpKey(req[q])
    BY <2>4, PastFacts
  <2>6. Behind(c, k)
    BY <2>1, <2>4, <2>5 DEF Doors, SameDoor
  <2>7. Behind(c, k)'
    BY <2>6, StillBehind DEF IInv
  <2>8. c = req'[q].count /\ k = IpKey(req'[q])
    BY <1>4, <2>4, <2>5 DEF IpKey, Past
  <2> QED
    BY <2>7, <2>8 DEF Behind
<1> QED
  BY <1>1, <1>2, <1>3, <1>4 DEF Doors

LEMMA DoorsKept == IInv /\ Doors /\ [Next]_vars => Doors'
<1> SUFFICES ASSUME IInv, Doors, [Next]_vars PROVE Doors'
  OBVIOUS
<1>0. IInv' /\ \A q \in Req : Running(q) => OneLink(q)
  BY NextIInv DEF Doors
<1>1. CASE GoesOn
  BY <1>0, <1>1, DoorsStay DEF GoesOn
<1>2. ASSUME NEW r \in Req, IssueLink(r) PROVE Doors'
  <2>1. /\ Running(r) /\ Ends(r) /\ UNCHANGED sessions
        /\ tokens' = Append(UsedUp(req[r].ids),
                            [user |-> req[r].user, used |-> FALSE, window |-> req[r].window])
    BY <1>2 DEF IssueLink, Commits
  <2>2. \A i \in DOMAIN tokens : tokens[i].used => tokens'[i].used
    <3> DEFINE x == [user |-> req[r].user, used |-> FALSE, window |-> req[r].window]
    <3>1. x \in TokenType
      BY <2>1, BusyFacts DEF TokenType, Busy
    <3> HIDE DEF x
    <3>2. tokens' = Append(UsedUp(req[r].ids), x)
      BY <2>1 DEF x
    <3> QED
      BY <3>1, <3>2, LinkAdded DEF IInv
  <2>3. req' = [req EXCEPT ![r] = Idle] /\ Counting /\ SameSessions
    BY <2>1, CountedFacts DEF Ends, Counting, SameSessions
  <2>4. \A q \in Req : DoorGoesOn(q)
    BY <1>0, <2>3, KeepOn
  <2> QED
    BY <1>0, <2>2, <2>3, <2>4, DoorsStay
<1>3. ASSUME NEW r \in Req, OpenSession(r) PROVE Doors'
  <2>1. /\ Running(r) /\ Ends(r) /\ Past(r) /\ tokens' = UsedUp(req[r].ids)
        /\ req' = [req EXCEPT ![r] = Idle] /\ counters' = Counted(r)
    BY <1>3, OpenSessionFacts DEF Ends, Past
  <2>2. /\ \A i \in DOMAIN tokens : tokens[i].used => tokens'[i].used
        /\ \A i \in DOMAIN tokens : i \in req[r].ids => tokens'[i].used
    BY <2>1, LinksUsed DEF IInv
  <2>3. Counting
    BY <2>1, CountedFacts DEF Counting
  <2>4. \A q \in Req : DoorGoesOn(q)
    BY <1>0, <2>1, KeepOn
  <2>5. CASE UNCHANGED sessions
    BY <1>0, <2>2, <2>3, <2>4, <2>5, DoorsStay DEF SameSessions
  <2>6. CASE ~ UNCHANGED sessions
    <3>1. PICK x \in SessionType :
            /\ sessions' = Append(sessions, x)
            /\ x.link \in req[r].ids /\ x.link \in DOMAIN tokens
            /\ x.net = req[r].net /\ x.window = req[r].window
      BY <1>3, <2>6, OpenSessionFacts
    <3>2. /\ \A i \in DOMAIN sessions : sessions'[i] = sessions[i]
          /\ sessions'[Len(sessions) + 1] = x
          /\ \A i \in DOMAIN sessions' : i \in DOMAIN sessions \/ i = Len(sessions) + 1
      <4>1. sessions \in Seq(SessionType)
        BY DEF IInv, Tables
      <4> QED
        BY <3>1, <4>1, Appended
    <3>3. PICK c \in Nat, k \in Bucket :
            /\ c = req[r].count /\ k = IpKey(req[r])
            /\ k = <<"verify_ip", req[r].net, req[r].window>> /\ <<k, c>> \in req[r].hits
      BY <2>1, PastFacts
    <3>4. ASSUME NEW i \in DOMAIN sessions, sessions[i].link = x.link,
                 sessions[i].net = x.net, sessions[i].window = x.window
          PROVE  Split(k)'
      <4>1. Behind(req[r].count, k)
        BY <2>1, <3>1, <3>3, <3>4 DEF Doors, SameDoor
      <4> QED
        BY <2>1, <3>3, <4>1, SplitByBehind
    <3>5. OneSessionPerNetwork'
      <4> SUFFICES ASSUME NEW i \in DOMAIN sessions', NEW j \in DOMAIN sessions', i # j,
                          sessions'[i].link = sessions'[j].link, sessions'[i].link # 0,
                          sessions'[i].net = sessions'[j].net,
                          sessions'[i].window = sessions'[j].window
                   PROVE  Split(<<"verify_ip", sessions[i].net, sessions[i].window>>)'
        BY DEF OneSessionPerNetwork
      <4>1. CASE i \in DOMAIN sessions /\ j \in DOMAIN sessions
        <5>1. sessions[i].net \in Net /\ sessions[i].window \in 0 .. MaxWindow
          BY <4>1, AdminsAreUsers DEF IInv, SessionType
        <5>2. PICK l \in Bucket : l = <<"verify_ip", sessions[i].net, sessions[i].window>>
          BY <5>1 DEF Bucket
        <5>3. Split(l)
          BY <3>2, <4>1, <5>2 DEF Doors, OneSessionPerNetwork
        <5>4. Split(l)'
          BY <1>0, <2>3, <5>3, StillBehind DEF IInv
        <5> QED
          BY <3>2, <4>1, <5>2, <5>4 DEF Split
      <4>2. CASE i \notin DOMAIN sessions \/ j \notin DOMAIN sessions
        <5>1. Split(k)'
          BY <3>2, <3>4, <4>2
        <5>2. k = <<"verify_ip", sessions'[i].net, sessions'[i].window>>
          BY <3>1, <3>2, <3>3, <4>2
        <5> QED
          BY <5>1, <5>2 DEF Split
      <4> QED
        BY <4>1, <4>2
    <3>6. \A j \in DOMAIN sessions' : sessions'[j].link # 0 => tokens'[sessions'[j].link].used
      <4> SUFFICES ASSUME NEW j \in DOMAIN sessions', sessions'[j].link # 0
                   PROVE  tokens'[sessions'[j].link].used
        OBVIOUS
      <4>1. CASE j \in DOMAIN sessions
        <5>1. sessions[j].link \in DOMAIN tokens /\ tokens[sessions[j].link].used
          BY <3>2, <4>1 DEF IInv, Tables, Doors
        <5> QED
          BY <2>2, <3>2, <4>1, <5>1
      <4>2. CASE j \notin DOMAIN sessions
        BY <2>2, <3>1, <3>2, <4>2
      <4> QED
        BY <4>1, <4>2
    <3>7. ASSUME NEW q \in Req, Past(q)', NEW j \in DOMAIN sessions',
                 SameDoor(sessions[j], req[q])'
          PROVE  Behind(req[q].count, IpKey(req[q]))'
      <4>1. q # r /\ req'[q] = req[q] /\ Past(q)
        BY <2>1, <3>7 DEF Past, Running, IInv
      <4>2. PICK d \in Nat, l \in Bucket :
              /\ d = req[q].count /\ l = IpKey(req[q])
              /\ l = <<"verify_ip", req[q].net, req[q].window>> /\ <<l, d>> \in req[q].hits
        BY <4>1, PastFacts
      <4>3. CASE j \in DOMAIN sessions
        <5>1. Behind(d, l)
          BY <3>2, <3>7, <4>1, <4>2, <4>3 DEF Doors, SameDoor
        <5>2. Behind(d, l)'
          BY <1>0, <2>3, <5>1, StillBehind DEF IInv
        <5> QED
          BY <4>1, <4>2, <5>2 DEF Behind
      <4>4. CASE j \notin DOMAIN sessions
        <5>1. l = k
          BY <3>1, <3>2, <3>3, <3>7, <4>1, <4>2, <4>4 DEF SameDoor
        <5>2. <<l, req[r].count>> \in req[r].hits /\ <<l, req[q].count>> \in req[q].hits
          BY <3>3, <4>2, <5>1
        <5>3. Running(q)
          BY <4>1 DEF Past
        <5>4. Behind(d, l)'
          BY <2>1, <4>1, <4>2, <5>2, <5>3, CountsApart
        <5> QED
          BY <4>1, <4>2, <5>4 DEF Behind
      <4> QED
        BY <4>3, <4>4
    <3>8. \A q \in Req : Running(q)' => OneLink(q)'
      BY <2>4 DEF DoorGoesOn
    <3> QED
      BY <3>5, <3>6, <3>7, <3>8 DEF Doors
  <2> QED
    BY <2>5, <2>6
<1> QED
  BY <1>1, <1>2, <1>3, GoesOnSteps

LEMMA InitDoors == Init => Doors
<1> SUFFICES ASSUME Init PROVE Doors
  OBVIOUS
<1>1. PICK staff : InitWith(staff)
  BY DEF Init
<1>2. /\ sessions = [i \in DOMAIN staff |-> SignedIn(staff[i])]
      /\ req = [r \in Req |-> Idle]
  BY <1>1 DEF InitWith
<1>3. \A i \in DOMAIN sessions : sessions[i].link = 0
  BY <1>2 DEF SignedIn
<1>4. \A q \in Req : ~Running(q)
  BY <1>2 DEF Running
<1> QED
  BY <1>3, <1>4 DEF Doors, OneSessionPerNetwork, Past

LEMMA DoorsAlways == Spec => []Doors
  BY InitDoors, DoorsKept, Invariance, PTL DEF Spec

\* Only the counters stand between a link and a second session, and they do: two
\* sessions from one link came from different networks, in different windows, or
\* through a counter split by two first requests.
THEOREM SessionPerNetwork == Spec => []OneSessionPerNetwork
<1>1. Doors => OneSessionPerNetwork
  BY DEF Doors
<1> QED
  BY <1>1, DoorsAlways, PTL

-----------------------------------------------------------------------------
(* One usable link per window.                                             *)

LEMMA IssuingFacts ==
    ASSUME IInv, NEW q \in Req, Issuing(q)
    PROVE  \E c \in Nat, k \in Bucket :
             /\ c = req[q].count /\ k = MailKey(req[q])
             /\ k = <<"login_email", req[q].user, req[q].window>>
             /\ <<k, c>> \in req[q].hits
<1>1. req[q] \in Busy /\ HitsFine(req[q]) /\ Running(q)
  BY BusyFacts DEF Issuing
<1>2. req[q].count \in Nat /\ MailKey(req[q]) \in Bucket
  BY <1>1, KeyFacts DEF Busy
<1>3. <<MailKey(req[q]), req[q].count>> \in req[q].hits
  BY <1>1 DEF Issuing, HitsFine
<1> QED
  BY <1>2, <1>3 DEF MailKey

\* Links are used up, not added, and who is about to issue one knows them all.
LEMMA LettersStay ==
    ASSUME IInv, IInv', Letters, Counting, DOMAIN tokens' = DOMAIN tokens,
           \A i \in DOMAIN tokens : /\ tokens'[i].user = tokens[i].user
                                    /\ tokens'[i].window = tokens[i].window
                                    /\ tokens[i].used => tokens'[i].used,
           \A q \in Req : LetterGoesOn(q)
    PROVE  Letters'
<1>1. OneUsableLinkPerWindow'
  <2> SUFFICES ASSUME NEW i \in DOMAIN tokens, NEW j \in DOMAIN tokens, i # j,
                      tokens[i].user = tokens[j].user, ~tokens[i].used, ~tokens[j].used,
                      tokens[i].window = tokens[j].window
               PROVE  Split(<<"login_email", tokens[i].user, tokens[i].window>>)'
    BY DEF OneUsableLinkPerWindow, Split
  <2>1. tokens[i].user \in User /\ tokens[i].window \in 0 .. MaxWindow
    BY LinksTyped DEF IInv
  <2>2. PICK k \in Bucket : k = <<"login_email", tokens[i].user, tokens[i].window>>
    BY <2>1 DEF Bucket
  <2>3. Split(k)
    BY <2>2 DEF Letters, OneUsableLinkPerWindow
  <2>4. Split(k)'
    BY <2>3, StillBehind DEF IInv
  <2> QED
    BY <2>2, <2>4 DEF Split
<1>2. ASSUME NEW q \in Req, Issuing(q)', NEW i \in DOMAIN tokens', Rival(tokens[i], i, req[q])'
      PROVE  Behind(req[q].count, MailKey(req[q]))'
  <2>1. i \in DOMAIN tokens /\ Rival(tokens[i], i, req'[q])
    BY <1>2 DEF Rival
  <2>2. Issuing(q) /\ req'[q] = req[q]
    BY <1>2, <2>1 DEF LetterGoesOn, Rival, OpenLinks
  <2>3. PICK c \in Nat, k \in Bucket : c = req[q].count /\ k = MailKey(req[q])
    BY <2>2, IssuingFacts
  <2>4. Behind(c, k)
    BY <2>1, <2>2, <2>3 DEF Letters
  <2>5. Behind(c, k)'
    BY <2>4, StillBehind DEF IInv
  <2> QED
    BY <2>2, <2>3, <2>5 DEF Behind
<1> QED
  BY <1>1, <1>2 DEF Letters

LEMMA LettersKept == IInv /\ Doors /\ Letters /\ [Next]_vars => Letters'
<1> SUFFICES ASSUME IInv, Doors, Letters, [Next]_vars PROVE Letters'
  OBVIOUS
<1>0. IInv' /\ \A q \in Req : Running(q) => OneLink(q)
  BY NextIInv DEF Doors
<1>1. CASE GoesOn
  BY <1>0, <1>1, LettersStay DEF GoesOn
<1>2. ASSUME NEW r \in Req, OpenSession(r) PROVE Letters'
  <2>1. /\ Running(r) /\ tokens' = UsedUp(req[r].ids)
        /\ req' = [req EXCEPT ![r] = Idle] /\ counters' = Counted(r)
    BY <1>2, OpenSessionFacts DEF Ends
  <2>2. Counting
    BY <2>1, CountedFacts DEF Counting
  <2>3. \A q \in Req : LetterGoesOn(q)
    BY <1>0, <2>1, KeepOn
  <2> QED
    BY <1>0, <2>1, <2>2, <2>3, LinksUsed, LettersStay DEF IInv
<1>3. ASSUME NEW r \in Req, IssueLink(r) PROVE Letters'
  <2> DEFINE x == [user |-> req[r].user, used |-> FALSE, window |-> req[r].window]
             last == Len(tokens) + 1
  <2>1. /\ Running(r) /\ Issuing(r) /\ req' = [req EXCEPT ![r] = Idle] /\ counters' = Counted(r)
        /\ tokens' = Append(UsedUp(req[r].ids), x)
    BY <1>3 DEF IssueLink, Commits, Ends, Issuing
  <2>2. x \in TokenType
    BY <2>1, BusyFacts DEF TokenType, Busy
  <2>3. x.user = req[r].user /\ x.window = req[r].window /\ ~x.used
    OBVIOUS
  <2> HIDE DEF x
  <2>4. /\ \A i \in DOMAIN tokens : /\ tokens'[i].user = tokens[i].user
                                    /\ tokens'[i].window = tokens[i].window
                                    /\ tokens'[i].used <=> tokens[i].used \/ i \in req[r].ids
        /\ tokens'[last] = x
        /\ \A i \in DOMAIN tokens' : i \in DOMAIN tokens \/ i = last
    BY <2>1, <2>2, LinkAdded DEF IInv
  <2> HIDE DEF last
  <2>5. Counting
    BY <2>1, CountedFacts DEF Counting
  <2>6. PICK c \in Nat, k \in Bucket :
          /\ c = req[r].count /\ k = MailKey(req[r])
          /\ k = <<"login_email", req[r].user, req[r].window>> /\ <<k, c>> \in req[r].hits
    BY <2>1, IssuingFacts
  <2>7. ASSUME NEW i \in DOMAIN tokens, tokens'[i].user = x.user, tokens'[i].window = x.window,
               ~tokens'[i].used
        PROVE  Split(k)'
    <3>1. Rival(tokens[i], i, req[r])
      BY <2>3, <2>4, <2>7 DEF Rival
    <3>2. Behind(req[r].count, k)
      BY <2>1, <2>6, <3>1 DEF Letters
    <3> QED
      BY <2>1, <2>6, <3>2, SplitByBehind
  <2>8. OneUsableLinkPerWindow'
    <3> SUFFICES ASSUME NEW i \in DOMAIN tokens', NEW j \in DOMAIN tokens', i # j,
                        tokens'[i].user = tokens'[j].user, ~tokens'[i].used, ~tokens'[j].used,
                        tokens'[i].window = tokens'[j].window
                 PROVE  Split(<<"login_email", tokens[i].user, tokens[i].window>>)'
      BY DEF OneUsableLinkPerWindow
    <3>1. CASE i \in DOMAIN tokens /\ j \in DOMAIN tokens
      <4>1. tokens[i].user \in User /\ tokens[i].window \in 0 .. MaxWindow
        BY <3>1, LinksTyped DEF IInv
      <4>2. PICK l \in Bucket : l = <<"login_email", tokens[i].user, tokens[i].window>>
        BY <4>1 DEF Bucket
      <4>3. ~tokens[i].used /\ ~tokens[j].used
        BY <2>4, <3>1
      <4>4. Split(l)
        BY <2>4, <3>1, <4>2, <4>3 DEF Letters, OneUsableLinkPerWindow
      <4>5. Split(l)'
        BY <1>0, <2>5, <4>4, StillBehind DEF IInv
      <4> QED
        BY <2>4, <3>1, <4>2, <4>5 DEF Split
    <3>2. CASE i \notin DOMAIN tokens \/ j \notin DOMAIN tokens
      <4>1. Split(k)'
        BY <2>4, <2>7, <3>2
      <4>2. k = <<"login_email", tokens'[i].user, tokens'[i].window>>
        BY <2>3, <2>4, <2>6, <3>2
      <4> QED
        BY <4>1, <4>2 DEF Split
    <3> QED
      BY <3>1, <3>2
  <2>9. ASSUME NEW q \in Req, Issuing(q)', NEW i \in DOMAIN tokens', Rival(tokens[i], i, req[q])'
        PROVE  Behind(req[q].count, MailKey(req[q]))'
    <3>1. q # r /\ req'[q] = req[q] /\ Issuing(q) /\ Running(q)
      BY <2>1, <2>9 DEF Issuing, Running, IInv
    <3>2. PICK d \in Nat, l \in Bucket :
            /\ d = req[q].count /\ l = MailKey(req[q])
            /\ l = <<"login_email", req[q].user, req[q].window>> /\ <<l, d>> \in req[q].hits
      BY <3>1, IssuingFacts
    <3>3. CASE i \in DOMAIN tokens
      <4>1. Rival(tokens[i], i, req[q])
        BY <2>4, <2>9, <3>1, <3>3 DEF Rival
      <4>2. Behind(d, l)
        BY <3>1, <3>2, <3>3, <4>1 DEF Letters
      <4>3. Behind(d, l)'
        BY <1>0, <2>5, <4>2, StillBehind DEF IInv
      <4> QED
        BY <3>1, <3>2, <4>3 DEF Behind
    <3>4. CASE i \notin DOMAIN tokens
      <4>1. l = k
        BY <2>3, <2>4, <2>6, <2>9, <3>1, <3>2, <3>4 DEF Rival
      <4>2. <<l, req[r].count>> \in req[r].hits /\ <<l, req[q].count>> \in req[q].hits
        BY <2>6, <3>2, <4>1
      <4>3. Behind(d, l)'
        BY <2>1, <3>1, <3>2, <4>2, CountsApart
      <4> QED
        BY <3>1, <3>2, <4>3 DEF Behind
    <3> QED
      BY <3>3, <3>4
  <2> QED
    BY <2>8, <2>9 DEF Letters
<1> QED
  BY <1>1, <1>2, <1>3, GoesOnSteps

\* Two usable links to one address were asked for in different windows, or after
\* two first requests had split the counter of the address.
THEOREM UsableLinkPerWindow == Spec => []OneUsableLinkPerWindow
<1>1. Init => Letters
  <2> SUFFICES ASSUME Init PROVE Letters
    OBVIOUS
  <2>1. PICK staff : InitWith(staff)
    BY DEF Init
  <2>2. tokens = <<>> /\ req = [r \in Req |-> Idle]
    BY <2>1 DEF InitWith
  <2>3. DOMAIN tokens = {} /\ \A q \in Req : ~Running(q)
    BY <2>2 DEF Running
  <2> QED
    BY <2>3 DEF Letters, OneUsableLinkPerWindow, Issuing
<1>2. Letters => OneUsableLinkPerWindow
  BY DEF Letters
<1> QED
  BY <1>1, <1>2, LettersKept, DoorsAlways, Invariance, PTL DEF Spec
=============================================================================
