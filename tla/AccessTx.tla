------------------------------ MODULE AccessTx ------------------------------
(***************************************************************************)
(* Sign-in and administration by requests that overlap: the rate-limit      *)
(* counters, the links, the sessions, the accounts and the admin rows.      *)
(* Each statement reads what is committed; what a request writes is seen    *)
(* when it commits, and a row it has updated makes others wait until then.  *)
(* SignIn has the same operations one after the other, and the clock; here  *)
(* time is a count of rate-limit windows. A step is a wait for a row and the *)
(* reads after it. What a request does that is refused before it has        *)
(* written anything is left out.                                            *)
(***************************************************************************)
EXTENDS Integers, Sequences, FiniteSets

CONSTANTS
    User,         \* people, by email
    Net,          \* networks, by address
    Req,          \* requests that may overlap
    Bootstrap,    \* bootstrap_admin_email
    NetLimit,     \* login_rate_per_ip_per_hour
    AddressLimit, \* login_rate_per_email_per_hour
    VerifyLimit,  \* verify_failures_per_ip_per_hour
    MaxWindow,    \* bound of the model: the last window
    MaxRequests   \* bound of the model: requests begun

ASSUME AccessTxAssumption ==
    /\ Bootstrap \in User /\ Net # {}
    /\ {NetLimit, AddressLimit, VerifyLimit, MaxWindow, MaxRequests} \subseteq Nat

VARIABLES
    window,    \* the current window
    counters,  \* rate_limit_counters: per bucket, the counts of its rows
    account,   \* the users table: no row, active or disabled
    admins,    \* admin rows of user_roles, in the order of their ids
    tokens,    \* magic_link_tokens, in the order of their commits
    sessions,  \* sessions, in the order of their commits
    req,       \* per request, what it read and wrote, or Idle
    begun,     \* requests begun
    stale      \* history: somebody acted as an admin who no longer was one

vars == <<window, counters, account, admins, tokens, sessions, req, begun, stale>>

Bucket == ({"login_ip", "verify_ip"} \X Net \X (0 .. MaxWindow))
              \union ({"login_email"} \X User \X (0 .. MaxWindow))

Split(k) == Len(counters[k]) > 1

Idle == [kind |-> "none"]

ANet == CHOOSE n \in Net : TRUE

\* known is the account as it was loaded, count the counter looked up last, 0
\* where none was found, hits the counters written, ids the rows to change.
Request(kind, at, u, n) ==
    [kind |-> kind, at |-> at, user |-> u, net |-> n, window |-> window,
     known |-> "none", count |-> 0, hits |-> {}, ids |-> {}, by |-> u,
     saved |-> FALSE, grants |-> FALSE]

Running(r) == req[r] # Idle

Begin(r, x) ==
    /\ ~Running(r) /\ begun < MaxRequests
    /\ begun' = begun + 1
    /\ req' = [req EXCEPT ![r] = x]
    /\ UNCHANGED <<window, counters, account, admins, tokens, sessions, stale>>

Goes(r, x) ==
    /\ req' = [req EXCEPT ![r] = x]
    /\ UNCHANGED <<window, counters, account, admins, tokens, sessions, begun, stale>>

-----------------------------------------------------------------------------
(* Rate limits.                                                            *)

\* scalar_one_or_none: two rows are an error.
Found(k) == IF counters[k] = <<>> THEN 0 ELSE counters[k][1]

\* Mutant: counters are kept apart from the transaction.
NeverLocked(r, k) == FALSE

\* A row inserted is not seen by others; one updated is locked.
Locked(r, k) ==
    \E q \in Req \ {r} : Running(q) /\ \E h \in req[q].hits : h[1] = k /\ h[2] > 0

OneMore(c) == c + 1

Counted(r) ==
    [k \in Bucket |->
        IF \E h \in req[r].hits : h[1] = k
        THEN LET c == (CHOOSE h \in req[r].hits : h[1] = k)[2]
             IN  IF c = 0 THEN Append(counters[k], OneMore(0))
                 ELSE [counters[k] EXCEPT ![1] = OneMore(c)]
        ELSE counters[k]]

BucketOf(x) ==
    CASE x.at = "network" /\ x.kind = "login"  -> <<"login_ip", x.net, x.window>>
      [] x.at = "network" /\ x.kind = "verify" -> <<"verify_ip", x.net, x.window>>
      [] x.at = "address"                      -> <<"login_email", x.user, x.window>>

LimitOf(x) ==
    CASE x.at = "network" /\ x.kind = "login"  -> NetLimit
      [] x.at = "network" /\ x.kind = "verify" -> VerifyLimit
      [] x.at = "address"                      -> AddressLimit

\* The count is written; what a request that is over the limit has counted is
\* committed, and nothing else.
Hit(r) == [req[r] EXCEPT !.hits = @ \union {<<BucketOf(req[r]), req[r].count>>}]

Over(x) == OneMore(x.count) > LimitOf(x)

-----------------------------------------------------------------------------
(* Asking for a link.                                                      *)

Login(r) ==
    \E u \in User, n \in Net :
        LET x == Request("login", "network", u, n) IN
        /\ ~Split(BucketOf(x))
        /\ Begin(r, [x EXCEPT !.count = Found(BucketOf(x))])

\* Mutant: earlier links are left alone.
NoLinks(u) == {}

OpenLinks(u) == {i \in DOMAIN tokens : tokens[i].user = u /\ ~tokens[i].used}

CountNetwork(r) ==
    /\ Running(r) /\ req[r].kind = "login" /\ req[r].at = "network"
    /\ ~Locked(r, BucketOf(req[r]))
    /\ LET x == [Hit(r) EXCEPT !.at = "address"] IN
       \/ Over(req[r]) /\ Goes(r, [x EXCEPT !.at = "refusing"])
       \/ /\ ~Over(req[r]) /\ ~Split(BucketOf(x))
          /\ Goes(r, [x EXCEPT !.count = Found(BucketOf(x))])
       \/ ~Over(req[r]) /\ Split(BucketOf(x)) /\ Goes(r, Idle)

\* Nothing is sent to a disabled account.
CountAddress(r) ==
    /\ Running(r) /\ req[r].at = "address"
    /\ ~Locked(r, BucketOf(req[r]))
    /\ LET refused == Over(req[r]) \/ account[req[r].user] = "disabled" IN
       Goes(r, [Hit(r) EXCEPT !.at = IF refused THEN "refusing" ELSE "writing",
                              !.ids = OpenLinks(req[r].user)])

-----------------------------------------------------------------------------
(* Using a link.                                                           *)

\* Also with a link that nobody was sent.
Verify(r) ==
    \E ids \in {{}} \union {{i} : i \in DOMAIN tokens}, u \in User, n \in Net :
        LET x == Request("verify", "network", u, n) IN
        /\ \A i \in ids : tokens[i].user = u
        /\ ids = {} => u = Bootstrap
        /\ ~Split(BucketOf(x))
        /\ Begin(r, [x EXCEPT !.count = Found(BucketOf(x)), !.ids = ids])

CountVerify(r) ==
    /\ Running(r) /\ req[r].kind = "verify" /\ req[r].at = "network"
    /\ ~Locked(r, BucketOf(req[r]))
    /\ LET refused == Over(req[r]) \/ \A i \in req[r].ids : tokens[i].used IN
       Goes(r, [Hit(r) EXCEPT !.at = IF refused THEN "refusing" ELSE "using"])

\* The link of a disabled account is used up, and opens nothing.
LoadUser(r) ==
    /\ Running(r) /\ req[r].at = "using"
    /\ LET known == account[req[r].user] IN
       Goes(r, [req[r] EXCEPT !.known = known,
                              !.at = IF known = "disabled" THEN "writing" ELSE "saving"])

\* Mutant: users are written when the request commits.
NeverHeld(r) == FALSE

\* The row of the user, inserted or updated, is another's until that commits.
Held(r) ==
    \E q \in Req \ {r} : Running(q) /\ req[q].saved /\ req[q].user = req[r].user

Rows(u) == {i \in DOMAIN admins : admins[i].user = u /\ admins[i].active}

ActiveRows == {i \in DOMAIN admins : admins[i].active}

\* The row is flushed, then the admin rows are read: for the first admin, or for
\* a second grant. A row that somebody else has inserted meanwhile is an error.
Save(r) ==
    /\ Running(r) /\ req[r].at = "saving"
    /\ LET x == req[r]
           inserts == x.known = "none"
           writes  == inserts \/ x.kind = "verify"
           grants  == IF x.kind = "verify"
                      THEN x.user = Bootstrap /\ ActiveRows = {} ELSE Rows(x.user) = {}
       IN  /\ writes => ~Held(r)
           /\ IF (inserts /\ account[x.user] # "none") \/ (x.kind = "grant" /\ ~grants)
              THEN Goes(r, Idle)
              ELSE Goes(r, [x EXCEPT !.at = "writing", !.saved = writes, !.grants = grants])

-----------------------------------------------------------------------------
(* Admins. The role and the session are looked at when the request begins. *)

Accepted(i) == ~sessions[i].revoked /\ account[sessions[i].user] = "active"

IsAdmin(u) == account[u] = "active" /\ Rows(u) # {}

Authorised(u) == IsAdmin(u) /\ \E i \in DOMAIN sessions : sessions[i].user = u /\ Accepted(i)

Grant(r) ==
    \E by, u \in User :
        /\ Authorised(by)
        /\ Begin(r, [Request("grant", "saving", u, ANet) EXCEPT !.by = by, !.known = account[u]])

\* Mutant: an admin may act on himself.
Anybody(by, u) == TRUE

Protected(by, u) == by # u

Revoke(r) ==
    \E by \in User, i \in ActiveRows :
        /\ Authorised(by) /\ Protected(by, admins[i].user)
        /\ Begin(r, [Request("revoke", "writing", admins[i].user, ANet)
                        EXCEPT !.by = by, !.ids = {i}])

\* Mutant: disabling leaves the sessions alone.
NoSessions(u) == {}

OpenSessions(u) == {i \in DOMAIN sessions : sessions[i].user = u /\ ~sessions[i].revoked}

Toggle(r) ==
    \E by, u \in User :
        /\ Authorised(by) /\ Protected(by, u) /\ account[u] # "none"
        /\ Begin(r, [Request("toggle", "writing", u, ANet)
                        EXCEPT !.by = by, !.known = account[u], !.ids = OpenSessions(u)])

-----------------------------------------------------------------------------
(* Commits.                                                                *)

Commits(r, kinds) == Running(r) /\ req[r].at = "writing" /\ req[r].kind \in kinds

Ends(r) ==
    /\ counters' = Counted(r)
    /\ req' = [req EXCEPT ![r] = Idle]
    /\ UNCHANGED <<window, begun>>

Refuse(r) ==
    /\ Running(r) /\ req[r].at = "refusing"
    /\ Ends(r)
    /\ UNCHANGED <<account, admins, tokens, sessions, stale>>

UsedUp(ids) ==
    [i \in DOMAIN tokens |-> IF i \in ids THEN [tokens[i] EXCEPT !.used = TRUE] ELSE tokens[i]]

IssueLink(r) ==
    /\ Commits(r, {"login"})
    /\ tokens' = Append(UsedUp(req[r].ids),
                        [user |-> req[r].user, used |-> FALSE, window |-> req[r].window])
    /\ Ends(r)
    /\ UNCHANGED <<account, admins, sessions, stale>>

AdminRow(u, by) == [user |-> u, by |-> by, active |-> TRUE]

\* late is history: the account is being disabled, or has been, since it was loaded.
Late(r) ==
    \/ account[req[r].user] = "disabled"
    \/ \E q \in Req : /\ Running(q) /\ req[q].kind = "toggle"
                      /\ req[q].user = req[r].user /\ req[q].known = "active"

OpenSession(r) ==
    /\ Commits(r, {"verify"})
    /\ LET x == req[r] IN
       /\ tokens' = UsedUp(x.ids)
       /\ \/ /\ x.known = "disabled"
             /\ UNCHANGED <<account, admins, sessions>>
          \/ /\ x.known # "disabled"
             /\ account' = [account EXCEPT ![x.user] = IF x.known = "none" THEN "active" ELSE @]
             /\ admins' = IF x.grants THEN Append(admins, AdminRow(x.user, "bootstrap"))
                          ELSE admins
             /\ sessions' = Append(sessions,
                    [user |-> x.user, link |-> CHOOSE i \in x.ids : TRUE, net |-> x.net,
                     window |-> x.window, late |-> Late(r), revoked |-> FALSE])
    /\ Ends(r)
    /\ UNCHANGED stale

ActsStale(r) == stale' = (stale \/ ~IsAdmin(req[r].by))

CommitGrant(r) ==
    /\ Commits(r, {"grant"})
    /\ account' = [account EXCEPT ![req[r].user] = IF req[r].known = "none" THEN "active" ELSE @]
    /\ admins' = Append(admins, AdminRow(req[r].user, "grant"))
    /\ Ends(r) /\ ActsStale(r)
    /\ UNCHANGED <<tokens, sessions>>

CommitRevoke(r) ==
    /\ Commits(r, {"revoke"})
    /\ admins' = [i \in DOMAIN admins |->
                     IF i \in req[r].ids THEN [admins[i] EXCEPT !.active = FALSE] ELSE admins[i]]
    /\ Ends(r) /\ ActsStale(r)
    /\ UNCHANGED <<account, tokens, sessions>>

\* Two that loaded the same both write the same.
CommitToggle(r) ==
    /\ Commits(r, {"toggle"}) /\ ~Held(r)
    /\ LET disables == req[r].known = "active" IN
       /\ account' = [account EXCEPT ![req[r].user] = IF disables THEN "disabled" ELSE "active"]
       /\ sessions' = [i \in DOMAIN sessions |->
                          IF disables /\ i \in req[r].ids
                          THEN [sessions[i] EXCEPT !.revoked = TRUE] ELSE sessions[i]]
    /\ Ends(r) /\ ActsStale(r)
    /\ UNCHANGED <<admins, tokens>>

\* The worker stops: what was not committed is gone.
Crash(r) == Running(r) /\ Goes(r, Idle)

NextWindow ==
    /\ window < MaxWindow
    /\ window' = window + 1
    /\ UNCHANGED <<counters, account, admins, tokens, sessions, req, begun, stale>>

\* Signed in with a link of an earlier window.
SignedIn(u) == [user |-> u, link |-> 0, net |-> ANet,
                window |-> 0, late |-> FALSE, revoked |-> FALSE]

\* A new installation, or one where these people are admins and signed in.
InitWith(staff) ==
    /\ window = 0
    /\ counters = [k \in Bucket |-> <<>>]
    /\ account = [u \in User |-> IF \E i \in DOMAIN staff : staff[i] = u THEN "active" ELSE "none"]
    /\ admins = [i \in DOMAIN staff |-> AdminRow(staff[i], IF i = 1 THEN "bootstrap" ELSE "grant")]
    /\ tokens = <<>>
    /\ sessions = [i \in DOMAIN staff |-> SignedIn(staff[i])]
    /\ req = [r \in Req |-> Idle]
    /\ begun = 0 /\ stale = FALSE

Init ==
    \/ InitWith(<<>>)
    \/ \E u \in User \ {Bootstrap} : InitWith(<<Bootstrap, u>>)

Next ==
    \/ NextWindow
    \/ \E r \in Req :
         \/ Login(r) \/ CountNetwork(r) \/ CountAddress(r) \/ IssueLink(r)
         \/ Verify(r) \/ CountVerify(r) \/ LoadUser(r) \/ Save(r) \/ OpenSession(r)
         \/ Grant(r) \/ Revoke(r) \/ Toggle(r)
         \/ CommitGrant(r) \/ CommitRevoke(r) \/ CommitToggle(r)
         \/ Refuse(r) \/ Crash(r)

Spec == Init /\ [][Next]_vars

-----------------------------------------------------------------------------
(* Properties.                                                             *)

\* Rows and requests stay within their types, a counter that exists has counted,
\* and admins and sessions are of people with an account.
TypeOK ==
    /\ window \in 0 .. MaxWindow /\ begun \in 0 .. MaxRequests /\ stale \in BOOLEAN
    /\ counters \in [Bucket -> Seq(Nat \ {0})]
    /\ account \in [User -> {"none", "active", "disabled"}]
    /\ admins \in Seq([user: User, by: {"bootstrap", "grant"}, active: BOOLEAN])
    /\ tokens \in Seq([user: User, used: BOOLEAN, window: 0 .. MaxWindow])
    /\ sessions \in Seq([user: User, link: Nat, net: Net, window: 0 .. MaxWindow,
                         late: BOOLEAN, revoked: BOOLEAN])
    /\ req \in [Req -> {Idle} \union
         [kind: {"login", "verify", "grant", "revoke", "toggle"},
          at: {"network", "address", "using", "saving", "refusing", "writing"},
          user: User, net: Net, window: 0 .. MaxWindow,
          known: {"none", "active", "disabled"}, count: Nat, hits: SUBSET (Bucket \X Nat),
          ids: SUBSET Nat, by: User, saved: BOOLEAN, grants: BOOLEAN]]
    /\ \A i \in DOMAIN admins : account[admins[i].user] # "none"
    /\ \A i \in DOMAIN sessions :
         /\ account[sessions[i].user] # "none"
         /\ sessions[i].link \in {0} \union DOMAIN tokens

\* Only the counters stand between a link and a second session: two sessions
\* from one link were opened from different networks, in different windows, or
\* after two first requests had split the counter of their network.
OneSessionPerNetwork ==
    \A i, j \in DOMAIN sessions :
        (i # j /\ sessions[i].link = sessions[j].link /\ sessions[i].link # 0) =>
            \/ sessions[i].net # sessions[j].net
            \/ sessions[i].window # sessions[j].window
            \/ Split(<<"verify_ip", sessions[i].net, sessions[i].window>>)

\* Two usable links to one address were asked for in different windows, or
\* after two first requests had split the counter of the address.
OneUsableLinkPerWindow ==
    \A i, j \in DOMAIN tokens :
        (i # j /\ tokens[i].user = tokens[j].user /\ ~tokens[i].used /\ ~tokens[j].used) =>
            \/ tokens[i].window # tokens[j].window
            \/ Split(<<"login_email", tokens[i].user, tokens[i].window>>)

\* However sign-ins of the bootstrap admin overlap, the role is granted to him
\* once: the row of the user is locked before the admin rows are read.
BootstrapOnce ==
    Cardinality({i \in ActiveRows : admins[i].by = "bootstrap"}) <= 1

\* An installation that has had an admin has one who is not disabled, unless
\* somebody acted as an admin who was no longer one when his request committed.
AdminUnlessStale ==
    admins # <<>> => stale \/ \E u \in User : IsAdmin(u)

\* A session that enabling the account would bring back was opened by a sign-in
\* that overlapped the disabling.
SignedOutUnlessLate ==
    \A i \in DOMAIN sessions :
        (account[sessions[i].user] = "disabled" /\ ~sessions[i].revoked) => sessions[i].late
=============================================================================
