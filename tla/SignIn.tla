------------------------------- MODULE SignIn -------------------------------
(***************************************************************************)
(* Sign-in links, sessions, the bootstrap admin and what admins do to each *)
(* other, one request after another. Everybody here has an address on an   *)
(* allowed domain. A request that is refused, the rate limits included,    *)
(* changes nothing here. Rows the nightly job purges have expired long     *)
(* before and are refused either way, so they are kept.                    *)
(***************************************************************************)
EXTENDS Integers, Sequences

CONSTANTS
    User,        \* people, by email
    Bootstrap,   \* bootstrap_admin_email
    NoUser,      \* bootstrap_admin_email is not set
    TokenTtl,    \* magic_link_ttl_minutes
    Sliding,     \* session_sliding_hours
    Remember,    \* remember_me_days
    RenewAfter,  \* a session is renewed when last seen longer ago than this
    MaxTime,     \* bound of the model: the last moment
    MaxTokens,   \* bound of the model: links requested
    MaxSessions  \* bound of the model: sessions opened

ASSUME SignInAssumption ==
    /\ NoUser \notin User
    /\ Bootstrap \in User \union {NoUser}
    /\ {TokenTtl, Sliding, Remember, RenewAfter} \subseteq Nat
    /\ {MaxTime, MaxTokens, MaxSessions} \subseteq Nat

VARIABLES
    now,       \* the clock
    account,   \* the users table: no row, active or disabled
    admins,    \* people with an active admin row
    tokens,    \* magic_link_tokens, in the order they were requested
    sessions   \* sessions, in the order they were opened

vars == <<now, account, admins, tokens, sessions>>

-----------------------------------------------------------------------------
\* What the tables hold; "none" is a person without a row. A session also notes, as history, the link it came from.
Account == {"none", "active", "disabled"}
Token   == [email: User, expires: Nat, used: BOOLEAN]
Session == [email: User, seen: Nat, expires: Nat, absolute: Nat,
            revoked: BOOLEAN, link: Nat]

Expired(moment) == moment < now

Usable(t) == ~t.used /\ ~Expired(t.expires)

\* load_session finds it: the cookie of this session is accepted.
Accepted(x) ==
    /\ ~x.revoked
    /\ ~Expired(x.expires) /\ ~Expired(x.absolute)
    /\ account[x.email] = "active"

Earlier(a, b) == IF a < b THEN a ELSE b

\* Every page and every action of a signed-in user first renews the session,
\* by the sliding time whatever the session was opened with.
Renewed(x) ==
    IF now - x.seen > RenewAfter
    THEN [x EXCEPT !.seen = now, !.expires = Earlier(now + Sliding, x.absolute)]
    ELSE x

\* Signing out everywhere: all sessions of one person are revoked.
\* Mutant: only the newest session.
NewestRevoked(list, email) ==
    [i \in DOMAIN list |->
        IF i = Len(list) /\ list[i].email = email
        THEN [list[i] EXCEPT !.revoked = TRUE] ELSE list[i]]

AllRevoked(list, email) ==
    [i \in DOMAIN list |->
        IF list[i].email = email THEN [list[i] EXCEPT !.revoked = TRUE] ELSE list[i]]

\* A new link uses up the earlier ones of the same address.
Superseded(list, email) ==
    [i \in DOMAIN list |->
        IF list[i].email = email THEN [list[i] EXCEPT !.used = TRUE] ELSE list[i]]

-----------------------------------------------------------------------------
Init ==
    /\ now = 0
    /\ account = [u \in User |-> "none"]
    /\ admins = {}
    /\ tokens = <<>>
    /\ sessions = <<>>

Tick == /\ now < MaxTime
        /\ now' = now + 1
        /\ UNCHANGED <<account, admins, tokens, sessions>>

\* The sign-in page asks for a link; nothing is sent to a disabled account.
RequestLink(u) ==
    /\ Len(tokens) < MaxTokens
    /\ account[u] # "disabled"
    /\ tokens' = Append(Superseded(tokens, u),
                        [email |-> u, expires |-> now + TokenTtl, used |-> FALSE])
    /\ UNCHANGED <<now, account, admins, sessions>>

\* The first admin: only while no admin row is active.
AdminsAfter(u) ==
    IF u = Bootstrap /\ admins = {} THEN {u} ELSE admins

\* Mutant: a link can be used until it expires.
Consumed(t) == t

Used(t) == [t EXCEPT !.used = TRUE]

\* A link is used up, then opens a session. One for a disabled account is used
\* up all the same.
Verify(i) ==
    /\ i \in DOMAIN tokens /\ Usable(tokens[i])
    /\ tokens' = [tokens EXCEPT ![i] = Used(@)]
    /\ LET u == tokens[i].email IN
       IF account[u] = "disabled"
       THEN UNCHANGED <<account, admins, sessions>>
       ELSE /\ Len(sessions) < MaxSessions
            /\ account' = [account EXCEPT ![u] = "active"]
            /\ admins' = AdminsAfter(u)
            /\ sessions' = Append(sessions,
                 [email |-> u, seen |-> now, expires |-> now + Remember,
                  absolute |-> now + Remember, revoked |-> FALSE, link |-> i])
    /\ UNCHANGED now

\* A request that reads: the session is renewed, if it was not just seen.
Visit(i) ==
    /\ i \in DOMAIN sessions /\ Accepted(sessions[i])
    /\ Renewed(sessions[i]) # sessions[i]
    /\ sessions' = [sessions EXCEPT ![i] = Renewed(@)]
    /\ UNCHANGED <<now, account, admins, tokens>>

\* Signing out needs only the cookie.
Logout(i) ==
    /\ i \in DOMAIN sessions
    /\ sessions' = [sessions EXCEPT ![i].revoked = TRUE]
    /\ UNCHANGED <<now, account, admins, tokens>>

-----------------------------------------------------------------------------
(* Admins, through one of their sessions i.                                *)

AdminActs(i) ==
    /\ i \in DOMAIN sessions /\ Accepted(sessions[i])
    /\ sessions[i].email \in admins

\* A grant also creates the account of somebody who never signed in.
GrantAdmin(i, u) ==
    /\ AdminActs(i)
    /\ sessions' = [sessions EXCEPT ![i] = Renewed(@)]
    /\ account' = [account EXCEPT ![u] = IF @ = "none" THEN "active" ELSE @]
    /\ admins' = admins \union {u}
    /\ UNCHANGED <<now, tokens>>

\* Mutant: an admin may give up the role.
NotProtected(i, u) == TRUE

\* Neither the own role nor the own account.
Protected(i, u) == u # sessions[i].email

RevokeAdmin(i, u) ==
    /\ AdminActs(i)
    /\ u \in admins
    /\ Protected(i, u)
    /\ sessions' = [sessions EXCEPT ![i] = Renewed(@)]
    /\ admins' = admins \ {u}
    /\ UNCHANGED <<now, account, tokens>>

\* Disabling revokes all sessions; enabling revokes none and opens none.
ToggleDisabled(i, u) ==
    /\ AdminActs(i)
    /\ account[u] # "none"
    /\ Protected(i, u)
    /\ LET renewed == [sessions EXCEPT ![i] = Renewed(@)] IN
       \/ /\ account[u] = "active"
          /\ account' = [account EXCEPT ![u] = "disabled"]
          /\ sessions' = AllRevoked(renewed, u)
       \/ /\ account[u] = "disabled"
          /\ account' = [account EXCEPT ![u] = "active"]
          /\ sessions' = renewed
    /\ UNCHANGED <<now, admins, tokens>>

Next ==
    \/ Tick
    \/ \E u \in User : RequestLink(u)
    \/ \E i \in DOMAIN tokens : Verify(i)
    \/ \E i \in DOMAIN sessions :
         \/ Visit(i) \/ Logout(i)
         \/ \E u \in User :
              GrantAdmin(i, u) \/ RevokeAdmin(i, u) \/ ToggleDisabled(i, u)

Spec == Init /\ [][Next]_vars

-----------------------------------------------------------------------------
(* Properties.                                                             *)

\* Accounts, roles, links and sessions stay within their types.
TypeOK ==
    /\ now \in Nat
    /\ account \in [User -> Account]
    /\ admins \subseteq User
    /\ tokens \in Seq(Token)
    /\ sessions \in Seq(Session)

\* Once somebody is an admin, somebody who can sign in always is, whatever
\* admins grant, revoke, disable and enable, so the bootstrap is needed once.
AnAdminRemains ==
    [][admins # {} => \E u \in admins' : account'[u] = "active"]_vars

\* Of the links to one address only the newest can be used.
OneUsableLink ==
    \A i, j \in DOMAIN tokens :
        (tokens[i].email = tokens[j].email /\ ~tokens[i].used /\ ~tokens[j].used)
            => i = j

\* Every session came from a link of its own, to the same address.
OneSessionPerLink ==
    \A i, j \in DOMAIN sessions :
        /\ sessions[i].link \in DOMAIN tokens
        /\ tokens[sessions[i].link].email = sessions[i].email
        /\ sessions[i].link = sessions[j].link => i = j

\* A disabled account has no session left that enabling it would bring back.
DisabledIsSignedOut ==
    \A i \in DOMAIN sessions :
        account[sessions[i].email] = "disabled" => sessions[i].revoked

-----------------------------------------------------------------------------
(* What the sign-in page says and the renewal does not keep.               *)

\* login.html: sessions stay active for remember_me_days on this device.
RememberedStays ==
    \A i \in DOMAIN sessions :
        (/\ ~sessions[i].revoked /\ account[sessions[i].email] = "active"
         /\ ~Expired(sessions[i].absolute)) => Accepted(sessions[i])
=============================================================================
