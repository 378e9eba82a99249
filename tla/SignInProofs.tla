---------------------------- MODULE SignInProofs ----------------------------
(***************************************************************************)
(* Proofs about SignIn for any people, durations and bounds: links and     *)
(* sessions are used once, a disabled account is signed out, and an admin  *)
(* always remains.                                                         *)
(***************************************************************************)
EXTENDS SignIn, TLAPS

-----------------------------------------------------------------------------
(* What the helpers return.                                                *)

\* Sessions b are the sessions a, renewed or revoked.
Kept(a, b) ==
    /\ DOMAIN b = DOMAIN a
    /\ \A i \in DOMAIN a : /\ b[i].email = a[i].email
                           /\ b[i].link = a[i].link
                           /\ a[i].revoked => b[i].revoked

\* revoke_all_sessions revokes those of one person and keeps the others.
LEMMA RevokedAll ==
    ASSUME NEW u \in User, NEW l \in Seq(Session)
    PROVE  /\ AllRevoked(l, u) \in Seq(Session)
           /\ Kept(l, AllRevoked(l, u))
           /\ \A i \in DOMAIN l : l[i].email = u => AllRevoked(l, u)[i].revoked
  <1> DEFINE r == AllRevoked(l, u)
  <1>1. DOMAIN r = DOMAIN l  BY DEF AllRevoked
  <1>2. ASSUME NEW i \in DOMAIN l
        PROVE  /\ r[i] \in Session
               /\ r[i].email = l[i].email /\ r[i].link = l[i].link
               /\ l[i].revoked => r[i].revoked
               /\ l[i].email = u => r[i].revoked
    <2>1. l[i] \in Session  BY <1>2
    <2>2. r[i] = IF l[i].email = u THEN [l[i] EXCEPT !.revoked = TRUE] ELSE l[i]
      BY <1>2 DEF AllRevoked
    <2> HIDE DEF r
    <2> QED  BY <2>1, <2>2 DEF Session
  <1>3. r \in [1..Len(l) -> Session]
    BY <1>2 DEF AllRevoked
  <1>4. r \in Seq(Session)
    <2>1. Len(l) \in Nat  OBVIOUS
    <2> HIDE DEF r
    <2> QED  BY <1>3, <2>1
  <1> HIDE DEF r
  <1>5. Kept(l, r)  BY <1>1, <1>2 DEF Kept
  <1> QED  BY <1>2, <1>4, <1>5 DEF r

\* request_magic_link uses up the links to one address and keeps the others.
LEMMA SupersededAll ==
    ASSUME NEW u \in User, NEW l \in Seq(Token)
    PROVE  /\ Superseded(l, u) \in Seq(Token)
           /\ DOMAIN Superseded(l, u) = DOMAIN l
           /\ \A i \in DOMAIN l :
                /\ Superseded(l, u)[i].email = l[i].email
                /\ l[i].used \/ l[i].email = u <=> Superseded(l, u)[i].used
  <1> DEFINE r == Superseded(l, u)
  <1>1. DOMAIN r = DOMAIN l  BY DEF Superseded
  <1>2. ASSUME NEW i \in DOMAIN l
        PROVE  /\ r[i] \in Token
               /\ r[i].email = l[i].email
               /\ l[i].used \/ l[i].email = u <=> r[i].used
    <2>1. l[i] \in Token  BY <1>2
    <2>2. r[i] = IF l[i].email = u THEN [l[i] EXCEPT !.used = TRUE] ELSE l[i]
      BY <1>2 DEF Superseded
    <2> HIDE DEF r
    <2>3. CASE l[i].email = u  BY <2>1, <2>2, <2>3 DEF Token
    <2>4. CASE l[i].email # u  BY <2>1, <2>2, <2>4 DEF Token
    <2> QED  BY <2>3, <2>4
  <1>3. r \in [1..Len(l) -> Token]
    BY <1>2 DEF Superseded
  <1>4. r \in Seq(Token)
    <2>1. Len(l) \in Nat  OBVIOUS
    <2> HIDE DEF r
    <2> QED  BY <1>3, <2>1
  <1> HIDE DEF r
  <1> QED  BY <1>1, <1>2, <1>4 DEF r

\* load_session changes when a session expires, not whose it is or its state.
LEMMA RenewedKept ==
    ASSUME SignInAssumption, now \in Nat,
           NEW l \in Seq(Session), NEW i \in DOMAIN l
    PROVE  /\ [l EXCEPT ![i] = Renewed(@)] \in Seq(Session)
           /\ Kept(l, [l EXCEPT ![i] = Renewed(@)])
  <1> DEFINE r == [l EXCEPT ![i] = Renewed(@)]
  <1>1. l[i] \in Session  OBVIOUS
  <1>2. /\ Renewed(l[i]) \in Session
        /\ Renewed(l[i]).email = l[i].email
        /\ Renewed(l[i]).link = l[i].link
        /\ Renewed(l[i]).revoked = l[i].revoked
    <2>1. CASE now - l[i].seen > RenewAfter
      <3>1. Earlier(now + Sliding, l[i].absolute) \in Nat
        <4>1. Sliding \in Nat  BY DEF SignInAssumption
        <4>2. l[i].absolute \in Nat  BY <1>1 DEF Session
        <4> QED  BY <4>1, <4>2 DEF Earlier
      <3> QED  BY <1>1, <2>1, <3>1 DEF Renewed, Session
    <2>2. CASE ~(now - l[i].seen > RenewAfter)
      BY <1>1, <2>2 DEF Renewed
    <2> QED  BY <2>1, <2>2
  <1>3. r \in Seq(Session)  BY <1>2
  <1>4. Kept(l, r)
    <2> SUFFICES ASSUME NEW j \in DOMAIN l
                 PROVE  /\ r[j].email = l[j].email
                        /\ r[j].link = l[j].link
                        /\ l[j].revoked => r[j].revoked
      BY DEF Kept
    <2>1. CASE j = i  BY <1>2, <2>1
    <2>2. CASE j # i  BY <2>2
    <2> QED  BY <2>1, <2>2
  <1> QED  BY <1>3, <1>4

-----------------------------------------------------------------------------
(* The inductive invariant.                                                *)

\* Whoever holds the role, one of them can sign in.
AdminCanSignIn == admins # {} => \E u \in admins : account[u] = "active"

\* A link that opened a session is used up.
SessionLinksUsed ==
    \A i \in DOMAIN sessions : /\ sessions[i].link \in DOMAIN tokens
                               /\ tokens[sessions[i].link].used

IInv == /\ TypeOK /\ OneUsableLink /\ OneSessionPerLink /\ DisabledIsSignedOut
        /\ AdminCanSignIn /\ SessionLinksUsed

LEMMA InitIInv == Init => IInv
  <1> SUFFICES ASSUME Init PROVE IInv  OBVIOUS
  <1> USE DEF Init
  <1>1. TypeOK  BY DEF TypeOK, Account
  <1>2. DOMAIN tokens = {} /\ DOMAIN sessions = {}  OBVIOUS
  <1> QED
    BY <1>1, <1>2 DEF IInv, OneUsableLink, OneSessionPerLink, DisabledIsSignedOut,
                      AdminCanSignIn, SessionLinksUsed

\* Steps that keep the links, and renew or revoke sessions.
LEMMA KeptStep ==
    ASSUME IInv, now' = now, tokens' = tokens,
           Kept(sessions, sessions'), sessions' \in Seq(Session),
           account' \in [User -> Account], admins' \subseteq User,
           DisabledIsSignedOut', AdminCanSignIn'
    PROVE  IInv'
  <1>1. TypeOK'  BY DEF IInv, TypeOK
  <1>2. OneUsableLink'  BY DEF IInv, OneUsableLink
  <1>3. OneSessionPerLink'  BY DEF IInv, OneSessionPerLink, Kept
  <1>4. SessionLinksUsed'  BY DEF IInv, SessionLinksUsed, Kept
  <1> QED  BY <1>1, <1>2, <1>3, <1>4 DEF IInv

\* Links b continue the links a: no link is lost or unused again.
Continued(a, b) ==
    \A i \in DOMAIN a : /\ i \in DOMAIN b /\ b[i].email = a[i].email
                        /\ a[i].used => b[i].used

\* Steps that keep the sessions and continue the links keep what ties the two.
LEMMA LinksContinue ==
    ASSUME IInv, sessions' = sessions, Continued(tokens, tokens')
    PROVE  OneSessionPerLink' /\ SessionLinksUsed'
  <1>1. ASSUME NEW j \in DOMAIN sessions
        PROVE  /\ sessions[j].link \in DOMAIN tokens'
               /\ tokens'[sessions[j].link].email = sessions[j].email
               /\ tokens'[sessions[j].link].used
    <2> DEFINE k == sessions[j].link
    <2>1. k \in DOMAIN tokens /\ tokens[k].email = sessions[j].email
      BY DEF IInv, OneSessionPerLink
    <2>2. tokens[k].used  BY DEF IInv, SessionLinksUsed
    <2> HIDE DEF k
    <2>3. /\ k \in DOMAIN tokens' /\ tokens'[k].email = tokens[k].email
          /\ tokens[k].used => tokens'[k].used
      BY <2>1 DEF Continued
    <2> QED  BY <2>1, <2>2, <2>3 DEF k
  <1>2. \A i, j \in DOMAIN sessions : sessions[i].link = sessions[j].link => i = j
    BY DEF IInv, OneSessionPerLink
  <1>3. OneSessionPerLink'  BY <1>1, <1>2 DEF OneSessionPerLink
  <1>4. SessionLinksUsed'  BY <1>1 DEF SessionLinksUsed
  <1> QED  BY <1>3, <1>4

\* An action of an admin through session i leaves the admin one.
LEMMA ActorRemains ==
    ASSUME IInv, NEW i \in DOMAIN sessions, AdminActs(i),
           sessions[i].email \in admins', account'[sessions[i].email] = "active"
    PROVE  AdminCanSignIn'
  BY DEF AdminCanSignIn

\* Asking for a link leaves one usable link to the address.
LEMMA RequestStep ==
    ASSUME IInv, NEW u \in User, SignInAssumption, RequestLink(u) PROVE IInv'
  <1> DEFINE new == [email |-> u, expires |-> now + TokenTtl, used |-> FALSE]
             old == Superseded(tokens, u)
  <1>1. tokens \in Seq(Token) /\ now \in Nat  BY DEF IInv, TypeOK
  <1>2. new \in Token
    <2>1. TokenTtl \in Nat  BY DEF SignInAssumption
    <2> QED  BY <1>1, <2>1 DEF Token
  <1>3. /\ old \in Seq(Token) /\ DOMAIN old = DOMAIN tokens
        /\ \A i \in DOMAIN tokens :
             /\ old[i].email = tokens[i].email
             /\ tokens[i].used \/ tokens[i].email = u <=> old[i].used
    BY <1>1, SupersededAll
  <1>4. tokens' = Append(old, new)  BY DEF RequestLink
  <1> HIDE DEF old
  <1>5. /\ tokens' \in Seq(Token)
        /\ DOMAIN tokens' = DOMAIN tokens \union {Len(tokens) + 1}
        /\ \A i \in DOMAIN tokens : tokens'[i] = old[i]
        /\ tokens'[Len(tokens) + 1] = new
    <2>1. Len(old) = Len(tokens)  BY <1>1, <1>3
    <2> HIDE DEF new
    <2> QED  BY <1>1, <1>2, <1>3, <1>4, <2>1
  <1>6. TypeOK'  BY <1>5 DEF IInv, TypeOK, RequestLink
  <1>7. OneUsableLink'
    <2> SUFFICES ASSUME NEW i \in DOMAIN tokens', NEW j \in DOMAIN tokens',
                        tokens'[i].email = tokens'[j].email,
                        ~tokens'[i].used, ~tokens'[j].used
                 PROVE  i = j
      BY DEF OneUsableLink
    <2>1. CASE i \in DOMAIN tokens /\ j \in DOMAIN tokens
      BY <1>3, <1>5, <2>1 DEF IInv, OneUsableLink
    <2>2. CASE i \in DOMAIN tokens /\ j = Len(tokens) + 1
      BY <1>3, <1>5, <2>2
    <2>3. CASE i = Len(tokens) + 1 /\ j \in DOMAIN tokens
      BY <1>3, <1>5, <2>3
    <2>4. CASE i = Len(tokens) + 1 /\ j = Len(tokens) + 1
      BY <2>4
    <2> QED  BY <1>5, <2>1, <2>2, <2>3, <2>4
  <1>8. Continued(tokens, tokens')  BY <1>3, <1>5 DEF Continued
  <1>9. OneSessionPerLink' /\ SessionLinksUsed'
    BY <1>8, LinksContinue DEF RequestLink
  <1>10. DisabledIsSignedOut' /\ AdminCanSignIn'
    BY DEF IInv, DisabledIsSignedOut, AdminCanSignIn, RequestLink
  <1> QED  BY <1>6, <1>7, <1>9, <1>10 DEF IInv

\* Using a link marks it, and the session it opens is the first of that link.
LEMMA VerifyStep ==
    ASSUME IInv, NEW i \in DOMAIN tokens, SignInAssumption, Verify(i) PROVE IInv'
  <1> DEFINE u == tokens[i].email
             new == [email |-> u, seen |-> now, expires |-> now + Remember,
                     absolute |-> now + Remember, revoked |-> FALSE, link |-> i]
  <1>1. /\ tokens \in Seq(Token) /\ sessions \in Seq(Session)
        /\ now \in Nat /\ admins \subseteq User /\ account \in [User -> Account]
    BY DEF IInv, TypeOK
  <1>2. tokens[i] \in Token /\ u \in User /\ i \in Nat /\ ~tokens[i].used
    <2>1. tokens[i] \in Token /\ i \in Nat  BY <1>1
    <2> QED  BY <2>1 DEF Token, Verify, Usable
  <1>3. /\ tokens' \in Seq(Token) /\ DOMAIN tokens' = DOMAIN tokens
        /\ Continued(tokens, tokens')
        /\ tokens'[i].used
    <2>1. tokens' = [tokens EXCEPT ![i] = Used(@)]  BY DEF Verify
    <2>2. /\ Used(tokens[i]) \in Token /\ Used(tokens[i]).used
          /\ Used(tokens[i]).email = tokens[i].email
      BY <1>2 DEF Used, Token
    <2>3. \A j \in DOMAIN tokens :
            tokens'[j] = IF j = i THEN Used(tokens[i]) ELSE tokens[j]
      BY <1>1, <2>1
    <2>4. tokens' \in Seq(Token) /\ DOMAIN tokens' = DOMAIN tokens
      BY <1>1, <2>1, <2>2
    <2>5. Continued(tokens, tokens')  BY <2>2, <2>3, <2>4 DEF Continued
    <2> QED  BY <2>2, <2>3, <2>4, <2>5
  <1>4. OneUsableLink'
    <2> SUFFICES ASSUME NEW j \in DOMAIN tokens, NEW k \in DOMAIN tokens,
                        tokens'[j].email = tokens'[k].email,
                        ~tokens'[j].used, ~tokens'[k].used
                 PROVE  j = k
      BY <1>3 DEF OneUsableLink
    <2>1. tokens[j].email = tokens[k].email /\ ~tokens[j].used /\ ~tokens[k].used
      BY <1>3 DEF Continued
    <2> QED  BY <2>1 DEF IInv, OneUsableLink
  <1>5. CASE account[u] = "disabled"
    <2>1. UNCHANGED <<now, account, admins, sessions>>
      BY <1>5 DEF Verify
    <2>2. TypeOK'  BY <1>1, <1>3, <2>1 DEF TypeOK
    <2>3. OneSessionPerLink' /\ SessionLinksUsed'
      BY <1>3, <2>1, LinksContinue
    <2>4. DisabledIsSignedOut' /\ AdminCanSignIn'
      BY <2>1 DEF IInv, DisabledIsSignedOut, AdminCanSignIn
    <2> QED  BY <1>4, <2>2, <2>3, <2>4 DEF IInv
  <1>6. CASE account[u] # "disabled"
    <2>1. /\ account' = [account EXCEPT ![u] = "active"]
          /\ admins' = AdminsAfter(u) /\ sessions' = Append(sessions, new)
          /\ now' = now
      BY <1>6 DEF Verify
    <2>2. new \in Session
      <3>1. Remember \in Nat  BY DEF SignInAssumption
      <3> QED  BY <1>1, <1>2, <3>1 DEF Session
    <2>3. /\ sessions' \in Seq(Session)
          /\ DOMAIN sessions' = DOMAIN sessions \union {Len(sessions) + 1}
          /\ \A j \in DOMAIN sessions : sessions'[j] = sessions[j]
          /\ sessions'[Len(sessions) + 1] = new
      <3> HIDE DEF new
      <3> QED  BY <1>1, <2>1, <2>2
    <2>4. new.email = u /\ new.link = i  OBVIOUS
    <2> HIDE DEF new
    <2>5. TypeOK'
      <3>1. account' \in [User -> Account]  BY <1>1, <1>2, <2>1 DEF Account
      <3>2. admins' \subseteq User  BY <1>1, <1>2, <2>1 DEF AdminsAfter
      <3> QED  BY <1>1, <1>3, <2>1, <2>3, <3>1, <3>2 DEF TypeOK
    <2>6. \A j \in DOMAIN sessions :
             /\ sessions[j].link \in DOMAIN tokens /\ sessions[j].link # i
             /\ tokens[sessions[j].link].email = sessions[j].email
      BY <1>2 DEF IInv, SessionLinksUsed, OneSessionPerLink
    <2>7. ASSUME NEW j \in DOMAIN sessions'
          PROVE  /\ sessions'[j].link \in DOMAIN tokens'
                 /\ tokens'[sessions'[j].link].email = sessions'[j].email
                 /\ tokens'[sessions'[j].link].used
      <3>1. CASE j \in DOMAIN sessions
        <4> DEFINE k == sessions[j].link
        <4>1. k \in DOMAIN tokens /\ tokens[k].email = sessions[j].email
          BY <2>6, <3>1
        <4>2. tokens[k].used  BY <3>1 DEF IInv, SessionLinksUsed
        <4>3. sessions'[j] = sessions[j]  BY <2>3, <3>1
        <4> HIDE DEF k
        <4>4. /\ k \in DOMAIN tokens' /\ tokens'[k].email = tokens[k].email
              /\ tokens[k].used => tokens'[k].used
          BY <1>3, <4>1 DEF Continued
        <4> QED  BY <4>1, <4>2, <4>3, <4>4 DEF k
      <3>2. CASE j = Len(sessions) + 1
        <4>1. sessions'[j].link = i /\ sessions'[j].email = tokens[i].email
          BY <2>3, <2>4, <3>2
        <4>2. tokens'[i].email = tokens[i].email  BY <1>3 DEF Continued
        <4> QED  BY <1>3, <4>1, <4>2
      <3> QED  BY <2>3, <3>1, <3>2
    <2>8. OneSessionPerLink' /\ SessionLinksUsed'
      <3>1. SessionLinksUsed'  BY <2>7 DEF SessionLinksUsed
      <3>2. ASSUME NEW j \in DOMAIN sessions', NEW k \in DOMAIN sessions',
                   sessions'[j].link = sessions'[k].link
            PROVE  j = k
        <4>1. \A l \in DOMAIN sessions : sessions'[l].link # i
          BY <2>3, <2>6
        <4>2. sessions'[Len(sessions) + 1].link = i  BY <2>3, <2>4
        <4>3. CASE j \in DOMAIN sessions /\ k \in DOMAIN sessions
          <5>1. sessions[j].link = sessions[k].link  BY <2>3, <3>2, <4>3
          <5> QED  BY <4>3, <5>1 DEF IInv, OneSessionPerLink
        <4>4. CASE j \notin DOMAIN sessions \/ k \notin DOMAIN sessions
          BY <2>3, <3>2, <4>1, <4>2, <4>4
        <4> QED  BY <4>3, <4>4
      <3>3. OneSessionPerLink'  BY <2>7, <3>2 DEF OneSessionPerLink
      <3> QED  BY <3>1, <3>3
    <2>9. account'[u] = "active" /\ \A v \in User \ {u} : account'[v] = account[v]
      BY <1>1, <1>2, <2>1
    <2>10. DisabledIsSignedOut'
      <3> SUFFICES ASSUME NEW j \in DOMAIN sessions',
                          account'[sessions'[j].email] = "disabled"
                   PROVE  sessions'[j].revoked
        BY DEF DisabledIsSignedOut
      <3>1. j \in DOMAIN sessions /\ sessions'[j] = sessions[j]
        BY <2>3, <2>4, <2>9
      <3>2. sessions[j].email \in User \ {u}
        <4>1. sessions[j] \in Session  BY <1>1, <3>1
        <4> QED  BY <2>9, <3>1, <4>1 DEF Session
      <3> QED  BY <2>9, <3>1, <3>2 DEF IInv, DisabledIsSignedOut
    <2>11. AdminCanSignIn'
      BY <1>1, <1>2, <2>1, <2>9 DEF IInv, AdminCanSignIn, AdminsAfter
    <2> QED  BY <1>4, <2>5, <2>8, <2>10, <2>11 DEF IInv
  <1> QED  BY <1>5, <1>6

\* Disabling and the other actions of an admin, which renew session i first.
LEMMA AdminStep ==
    ASSUME IInv, SignInAssumption, NEW i \in DOMAIN sessions, NEW u \in User,
           GrantAdmin(i, u) \/ RevokeAdmin(i, u) \/ ToggleDisabled(i, u)
    PROVE  IInv'
  <1> DEFINE renewed == [sessions EXCEPT ![i] = Renewed(@)]
             actor == sessions[i].email
  <1>1. /\ sessions \in Seq(Session) /\ now \in Nat
        /\ admins \subseteq User /\ account \in [User -> Account]
    BY DEF IInv, TypeOK
  <1>2. renewed \in Seq(Session) /\ Kept(sessions, renewed)
    BY <1>1, RenewedKept
  <1>3. AdminActs(i) /\ now' = now /\ tokens' = tokens
    BY DEF GrantAdmin, RevokeAdmin, ToggleDisabled
  <1>4. /\ actor \in admins /\ account[actor] = "active" /\ actor \in User
    BY <1>1, <1>3 DEF AdminActs, Accepted
  <1>5. ASSUME NEW j \in DOMAIN sessions PROVE sessions[j].email \in User
    <2>1. sessions[j] \in Session  BY <1>1
    <2> QED  BY <2>1 DEF Session
  <1> HIDE DEF renewed, actor
  <1>6. CASE GrantAdmin(i, u)
    <2>1. /\ sessions' = renewed
          /\ account' = [account EXCEPT ![u] = IF @ = "none" THEN "active" ELSE @]
          /\ admins' = admins \union {u}
      BY <1>6 DEF GrantAdmin, renewed
    <2>2. /\ account' \in [User -> Account]
          /\ \A v \in User : account'[v] = account[v]
                           \/ (account[v] = "none" /\ account'[v] = "active")
      BY <1>1, <2>1 DEF Account
    <2>3. DisabledIsSignedOut'
      <3> SUFFICES ASSUME NEW j \in DOMAIN sessions',
                          account'[sessions'[j].email] = "disabled"
                   PROVE  sessions'[j].revoked
        BY DEF DisabledIsSignedOut
      <3>1. /\ j \in DOMAIN sessions /\ sessions'[j].email = sessions[j].email
            /\ sessions[j].revoked => sessions'[j].revoked
        BY <1>2, <2>1 DEF Kept
      <3>2. sessions[j].email \in User  BY <1>5, <3>1
      <3>3. account[sessions[j].email] = "disabled"  BY <2>2, <3>1, <3>2
      <3> QED  BY <3>1, <3>3 DEF IInv, DisabledIsSignedOut
    <2>4. actor \in admins' /\ account'[actor] = "active"
      BY <1>4, <2>1, <2>2
    <2>5. AdminCanSignIn'  BY <1>3, <2>4, ActorRemains DEF actor
    <2>6. admins' \subseteq User  BY <1>1, <2>1
    <2> QED  BY <1>2, <1>3, <2>1, <2>2, <2>3, <2>5, <2>6, KeptStep
  <1>7. CASE RevokeAdmin(i, u)
    <2>1. /\ sessions' = renewed /\ account' = account
          /\ admins' = admins \ {u} /\ u # actor
      BY <1>7 DEF RevokeAdmin, Protected, renewed, actor
    <2>2. DisabledIsSignedOut'
      BY <1>2, <2>1 DEF IInv, DisabledIsSignedOut, Kept
    <2>3. actor \in admins' /\ account'[actor] = "active"  BY <1>4, <2>1
    <2>4. AdminCanSignIn'  BY <1>3, <2>3, ActorRemains DEF actor
    <2>5. admins' \subseteq User  BY <1>1, <2>1
    <2> QED  BY <1>1, <1>2, <1>3, <2>1, <2>2, <2>4, <2>5, KeptStep
  <1>8. CASE ToggleDisabled(i, u)
    <2>1. admins' = admins /\ u # actor
      BY <1>8 DEF ToggleDisabled, Protected, actor
    <2>2. CASE account' = [account EXCEPT ![u] = "disabled"]
               /\ sessions' = AllRevoked(renewed, u)
      <3>1. /\ sessions' \in Seq(Session) /\ Kept(renewed, sessions')
            /\ \A j \in DOMAIN renewed :
                 renewed[j].email = u => sessions'[j].revoked
        BY <1>2, <2>2, RevokedAll
      <3>2. Kept(sessions, sessions')  BY <1>2, <3>1 DEF Kept
      <3>3. account' \in [User -> Account]  BY <1>1, <2>2 DEF Account
      <3>4. \A v \in User \ {u} : account'[v] = account[v]  BY <1>1, <2>2
      <3>5. DisabledIsSignedOut'
        <4> SUFFICES ASSUME NEW j \in DOMAIN sessions',
                            account'[sessions'[j].email] = "disabled"
                     PROVE  sessions'[j].revoked
          BY DEF DisabledIsSignedOut
        <4>1. /\ j \in DOMAIN sessions /\ sessions'[j].email = sessions[j].email
              /\ sessions[j].revoked => sessions'[j].revoked
          BY <3>2 DEF Kept
        <4>2. sessions[j].email \in User  BY <1>5, <4>1
        <4>3. CASE sessions[j].email = u
          BY <1>2, <3>1, <4>1, <4>3 DEF Kept
        <4>4. CASE sessions[j].email # u
          BY <3>4, <4>1, <4>2, <4>4 DEF IInv, DisabledIsSignedOut
        <4> QED  BY <4>3, <4>4
      <3>6. AdminCanSignIn'
        BY <1>3, <1>4, <2>1, <3>4, ActorRemains DEF actor
      <3> QED  BY <1>1, <1>3, <2>1, <3>1, <3>2, <3>3, <3>5, <3>6, KeptStep
    <2>3. CASE account' = [account EXCEPT ![u] = "active"] /\ sessions' = renewed
      <3>1. account' \in [User -> Account]  BY <1>1, <2>3 DEF Account
      <3>2. account'[u] = "active" /\ \A v \in User \ {u} : account'[v] = account[v]
        BY <1>1, <2>3
      <3>3. DisabledIsSignedOut'
        <4> SUFFICES ASSUME NEW j \in DOMAIN sessions',
                            account'[sessions'[j].email] = "disabled"
                     PROVE  sessions'[j].revoked
          BY DEF DisabledIsSignedOut
        <4>1. /\ j \in DOMAIN sessions /\ sessions'[j].email = sessions[j].email
              /\ sessions[j].revoked => sessions'[j].revoked
          BY <1>2, <2>3 DEF Kept
        <4>2. sessions[j].email \in User  BY <1>5, <4>1
        <4> QED  BY <3>2, <4>1, <4>2 DEF IInv, DisabledIsSignedOut
      <3>4. AdminCanSignIn'
        BY <1>3, <1>4, <2>1, <3>2, ActorRemains DEF actor
      <3> QED  BY <1>1, <1>2, <1>3, <2>1, <2>3, <3>1, <3>3, <3>4, KeptStep
    <2> QED  BY <1>8, <2>2, <2>3 DEF ToggleDisabled, renewed
  <1> QED  BY <1>6, <1>7, <1>8

\* Every step keeps the invariant.
LEMMA NextIInv == SignInAssumption /\ IInv /\ [Next]_vars => IInv'
  <1> SUFFICES ASSUME SignInAssumption, IInv, [Next]_vars PROVE IInv'
    OBVIOUS
  <1>1. /\ sessions \in Seq(Session) /\ now \in Nat
        /\ admins \subseteq User /\ account \in [User -> Account]
    BY DEF IInv, TypeOK
  <1>2. ASSUME Kept(sessions, sessions'), sessions' \in Seq(Session),
               UNCHANGED <<now, account, admins, tokens>>
        PROVE  IInv'
    <2>1. DisabledIsSignedOut'
      BY <1>2 DEF IInv, DisabledIsSignedOut, Kept
    <2>2. AdminCanSignIn'  BY <1>2 DEF IInv, AdminCanSignIn
    <2> QED  BY <1>1, <1>2, <2>1, <2>2, KeptStep
  <1>3. CASE Tick
    <2>1. now' \in Nat  BY <1>1, <1>3 DEF Tick
    <2>2. UNCHANGED <<account, admins, tokens, sessions>>  BY <1>3 DEF Tick
    <2>3. TypeOK'  BY <2>1, <2>2 DEF IInv, TypeOK
    <2> QED
      BY <2>2, <2>3 DEF IInv, OneUsableLink, OneSessionPerLink,
                        DisabledIsSignedOut, AdminCanSignIn, SessionLinksUsed
  <1>4. ASSUME NEW u \in User, RequestLink(u) PROVE IInv'  BY <1>4, RequestStep
  <1>5. ASSUME NEW i \in DOMAIN tokens, Verify(i) PROVE IInv'  BY <1>5, VerifyStep
  <1>6. ASSUME NEW i \in DOMAIN sessions, Visit(i) PROVE IInv'
    BY <1>1, <1>2, <1>6, RenewedKept DEF Visit
  <1>7. ASSUME NEW i \in DOMAIN sessions, Logout(i) PROVE IInv'
    <2>1. sessions' = [sessions EXCEPT ![i].revoked = TRUE]  BY <1>7 DEF Logout
    <2>2. sessions[i] \in Session  BY <1>1
    <2>3. [sessions[i] EXCEPT !.revoked = TRUE] \in Session  BY <2>2 DEF Session
    <2>4. sessions' \in Seq(Session)  BY <1>1, <2>1, <2>3
    <2>5. Kept(sessions, sessions')
      <3> SUFFICES ASSUME NEW j \in DOMAIN sessions
                   PROVE  /\ sessions'[j].email = sessions[j].email
                          /\ sessions'[j].link = sessions[j].link
                          /\ sessions[j].revoked => sessions'[j].revoked
        BY <2>1 DEF Kept
      <3>1. CASE j = i
        <4>1. sessions'[j] = [sessions[i] EXCEPT !.revoked = TRUE]
          BY <1>1, <2>1, <3>1
        <4> QED  BY <2>2, <3>1, <4>1 DEF Session
      <3>2. CASE j # i  BY <2>1, <3>2
      <3> QED  BY <3>1, <3>2
    <2> QED  BY <1>2, <1>7, <2>4, <2>5 DEF Logout
  <1>8. ASSUME NEW i \in DOMAIN sessions, NEW u \in User,
               GrantAdmin(i, u) \/ RevokeAdmin(i, u) \/ ToggleDisabled(i, u)
        PROVE  IInv'
    BY <1>8, AdminStep
  <1>9. CASE UNCHANGED vars
    BY <1>9 DEF vars, IInv, TypeOK, OneUsableLink, OneSessionPerLink,
                DisabledIsSignedOut, AdminCanSignIn, SessionLinksUsed
  <1> QED  BY <1>3, <1>4, <1>5, <1>6, <1>7, <1>8, <1>9 DEF Next

LEMMA Invariance == Spec => []IInv
  BY InitIInv, NextIInv, SignInAssumption, PTL DEF Spec

-----------------------------------------------------------------------------
(* The theorems.                                                           *)

\* Accounts, links and sessions stay well typed.
THEOREM TypeCorrect == Spec => []TypeOK
  <1>1. IInv => TypeOK  BY DEF IInv
  <1> QED  BY Invariance, <1>1, PTL

\* Of the links to one address at most one can be used.
THEOREM NewestLinkOnly == Spec => []OneUsableLink
  <1>1. IInv => OneUsableLink  BY DEF IInv
  <1> QED  BY Invariance, <1>1, PTL

\* No link opens two sessions.
THEOREM LinksUsedOnce == Spec => []OneSessionPerLink
  <1>1. IInv => OneSessionPerLink  BY DEF IInv
  <1> QED  BY Invariance, <1>1, PTL

\* A disabled account has no session left: enabling it brings none back.
THEOREM DisabledSignedOut == Spec => []DisabledIsSignedOut
  <1>1. IInv => DisabledIsSignedOut  BY DEF IInv
  <1> QED  BY Invariance, <1>1, PTL

\* Nothing takes the role or the account of the last admin, so the bootstrap
\* is needed once.
THEOREM AdminStays == Spec => AnAdminRemains
  <1>1. IInv /\ [Next]_vars
          => [admins # {} => \E u \in admins' : account'[u] = "active"]_vars
    <2> SUFFICES ASSUME IInv, [Next]_vars, vars' # vars, admins # {}
                 PROVE  \E u \in admins' : account'[u] = "active"
      OBVIOUS
    <2>1. IInv'  BY NextIInv, SignInAssumption
    <2>2. admins' # {}
      <3>1. CASE UNCHANGED admins  BY <3>1
      <3>2. ASSUME NEW i \in DOMAIN tokens, Verify(i) PROVE admins' # {}
        BY <3>2 DEF Verify, AdminsAfter
      <3>3. ASSUME NEW i \in DOMAIN sessions, NEW u \in User, GrantAdmin(i, u)
            PROVE  admins' # {}
        BY <3>3 DEF GrantAdmin
      <3>4. ASSUME NEW i \in DOMAIN sessions, NEW u \in User, RevokeAdmin(i, u)
            PROVE  admins' # {}
        BY <3>4 DEF RevokeAdmin, AdminActs, Protected
      <3>5. CASE Tick  BY <3>1, <3>5 DEF Tick
      <3>6. CASE \E u \in User : RequestLink(u)
        BY <3>1, <3>6 DEF RequestLink
      <3>7. CASE \E i \in DOMAIN sessions : Visit(i) \/ Logout(i)
        BY <3>1, <3>7 DEF Visit, Logout
      <3>8. CASE \E i \in DOMAIN sessions, u \in User : ToggleDisabled(i, u)
        BY <3>1, <3>8 DEF ToggleDisabled
      <3> QED
        BY <3>2, <3>3, <3>4, <3>5, <3>6, <3>7, <3>8 DEF Next
    <2> QED  BY <2>1, <2>2 DEF IInv, AdminCanSignIn
  <1> QED  BY Invariance, <1>1, PTL DEF Spec, AnAdminRemains
=============================================================================
