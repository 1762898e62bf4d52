----------------------------- MODULE AuthTokens -----------------------------
(***************************************************************************)
(* Accounts, refresh tokens and access tokens, with requests in flight.    *)
(*                                                                         *)
(* As in RoomRequests a request reads and checks in one step, on committed *)
(* data, and writes and commits in a later one; nothing is locked between. *)
(* A refresh loads the token and the user in two steps, a logout its user  *)
(* and that user's tokens.  A request that is refused, or dies, is Fail.   *)
(*                                                                         *)
(* A token is the jti that makes it unique, so the row found by a token's  *)
(* hash is the row of that token.  A client may present any token that was *)
(* ever committed, again and again.  Passwords are taken to be right; a    *)
(* referral code is the account it was allocated to.                       *)
(***************************************************************************)
EXTENDS RollingTypes, Integers, FiniteSets

(* The operators named ...Variant are mistakes the properties must reveal. *)

CONSTANTS
    Users,    \* ids of rows in users
    Emails,
    Tokens,   \* refresh tokens
    Slots,    \* bound: requests served at the same time
    NoUser, NoEmail, NoToken

ASSUME AuthConstants ==
    /\ IsFiniteSet(Slots)
    /\ NoUser \notin Users
    /\ NoEmail \notin Emails
    /\ NoToken \notin Tokens

VARIABLES
    account,  \* account[u]: the row of users, status "none" if there is none
    token,    \* token[t]: the row of refresh_tokens, owner NoUser if none
    access,   \* the users for whom an unexpired access token exists
    pc,       \* pc[s]: what the request in slot s does next
    task,     \* task[s]: what it has loaded
    touched   \* history: touched[s], which of what the request has read has
              \* changed since it was read

authVars == <<account, token, access, pc, task, touched>>

Accounts == [status : UserStatus \cup {"none"},
             email : Emails \cup {NoEmail},
             referrer : Users \cup {NoUser}]  \* referred_by_user_id

NoAccount == [status |-> "none", email |-> NoEmail, referrer |-> NoUser]

TokenRows == [owner : Users \cup {NoUser}, revoked : BOOLEAN,
              expired : BOOLEAN,           \* expires_at and exp have passed
              from : Tokens \cup {NoToken}]  \* history: the token it replaced

NoRow == [owner |-> NoUser, revoked |-> FALSE, expired |-> FALSE,
          from |-> NoToken]

Tasks == [user : Users \cup {NoUser}, token : Tokens \cup {NoToken},
          email : Emails \cup {NoEmail}, referrer : Users \cup {NoUser},
          listed : SUBSET Tokens]

NoTask == [user |-> NoUser, token |-> NoToken, email |-> NoEmail,
           referrer |-> NoUser, listed |-> {}]

Steps == {"idle", "register", "issue", "load_user", "rotate", "list", "revoke"}

(* What is read: a user's status, that a token is unrevoked, a user's tokens. *)
Reads == {"status", "token", "tokens"}

Registered(u) == account[u].status # "none"
Active(u) == account[u].status = "active"
Issued(t) == token[t].owner # NoUser
Unrevoked(t) == Issued(t) /\ ~token[t].revoked
Successors(t) == {n \in Tokens : token[n].from = t}

AuthInit ==
    /\ account = [u \in Users |-> NoAccount]
    /\ token = [t \in Tokens |-> NoRow]
    /\ access = {}
    /\ pc = [s \in Slots |-> "idle"]
    /\ task = [s \in Slots |-> NoTask]
    /\ touched = [s \in Slots |-> {}]

-----------------------------------------------------------------------------
(* Steps of a slot. *)

Begin(s, where, t) ==
    /\ pc[s] = "idle"
    /\ pc' = [pc EXCEPT ![s] = where]
    /\ task' = [task EXCEPT ![s] = t]

(* A request that acts for u begins.                                       *)
BeginFor(s, where, u, t) ==
    Begin(s, where, [NoTask EXCEPT !.user = u, !.token = t])

Go(s, where) == pc' = [pc EXCEPT ![s] = where]

Finish(s) ==
    /\ Go(s, "idle")
    /\ task' = [task EXCEPT ![s] = NoTask]

Fail(s) ==
    /\ pc[s] # "idle"
    /\ Finish(s)
    /\ UNCHANGED <<account, token, access>>

-----------------------------------------------------------------------------
(* Registration.  The email and the referral code are looked up; then a    *)
(* row is inserted, unless another one with that email came first, which   *)
(* the unique constraint turns into an error.                              *)

EmailTakenVariant(e) == \E u \in Users : Active(u) /\ account[u].email = e
EmailTaken(e) == \E u \in Users : Registered(u) /\ account[u].email = e

LoadRegister(s, e, referrer) ==
    /\ ~EmailTaken(e)
    /\ referrer # NoUser => Registered(referrer)
    /\ Begin(s, "register", [NoTask EXCEPT !.email = e, !.referrer = referrer])
    /\ UNCHANGED <<account, token, access>>

NewAccountVariant(s, u) ==
    [status |-> "active", email |-> task[s].email,
     referrer |-> IF task[s].referrer = NoUser THEN NoUser ELSE u]
NewAccount(s, u) == [status |-> "active", email |-> task[s].email,
                     referrer |-> task[s].referrer]

StoreRegister(s) ==
    /\ pc[s] = "register"
    /\ \/ EmailTaken(task[s].email) /\ UNCHANGED account
       \/ /\ ~EmailTaken(task[s].email)
          /\ \E u \in Users :
                /\ ~Registered(u)
                /\ account' = [account EXCEPT ![u] = NewAccount(s, u)]
    /\ Finish(s)
    /\ UNCHANGED <<token, access>>

-----------------------------------------------------------------------------
(* Sign-in and refresh. *)

(* _issue_token_pair: a row for the refresh token n, and an access token.  *)
IssueTokenPair(u, n, parent, rows) ==
    /\ ~Issued(n)
    /\ token' = [rows EXCEPT ![n] = [owner |-> u, revoked |-> FALSE,
                                     expired |-> FALSE, from |-> parent]]
    /\ access' = access \cup {u}

LoadLogin(s, u) ==
    /\ Active(u)
    /\ BeginFor(s, "issue", u, NoToken)
    /\ UNCHANGED <<account, token, access>>

StoreLogin(s) ==
    /\ pc[s] = "issue"
    /\ \E n \in Tokens : IssueTokenPair(task[s].user, n, NoToken, token)
    /\ Finish(s)
    /\ UNCHANGED account

AcceptableVariant(t) == Issued(t) /\ ~token[t].expired
Acceptable(t) == Unrevoked(t) /\ ~token[t].expired

LoadToken(s, t) ==
    /\ Acceptable(t)
    /\ BeginFor(s, "load_user", token[t].owner, t)
    /\ UNCHANGED <<account, token, access>>

LoadUserVariant(s) ==
    /\ pc[s] = "load_user"
    /\ Registered(task[s].user)
    /\ Go(s, "rotate")
    /\ UNCHANGED <<account, token, access, task>>

LoadUser(s) ==
    /\ pc[s] = "load_user"
    /\ Active(task[s].user)
    /\ Go(s, "rotate")
    /\ UNCHANGED <<account, token, access, task>>

RevokeVariant(T) == [t \in Tokens |->
    [token[t] EXCEPT !.revoked = t \in T]]
Revoke(T) == [t \in Tokens |->
    [token[t] EXCEPT !.revoked = @ \/ t \in T]]

Rotate(s) ==
    /\ pc[s] = "rotate"
    /\ \E n \in Tokens : IssueTokenPair(task[s].user, n, task[s].token,
                                        Revoke({task[s].token}))
    /\ Finish(s)
    /\ UNCHANGED account

-----------------------------------------------------------------------------
(* Sign-out, by the bearer of an access token. *)

LoadLogout(s, u) ==
    /\ u \in access
    /\ Active(u)
    /\ BeginFor(s, "list", u, NoToken)
    /\ UNCHANGED <<account, token, access>>

TokensOfVariant(u) == {t \in Tokens :
    token[t].owner = u /\ ~token[t].revoked /\ token[t].from = NoToken}
TokensOf(u) == {t \in Tokens : token[t].owner = u /\ ~token[t].revoked}

ListTokens(s) ==
    /\ pc[s] = "list"
    /\ Go(s, "revoke")
    /\ task' = [task EXCEPT ![s].listed = TokensOf(task[s].user)]
    /\ UNCHANGED <<account, token, access>>

RevokeListed(s) ==
    /\ pc[s] = "revoke"
    /\ token' = Revoke(task[s].listed)
    /\ Finish(s)
    /\ UNCHANGED <<account, access>>

-----------------------------------------------------------------------------
(* Time, and an admin who blocks and unblocks an account. *)

TokenExpires(t) ==
    /\ Issued(t) /\ ~token[t].expired
    /\ token' = [token EXCEPT ![t].expired = TRUE]
    /\ UNCHANGED <<account, access, pc, task>>

AccessExpires(u) ==
    /\ u \in access
    /\ access' = access \ {u}
    /\ UNCHANGED <<account, token, pc, task>>

SuspendAccountVariant(u) ==
    /\ Registered(u)
    /\ \E status \in {"active", "suspended"} :
          account' = [account EXCEPT ![u].status = status]
    /\ UNCHANGED <<token, access, pc, task>>
SetAccountStatus(u) ==
    /\ Registered(u)
    /\ \E status \in {"active", "blocked"} :
          account' = [account EXCEPT ![u].status = status]
    /\ UNCHANGED <<token, access, pc, task>>

-----------------------------------------------------------------------------
Request(s) ==
    \/ \E e \in Emails, r \in Users \cup {NoUser} : LoadRegister(s, e, r)
    \/ \E u \in Users : LoadLogin(s, u) \/ LoadLogout(s, u)
    \/ \E t \in Tokens : LoadToken(s, t)

Progress(s) ==
    \/ StoreRegister(s) \/ StoreLogin(s)
    \/ LoadUser(s) \/ Rotate(s)
    \/ ListTokens(s) \/ RevokeListed(s)
    \/ Fail(s)

(* What a step changes of what the request in slot s has read.  Of the     *)
(* tokens of its user a logout must not miss those that are new.           *)
Changed(s) ==
    LET u == task[s].user
        t == task[s].token
    IN  {r \in Reads :
            \/ /\ r = "status"
               /\ pc[s] \in {"issue", "rotate"}
               /\ account'[u].status # account[u].status
            \/ /\ r = "token"
               /\ pc[s] \in {"load_user", "rotate"}
               /\ token'[t].revoked # token[t].revoked
            \/ /\ r = "tokens"
               /\ pc[s] = "revoke"
               /\ \E n \in Tokens : token'[n].owner = u /\ token[n].owner # u}

Remember ==
    touched' = [s \in Slots |-> IF pc'[s] = "idle" THEN {}
                                ELSE touched[s] \cup Changed(s)]

AuthStep ==
    \/ \E s \in Slots : Request(s) \/ Progress(s)
    \/ \E t \in Tokens : TokenExpires(t)
    \/ \E u \in Users : AccessExpires(u) \/ SetAccountStatus(u)

AuthNext == AuthStep /\ Remember

AuthSpec == AuthInit /\ [][AuthNext]_authVars

-----------------------------------------------------------------------------
(* The types of all variables.                                             *)
AuthTypeOK ==
    /\ account \in [Users -> Accounts]
    /\ token \in [Tokens -> TokenRows]
    /\ access \subseteq Users
    /\ pc \in [Slots -> Steps]
    /\ task \in [Slots -> Tasks]
    /\ touched \in [Slots -> SUBSET Reads]

(* However many registrations with one email run at once, an email signs   *)
(* in to one account (register's check and the constraint behind it).      *)
OneAccountPerEmail == \A u, v \in Users :
    Registered(u) /\ Registered(v) /\ account[u].email = account[v].email
        => u = v

(* Nobody refers himself, directly or around a cycle: of any group of      *)
(* accounts some one was not referred from within the group.               *)
ReferralsAcyclic == \A S \in SUBSET {u \in Users : Registered(u)} :
    S # {} => \E u \in S : account[u].referrer \notin S

(* A token begets at most one successor per request in flight: once it is  *)
(* revoked, only refreshes that had already loaded it still rotate it.     *)
RotationBounded == \A t \in Tokens :
    Cardinality(Successors(t)) <= Cardinality(Slots)

(* "Reuse is answered 401": of a token that is revoked a successor comes   *)
(* only from a refresh that had loaded it before it was revoked.           *)
RevokedIsUseless == [][\A t \in Tokens :
    token[t].revoked /\ Successors(t)' # Successors(t) =>
        \E s \in Slots : /\ Rotate(s)
                         /\ task[s].token = t
                         /\ "token" \in touched[s]]_authVars

(* When a logout commits, none of its user's tokens is left unrevoked,     *)
(* unless one was issued after that logout had listed them; whatever       *)
(* refreshes, logouts or chains of tokens there were before.               *)
LogoutEndsSessions == [][\A s \in Slots :
    RevokeListed(s) /\ "tokens" \notin touched[s] =>
        \A t \in Tokens : token'[t].owner = task[s].user
                              => token'[t].revoked]_authVars

(* A token goes to an account that is not active only if the status of    *)
(* that account changed after the very request had read it.                *)
IssuedToActive == [][\A t \in Tokens :
    ~Issued(t) /\ Issued(t)' /\ ~Active(token'[t].owner) =>
        \E s \in Slots : /\ StoreLogin(s) \/ Rotate(s)
                         /\ task[s].user = token'[t].owner
                         /\ "status" \in touched[s]]_authVars

(* "The previous token is revoked at once": a token is rotated once only,  *)
(* so that a login never has more than one refresh token to go on with.    *)
RotatedOnce == \A t \in Tokens : Cardinality(Successors(t)) <= 1
=============================================================================
