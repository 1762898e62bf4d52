-------------------------- MODULE AuthTokensProofs --------------------------
(***************************************************************************)
(* What accounts and tokens guarantee for any number of users, tokens and  *)
(* requests in flight.                                                     *)
(***************************************************************************)
EXTENDS AuthTokens, FiniteSetTheorems, TLAPS

-----------------------------------------------------------------------------
(* What the steps make of the rows they touch. *)

(* The types of all but what is only remembered.                           *)
RowTypes ==
    /\ account \in [Users -> Accounts]
    /\ token \in [Tokens -> TokenRows]
    /\ access \subseteq Users
    /\ pc \in [Slots -> Steps]
    /\ task \in [Slots -> Tasks]

LEMMA RevokeEffect ==
    ASSUME RowTypes, NEW T \in SUBSET Tokens
    PROVE  /\ Revoke(T) \in [Tokens -> TokenRows]
           /\ \A t \in Tokens : /\ Revoke(T)[t].owner = token[t].owner
                                /\ Revoke(T)[t].from = token[t].from
                                /\ Revoke(T)[t].expired = token[t].expired
                                /\ Revoke(T)[t].revoked = (token[t].revoked \/ t \in T)
<1> DEFINE new(t) == [token[t] EXCEPT !.revoked = @ \/ t \in T]
<1>1. ASSUME NEW t \in Tokens
      PROVE  /\ new(t) \in TokenRows
             /\ new(t).owner = token[t].owner
             /\ new(t).from = token[t].from
             /\ new(t).expired = token[t].expired
             /\ new(t).revoked = (token[t].revoked \/ t \in T)
  <2>1. token[t] \in TokenRows
    BY DEF RowTypes
  <2>2. (token[t].revoked \/ t \in T) \in BOOLEAN
    OBVIOUS
  <2>3. QED
    BY <2>1, <2>2 DEF TokenRows
<1>2. Revoke(T) = [t \in Tokens |-> new(t)]
  BY DEF Revoke
<1> HIDE DEF new
<1>3. \A t \in Tokens : Revoke(T)[t] = new(t)
  BY <1>2
<1>4. Revoke(T) \in [Tokens -> TokenRows]
  BY <1>1, <1>2
<1>5. QED
  BY <1>1, <1>3, <1>4

(* A fresh task, and what Finish leaves of the tasks.                      *)
LEMMA TaskTypes ==
    /\ NoTask \in Tasks
    /\ \A u \in Users, t \in Tokens \cup {NoToken} :
          LET new == [NoTask EXCEPT !.user = u, !.token = t]
          IN  /\ new \in Tasks /\ new.user = u /\ new.token = t
              /\ new.listed = {} /\ new.referrer = NoUser
    /\ \A e \in Emails, r \in Users \cup {NoUser} :
          LET new == [NoTask EXCEPT !.email = e, !.referrer = r]
          IN  /\ new \in Tasks /\ new.user = NoUser /\ new.token = NoToken
              /\ new.email = e /\ new.referrer = r /\ new.listed = {}
  BY DEF NoTask, Tasks

-----------------------------------------------------------------------------
(* Types. *)

(* Who a request acts for, at each of its steps.                           *)
TaskInv == \A s \in Slots :
    /\ pc[s] \in {"issue", "load_user", "rotate", "list", "revoke"}
          => task[s].user \in Users
    /\ pc[s] \in {"load_user", "rotate"} =>
          /\ task[s].token \in Tokens
          /\ token[task[s].token].owner = task[s].user
    /\ pc[s] = "register" => task[s].email \in Emails
    /\ pc[s] \in {"idle", "register"} => task[s].user = NoUser
    /\ \A t \in task[s].listed : Issued(t) /\ token[t].owner = task[s].user

TypeInv == RowTypes /\ TaskInv

LEMMA FinishTypes ==
    ASSUME TypeInv, NEW s \in Slots, Finish(s)
    PROVE  /\ pc' \in [Slots -> Steps]
           /\ task' \in [Slots -> Tasks]
           /\ pc'[s] = "idle" /\ task'[s] = NoTask
           /\ \A r \in Slots \ {s} : pc'[r] = pc[r] /\ task'[r] = task[r]
<1>1. pc' = [pc EXCEPT ![s] = "idle"] /\ task' = [task EXCEPT ![s] = NoTask]
  BY DEF Finish, Go
<1>2. pc \in [Slots -> Steps] /\ "idle" \in Steps
  BY DEF TypeInv, RowTypes, Steps
<1>3. task \in [Slots -> Tasks] /\ NoTask \in Tasks
  BY TaskTypes DEF TypeInv, RowTypes
<1>4. QED
  BY <1>1, <1>2, <1>3

LEMMA BeginTypes ==
    ASSUME TypeInv, NEW s \in Slots, NEW where \in Steps, NEW t \in Tasks,
           Begin(s, where, t)
    PROVE  /\ pc' \in [Slots -> Steps]
           /\ task' \in [Slots -> Tasks]
           /\ pc[s] = "idle"
           /\ pc'[s] = where /\ task'[s] = t
           /\ \A r \in Slots \ {s} : pc'[r] = pc[r] /\ task'[r] = task[r]
  BY DEF Begin, TypeInv, RowTypes

LEMMA BeginForTypes ==
    ASSUME TypeInv, NEW s \in Slots, NEW where \in Steps, NEW u \in Users,
           NEW t \in Tokens \cup {NoToken}, BeginFor(s, where, u, t)
    PROVE  /\ pc' \in [Slots -> Steps]
           /\ task' \in [Slots -> Tasks]
           /\ pc[s] = "idle"
           /\ pc'[s] = where
           /\ task'[s] \in Tasks
           /\ task'[s].user = u /\ task'[s].token = t /\ task'[s].listed = {}
           /\ \A r \in Slots \ {s} : pc'[r] = pc[r] /\ task'[r] = task[r]
<1>1. [NoTask EXCEPT !.user = u, !.token = t] \in Tasks
  BY TaskTypes
<1>2. Begin(s, where, [NoTask EXCEPT !.user = u, !.token = t])
  BY DEF BeginFor
<1> DEFINE new == [NoTask EXCEPT !.user = u, !.token = t]
<1>3. new \in Tasks /\ new.user = u /\ new.token = t /\ new.listed = {}
  BY DEF NoTask, Tasks
<1>4. Begin(s, where, new)
  BY <1>2
<1> HIDE DEF new
<1>5. QED
  BY <1>3, <1>4, BeginTypes

LEMMA InitTypes == ASSUME AuthInit PROVE TypeInv
  BY TaskTypes DEF AuthInit, TypeInv, RowTypes, TaskInv, Accounts, NoAccount,
                   TokenRows, NoRow, NoTask, Steps

(* A token, once issued, keeps its owner.                                  *)
OwnersKept == \A t \in Tokens : Issued(t) => token'[t].owner = token[t].owner

LEMMA RegisterTypes ==
    ASSUME TypeInv, NEW s \in Slots,
           \/ \E e \in Emails, r \in Users \cup {NoUser} : LoadRegister(s, e, r)
           \/ StoreRegister(s)
    PROVE  TypeInv'
<1>1. CASE \E e \in Emails, r \in Users \cup {NoUser} : LoadRegister(s, e, r)
  <2>1. PICK e \in Emails, r \in Users \cup {NoUser} : LoadRegister(s, e, r)
    BY <1>1
  <2> DEFINE new == [NoTask EXCEPT !.email = e, !.referrer = r]
  <2>2. new \in Tasks /\ new.user = NoUser /\ new.email = e /\ new.listed = {}
    BY DEF NoTask, Tasks
  <2>3. Begin(s, "register", new)
    BY <2>1 DEF LoadRegister
  <2>4. UNCHANGED <<account, token, access>>
    BY <2>1 DEF LoadRegister
  <2> HIDE DEF new
  <2>5. /\ pc' \in [Slots -> Steps] /\ task' \in [Slots -> Tasks]
        /\ pc'[s] = "register" /\ task'[s] = new
        /\ \A x \in Slots \ {s} : pc'[x] = pc[x] /\ task'[x] = task[x]
    BY <2>2, <2>3, BeginTypes DEF Steps
  <2>6. RowTypes'
    BY <2>4, <2>5 DEF TypeInv, RowTypes
  <2>7. TaskInv'
    BY <2>2, <2>4, <2>5 DEF TypeInv, TaskInv, Issued
  <2>8. QED
    BY <2>6, <2>7 DEF TypeInv
<1>2. CASE StoreRegister(s)
  <2>1. Finish(s) /\ UNCHANGED <<token, access>>
    BY <1>2 DEF StoreRegister
  <2>2. \A u \in Users : NewAccount(s, u) \in Accounts
    BY <1>2 DEF StoreRegister, NewAccount, Accounts, Tasks, TypeInv, RowTypes,
                UserStatus
  <2>3. account' \in [Users -> Accounts]
    BY <1>2, <2>2 DEF StoreRegister, TypeInv, RowTypes
  <2>4. RowTypes'
    BY <2>1, <2>3, FinishTypes DEF TypeInv, RowTypes
  <2>5. TaskInv'
    BY <2>1, FinishTypes DEF TypeInv, TaskInv, NoTask, Issued
  <2>6. QED
    BY <2>4, <2>5 DEF TypeInv
<1>3. QED
  BY <1>1, <1>2

(* A step that only begins, goes on or finishes.                           *)
LEMMA BeginForKeepsTypes ==
    ASSUME TypeInv, NEW s \in Slots, NEW where \in {"issue", "load_user", "list"},
           NEW u \in Users, NEW t \in Tokens \cup {NoToken},
           BeginFor(s, where, u, t), UNCHANGED <<account, token, access>>,
           where = "load_user" => t \in Tokens /\ token[t].owner = u
    PROVE  TypeInv'
<1>1. /\ pc' \in [Slots -> Steps] /\ task' \in [Slots -> Tasks]
      /\ pc'[s] = where
      /\ task'[s].user = u /\ task'[s].token = t /\ task'[s].listed = {}
      /\ \A r \in Slots \ {s} : pc'[r] = pc[r] /\ task'[r] = task[r]
  BY BeginForTypes DEF Steps
<1>2. RowTypes'
  BY <1>1 DEF TypeInv, RowTypes
<1>3. TaskInv'
  BY <1>1 DEF TypeInv, TaskInv, Issued
<1>4. QED
  BY <1>2, <1>3 DEF TypeInv

LEMMA GoKeepsTypes ==
    ASSUME TypeInv, NEW s \in Slots,
           \/ LoadUser(s) \/ ListTokens(s) \/ Fail(s)
    PROVE  TypeInv'
<1>1. CASE LoadUser(s)
  BY <1>1 DEF LoadUser, Go, TypeInv, RowTypes, TaskInv, Steps, Issued
<1>2. CASE ListTokens(s)
  <2>1. TokensOf(task[s].user) \in SUBSET Tokens
    BY DEF TokensOf
  <2>2. /\ task' \in [Slots -> Tasks]
        /\ task'[s].user = task[s].user
        /\ task'[s].listed = TokensOf(task[s].user)
        /\ \A r \in Slots \ {s} : task'[r] = task[r]
    BY <1>2, <2>1 DEF ListTokens, TypeInv, RowTypes, Tasks
  <2>3. /\ pc[s] = "list" /\ pc' = [pc EXCEPT ![s] = "revoke"]
        /\ UNCHANGED <<account, token, access>>
    BY <1>2 DEF ListTokens, Go
  <2>4. RowTypes'
    BY <2>2, <2>3 DEF TypeInv, RowTypes, Steps
  <2>5. task[s].user \in Users
    BY <2>3 DEF TypeInv, TaskInv
  <2>6. \A t \in TokensOf(task[s].user) :
           Issued(t) /\ token[t].owner = task[s].user
    BY <2>5, AuthConstants DEF TokensOf, Issued
  <2>7. ASSUME NEW t \in Tokens PROVE Issued(t)' = Issued(t)
    BY <2>3 DEF Issued
  <2>8. pc'[s] = "revoke" /\ \A r \in Slots \ {s} : pc'[r] = pc[r]
    BY <2>3 DEF TypeInv, RowTypes
  <2>9. ASSUME NEW r \in Slots PROVE \A t \in task'[r].listed :
              Issued(t)' /\ token'[t].owner = task'[r].user
    BY <2>1, <2>2, <2>3, <2>6, <2>7 DEF TypeInv, RowTypes, TaskInv, Tasks
  <2>10. TaskInv'
    BY <2>2, <2>3, <2>5, <2>8, <2>9 DEF TypeInv, TaskInv
  <2>11. QED
    BY <2>4, <2>10 DEF TypeInv
<1>3. CASE Fail(s)
  BY <1>3, FinishTypes DEF Fail, TypeInv, RowTypes, TaskInv, NoTask, Issued
<1>4. QED
  BY <1>1, <1>2, <1>3
LEMMA OwnersKeptKeepTaskInv ==
    ASSUME TypeInv, OwnersKept, token' \in [Tokens -> TokenRows],
           (\E s \in Slots : Finish(s)) \/ UNCHANGED <<pc, task>>
    PROVE  TaskInv'
<1>1. ASSUME NEW t \in Tokens, Issued(t)
      PROVE  Issued(t)' /\ token'[t].owner = token[t].owner
  BY <1>1 DEF Issued, OwnersKept
<1>2. ASSUME NEW r \in Slots, pc'[r] = pc[r], task'[r] = task[r]
      PROVE  TaskInv!(r)'
  <2>1. \A t \in task[r].listed : t \in Tokens /\ Issued(t)
    BY DEF TypeInv, RowTypes, TaskInv, Tasks
  <2>2. pc[r] \in {"load_user", "rotate"} => Issued(task[r].token)
    BY AuthConstants DEF TypeInv, TaskInv, Issued, AuthConstants
  <2>3. QED
    BY <1>1, <1>2, <2>1, <2>2 DEF TypeInv, TaskInv
<1>3. CASE \E s \in Slots : Finish(s)
  <2>0. PICK s \in Slots : Finish(s)
    BY <1>3
  <2>1. \A r \in Slots \ {s} : pc'[r] = pc[r] /\ task'[r] = task[r]
    BY <2>0, FinishTypes
  <2>2. TaskInv!(s)'
    BY <2>0, FinishTypes DEF NoTask
  <2>3. QED
    BY <1>2, <2>1, <2>2 DEF TaskInv
<1>4. CASE UNCHANGED <<pc, task>>
  BY <1>2, <1>4 DEF TaskInv
<1>5. QED
  BY <1>3, <1>4

(* The token that a login or a rotation inserts, and the one it revokes.   *)
LEMMA IssueEffect ==
    ASSUME TypeInv, NEW s \in Slots, StoreLogin(s) \/ Rotate(s)
    PROVE  /\ Finish(s) /\ UNCHANGED account
           /\ access' = access \cup {task[s].user}
           /\ token' \in [Tokens -> TokenRows]
           /\ \E n \in Tokens, parent \in Tokens \cup {NoToken} :
                 /\ parent = IF pc[s] = "rotate" THEN task[s].token ELSE NoToken
                 /\ ~Issued(n)
                 /\ token'[n] = [owner |-> task[s].user, revoked |-> FALSE,
                                 expired |-> FALSE, from |-> parent]
                 /\ \A t \in Tokens \ {n} :
                       /\ token'[t].owner = token[t].owner
                       /\ token'[t].from = token[t].from
                       /\ token'[t].revoked = (token[t].revoked \/ t = parent)
<1>1. PICK n \in Tokens, parent \in Tokens \cup {NoToken},
            rows \in [Tokens -> TokenRows] :
        /\ IssueTokenPair(task[s].user, n, parent, rows)
        /\ parent = IF pc[s] = "rotate" THEN task[s].token ELSE NoToken
        /\ \A t \in Tokens : /\ rows[t].owner = token[t].owner
                             /\ rows[t].from = token[t].from
                             /\ rows[t].revoked = (token[t].revoked \/ t = parent)
  <2>1. CASE StoreLogin(s)
    <3>1. \A t \in Tokens : token[t].revoked = (token[t].revoked \/ t = NoToken)
      BY AuthConstants DEF AuthConstants, TypeInv, RowTypes, TokenRows
    <3>2. token \in [Tokens -> TokenRows] /\ pc[s] = "issue"
      BY <2>1 DEF StoreLogin, TypeInv, RowTypes
    <3>3. PICK n \in Tokens : IssueTokenPair(task[s].user, n, NoToken, token)
      BY <2>1 DEF StoreLogin
    <3>4. QED
      BY <3>1, <3>2, <3>3
  <2>2. CASE Rotate(s)
    <3>1. task[s].token \in Tokens /\ pc[s] = "rotate"
      BY <2>2 DEF Rotate, TypeInv, TaskInv
    <3>2. QED
      BY <2>2, <3>1, RevokeEffect DEF Rotate, TypeInv
  <2>3. QED
    BY <2>1, <2>2
<1>2. task[s].user \in Users
  BY DEF TypeInv, TaskInv, StoreLogin, Rotate
<1>3. Finish(s) /\ UNCHANGED account
  BY DEF StoreLogin, Rotate
<1>4. /\ ~Issued(n)
      /\ access' = access \cup {task[s].user}
      /\ token' \in [Tokens -> TokenRows]
      /\ token'[n] = [owner |-> task[s].user, revoked |-> FALSE,
                      expired |-> FALSE, from |-> parent]
      /\ \A t \in Tokens \ {n} : token'[t] = rows[t]
  BY <1>1, <1>2 DEF IssueTokenPair, TokenRows
<1>5. \A t \in Tokens \ {n} : /\ token'[t].owner = token[t].owner
                             /\ token'[t].from = token[t].from
                             /\ token'[t].revoked = (token[t].revoked \/ t = parent)
  BY <1>1, <1>4
<1> DEFINE Effect(m, q) ==
        /\ q = IF pc[s] = "rotate" THEN task[s].token ELSE NoToken
        /\ ~Issued(m)
        /\ token'[m] = [owner |-> task[s].user, revoked |-> FALSE,
                        expired |-> FALSE, from |-> q]
        /\ \A t \in Tokens \ {m} :
              /\ token'[t].owner = token[t].owner
              /\ token'[t].from = token[t].from
              /\ token'[t].revoked = (token[t].revoked \/ t = q)
<1>6. Effect(n, parent)
  BY <1>1, <1>4, <1>5
<1>7. \E m \in Tokens, q \in Tokens \cup {NoToken} : Effect(m, q)
  BY <1>6, Zenon
<1>8. QED
  BY <1>3, <1>4, <1>7

LEMMA IssueKeepsTypes ==
    ASSUME TypeInv, NEW s \in Slots, StoreLogin(s) \/ Rotate(s)
    PROVE  TypeInv'
<1>1. task[s].user \in Users
  BY DEF TypeInv, TaskInv, StoreLogin, Rotate
<1>2. OwnersKept
  BY IssueEffect DEF OwnersKept
<1>3. RowTypes'
  BY <1>1, IssueEffect, FinishTypes DEF TypeInv, RowTypes
<1>4. TaskInv'
  BY <1>2, IssueEffect, OwnersKeptKeepTaskInv
<1>5. QED
  BY <1>3, <1>4 DEF TypeInv

LEMMA RevokeKeepsTypes ==
    ASSUME TypeInv, NEW s \in Slots, RevokeListed(s)
    PROVE  TypeInv'
<1>1. /\ token' = Revoke(task[s].listed) /\ Finish(s)
      /\ UNCHANGED <<account, access>>
  BY DEF RevokeListed
<1>2. task[s].listed \in SUBSET Tokens
  BY DEF TypeInv, RowTypes, Tasks
<1>3. token' \in [Tokens -> TokenRows] /\ OwnersKept
  BY <1>1, <1>2, RevokeEffect DEF TypeInv, OwnersKept
<1>4. RowTypes'
  BY <1>1, <1>3, FinishTypes DEF TypeInv, RowTypes
<1>5. TaskInv'
  BY <1>1, <1>3, OwnersKeptKeepTaskInv
<1>6. QED
  BY <1>3, <1>4, <1>5 DEF TypeInv

LEMMA ExpiryEffect ==
    ASSUME TypeInv, NEW t \in Tokens, TokenExpires(t)
    PROVE  /\ token' \in [Tokens -> TokenRows]
           /\ \A x \in Tokens : /\ token'[x].owner = token[x].owner
                                /\ token'[x].from = token[x].from
                                /\ token'[x].revoked = token[x].revoked
           /\ UNCHANGED <<account, access, pc, task>>
  BY DEF TokenExpires, TypeInv, RowTypes, TokenRows

LEMMA StatusEffect ==
    ASSUME TypeInv, NEW u \in Users, SetAccountStatus(u)
    PROVE  /\ account' \in [Users -> Accounts]
           /\ Registered(u) /\ Registered(u)'
           /\ account'[u].email = account[u].email
           /\ account'[u].referrer = account[u].referrer
           /\ \A v \in Users \ {u} : account'[v] = account[v]
           /\ UNCHANGED <<token, access, pc, task>>
<1>1. PICK status \in {"active", "blocked"} :
        account' = [account EXCEPT ![u].status = status]
  BY DEF SetAccountStatus
<1>2. account[u] \in Accounts
  BY DEF TypeInv, RowTypes
<1>3. [account[u] EXCEPT !.status = status] \in Accounts
  BY <1>2 DEF Accounts, UserStatus
<1>4. /\ account'[u] = [account[u] EXCEPT !.status = status]
      /\ \A v \in Users \ {u} : account'[v] = account[v]
      /\ account' \in [Users -> Accounts]
  BY <1>1, <1>3 DEF TypeInv, RowTypes
<1>5. QED
  BY <1>2, <1>4 DEF SetAccountStatus, Registered, Accounts

LEMMA WorldKeepsTypes ==
    ASSUME TypeInv,
           \/ \E t \in Tokens : TokenExpires(t)
           \/ \E u \in Users : AccessExpires(u) \/ SetAccountStatus(u)
    PROVE  TypeInv'
<1>1. CASE \E t \in Tokens : TokenExpires(t)
  <2>1. /\ token' \in [Tokens -> TokenRows] /\ OwnersKept
        /\ UNCHANGED <<account, access, pc, task>>
    BY <1>1, ExpiryEffect DEF OwnersKept
  <2>2. RowTypes'
    BY <2>1 DEF TypeInv, RowTypes
  <2>3. TaskInv'
    BY <2>1, OwnersKeptKeepTaskInv
  <2>4. QED
    BY <2>2, <2>3 DEF TypeInv
<1>2. CASE \E u \in Users : AccessExpires(u)
  BY <1>2 DEF AccessExpires, TypeInv, RowTypes, TaskInv, Issued
<1>3. CASE \E u \in Users : SetAccountStatus(u)
  BY <1>3, StatusEffect DEF TypeInv, RowTypes, TaskInv, Issued
<1>4. QED
  BY <1>1, <1>2, <1>3

LEMMA StepTypes == ASSUME TypeInv, [AuthNext]_authVars PROVE TypeInv'
<1>1. ASSUME NEW s \in Slots, Request(s) PROVE TypeInv'
  <2>1. CASE \E u \in Users : LoadLogin(s, u)
    BY <2>1, BeginForKeepsTypes DEF LoadLogin
  <2>2. CASE \E u \in Users : LoadLogout(s, u)
    BY <2>2, BeginForKeepsTypes DEF LoadLogout
  <2>3. CASE \E t \in Tokens : LoadToken(s, t)
    <3>1. PICK t \in Tokens : LoadToken(s, t)
      BY <2>3
    <3>2. token[t].owner \in Users
      BY <3>1 DEF LoadToken, Acceptable, Unrevoked, Issued, TypeInv, RowTypes, TokenRows
    <3>3. QED
      BY <3>1, <3>2, BeginForKeepsTypes DEF LoadToken
  <2>4. QED
    BY <1>1, <2>1, <2>2, <2>3, RegisterTypes DEF Request
<1>2. ASSUME NEW s \in Slots, Progress(s) PROVE TypeInv'
  BY <1>2, RegisterTypes, GoKeepsTypes, IssueKeepsTypes, RevokeKeepsTypes DEF Progress
<1>3. CASE UNCHANGED authVars
  BY <1>3 DEF authVars, TypeInv, RowTypes, TaskInv, Issued
<1>4. QED
  BY <1>1, <1>2, <1>3, WorldKeepsTypes DEF AuthNext, AuthStep

(* The types of all variables hold of every request, for any numbers.      *)
THEOREM AuthTypeCorrect == AuthSpec => []AuthTypeOK
<1> DEFINE TouchedTypes == touched \in [Slots -> SUBSET Reads]
<1>1. AuthInit => TouchedTypes
  BY DEF AuthInit
<1>2. TouchedTypes /\ [AuthNext]_authVars => TouchedTypes'
  <2>1. ASSUME TouchedTypes, Remember PROVE TouchedTypes'
    <3>1. \A s \in Slots : Changed(s) \subseteq Reads
      BY DEF Changed
    <3> QED
      BY <2>1, <3>1 DEF Remember
  <2> QED
    BY <2>1 DEF AuthNext, authVars
<1>3. TypeInv /\ TouchedTypes => AuthTypeOK
  BY DEF TypeInv, RowTypes, AuthTypeOK
<1> HIDE DEF TouchedTypes
<1> QED
  BY <1>1, <1>2, <1>3, InitTypes, StepTypes, PTL DEF AuthSpec
-----------------------------------------------------------------------------
(* Accounts: one for an email, and no cycle of referrals. *)

NewlyRegistered(s, u) ==
    /\ pc[s] = "register"
    /\ ~Registered(u)
    /\ ~EmailTaken(task[s].email)
    /\ account' = [account EXCEPT ![u] = NewAccount(s, u)]

StatusChanged(u) ==
    /\ Registered(u) /\ Registered(u)'
    /\ account'[u].email = account[u].email
    /\ account'[u].referrer = account[u].referrer
    /\ \A v \in Users \ {u} : account'[v] = account[v]

LEMMA AccountEffect ==
    ASSUME TypeInv, [AuthNext]_authVars
    PROVE  \/ UNCHANGED account
           \/ \E s \in Slots, u \in Users : NewlyRegistered(s, u)
           \/ \E u \in Users : StatusChanged(u)
<1>1. ASSUME NEW s \in Slots, Request(s) PROVE UNCHANGED account
  BY <1>1 DEF Request, LoadRegister, LoadLogin, LoadLogout, LoadToken
<1>2. ASSUME NEW s \in Slots, StoreRegister(s)
      PROVE  UNCHANGED account \/ \E u \in Users : NewlyRegistered(s, u)
  BY <1>2 DEF StoreRegister, NewlyRegistered
<1>3. ASSUME NEW s \in Slots, Progress(s), ~StoreRegister(s)
      PROVE  UNCHANGED account
  BY <1>3 DEF Progress, StoreLogin, LoadUser, Rotate, ListTokens, RevokeListed, Fail
<1>4. ASSUME NEW u \in Users, SetAccountStatus(u) PROVE StatusChanged(u)
  BY <1>4, StatusEffect DEF StatusChanged
<1>5. CASE UNCHANGED authVars
  BY <1>5 DEF authVars
<1>6. ASSUME NEW t \in Tokens, TokenExpires(t) PROVE UNCHANGED account
  BY <1>6 DEF TokenExpires
<1>7. ASSUME NEW u \in Users, AccessExpires(u) PROVE UNCHANGED account
  BY <1>7 DEF AccessExpires
<1>8. QED
  BY <1>1, <1>2, <1>3, <1>4, <1>5, <1>6, <1>7 DEF AuthNext, AuthStep

LEMMA NewlyRegisteredEffect ==
    ASSUME TypeInv, NEW s \in Slots, NEW u \in Users, NewlyRegistered(s, u)
    PROVE  /\ account'[u].email = task[s].email
           /\ account'[u].referrer = task[s].referrer
           /\ Registered(u)'
           /\ \A v \in Users \ {u} : account'[v] = account[v]
  BY DEF TypeInv, RowTypes, NewlyRegistered, NewAccount, Registered

(* However many registrations with one email run at once, it is one        *)
(* account's, for the insertion checks the email again.                    *)
THEOREM EmailsAreUnique == AuthSpec => []OneAccountPerEmail
<1>1. AuthInit => TypeInv /\ OneAccountPerEmail
  BY InitTypes DEF AuthInit, OneAccountPerEmail, Registered, NoAccount
<1>2. ASSUME TypeInv, OneAccountPerEmail, [AuthNext]_authVars
      PROVE  OneAccountPerEmail'
  <2>1. CASE UNCHANGED account
    BY <1>2, <2>1 DEF OneAccountPerEmail, Registered
  <2>2. ASSUME NEW s \in Slots, NEW u \in Users, NewlyRegistered(s, u)
        PROVE  OneAccountPerEmail'
    <3>1. \A v \in Users : Registered(v) => account[v].email # task[s].email
      BY <2>2 DEF NewlyRegistered, EmailTaken
    <3>2. /\ account'[u].email = task[s].email
          /\ \A v \in Users \ {u} : account'[v] = account[v]
      BY <1>2, <2>2, NewlyRegisteredEffect
    <3>3. \A v \in Users \ {u} :
             /\ Registered(v)' = Registered(v)
             /\ account'[v].email = account[v].email
      BY <3>2 DEF Registered
    <3>4. QED
      BY <1>2, <3>1, <3>2, <3>3 DEF OneAccountPerEmail
  <2>3. ASSUME NEW u \in Users, StatusChanged(u) PROVE OneAccountPerEmail'
    BY <1>2, <2>3 DEF OneAccountPerEmail, Registered, StatusChanged
  <2>4. QED
    BY <1>2, <2>1, <2>2, <2>3, AccountEffect
<1>3. QED
  BY <1>1, <1>2, StepTypes, PTL DEF AuthSpec

(* Referrers are registered before those they refer.                       *)
ReferrerInv ==
    /\ \A u \in Users : Registered(u) /\ account[u].referrer # NoUser
          => Registered(account[u].referrer)
    /\ \A s \in Slots : pc[s] = "register" /\ task[s].referrer # NoUser
          => Registered(task[s].referrer)

LEMMA RegisteredStays ==
    ASSUME TypeInv, [AuthNext]_authVars, NEW u \in Users, Registered(u)
    PROVE  Registered(u)'
<1>1. CASE UNCHANGED account
  BY <1>1 DEF Registered
<1>2. ASSUME NEW s \in Slots, NEW v \in Users, NewlyRegistered(s, v)
      PROVE  Registered(u)'
  BY <1>2, NewlyRegisteredEffect DEF Registered
<1>3. ASSUME NEW v \in Users, StatusChanged(v) PROVE Registered(u)'
  BY <1>3 DEF Registered, StatusChanged
<1>4. QED
  BY <1>1, <1>2, <1>3, AccountEffect

(* A request is at its insertion only by the look-up that led there.       *)
LEMMA RegisterTask ==
    ASSUME TypeInv, [AuthNext]_authVars, NEW s \in Slots, pc'[s] = "register"
    PROVE  \/ pc[s] = "register" /\ task'[s] = task[s]
           \/ task'[s].referrer # NoUser => Registered(task'[s].referrer)
<1>1. ASSUME NEW r \in Slots, NEW e \in Emails, NEW q \in Users \cup {NoUser},
             LoadRegister(r, e, q)
      PROVE  \/ pc[s] = "register" /\ task'[s] = task[s]
             \/ task'[s].referrer # NoUser => Registered(task'[s].referrer)
  BY <1>1 DEF LoadRegister, Begin, TypeInv, RowTypes, NoTask
<1>2. ASSUME NEW r \in Slots, NEW where \in {"issue", "load_user", "list"},
             NEW u \in Users \cup {NoUser}, NEW t \in Tokens \cup {NoToken},
             BeginFor(r, where, u, t)
      PROVE  pc[s] = "register" /\ task'[s] = task[s]
  BY <1>2 DEF BeginFor, Begin, TypeInv, RowTypes
<1>3. ASSUME NEW r \in Slots, Finish(r)
      PROVE  pc[s] = "register" /\ task'[s] = task[s]
  BY <1>3, FinishTypes
<1>4. ASSUME NEW r \in Slots, LoadUser(r) \/ ListTokens(r)
      PROVE  pc[s] = "register" /\ task'[s] = task[s]
  BY <1>4 DEF LoadUser, ListTokens, Go, TypeInv, RowTypes
<1>5. CASE UNCHANGED <<pc, task>>
  BY <1>5
<1>6. ASSUME NEW r \in Slots, Request(r)
      PROVE  \/ pc[s] = "register" /\ task'[s] = task[s]
             \/ task'[s].referrer # NoUser => Registered(task'[s].referrer)
  <2>1. CASE \E t \in Tokens : LoadToken(r, t)
    BY <2>1, <1>2 DEF LoadToken, TypeInv, RowTypes, TokenRows
  <2>2. CASE \E u \in Users : LoadLogin(r, u) \/ LoadLogout(r, u)
    BY <2>2, <1>2 DEF LoadLogin, LoadLogout
  <2>3. QED
    BY <1>1, <1>6, <2>1, <2>2 DEF Request
<1>7. ASSUME NEW r \in Slots, Progress(r)
      PROVE  pc[s] = "register" /\ task'[s] = task[s]
  BY <1>3, <1>4, <1>7
     DEF Progress, StoreRegister, StoreLogin, Rotate, RevokeListed, Fail
<1>8. ASSUME \/ \E t \in Tokens : TokenExpires(t)
             \/ \E u \in Users : AccessExpires(u) \/ SetAccountStatus(u)
             \/ UNCHANGED authVars
      PROVE  UNCHANGED <<pc, task>>
  BY <1>8 DEF TokenExpires, AccessExpires, SetAccountStatus, authVars
<1>9. QED
  BY <1>5, <1>6, <1>7, <1>8 DEF AuthNext, AuthStep
LEMMA ReferrerStep ==
    ASSUME TypeInv, ReferrerInv, [AuthNext]_authVars PROVE ReferrerInv'
<1>1. ASSUME NEW u \in Users, Registered(u)', account'[u].referrer # NoUser
      PROVE  account'[account'[u].referrer].status # "none"
  <2>1. PICK q \in Users : q = account'[u].referrer
    BY <1>1, StepTypes DEF TypeInv, RowTypes, Accounts
  <2>2. CASE UNCHANGED account
    BY <1>1, <2>1, <2>2 DEF ReferrerInv, Registered
  <2>3. ASSUME NEW s \in Slots, NEW v \in Users, NewlyRegistered(s, v)
        PROVE  Registered(q)
    <3>1. CASE u = v
      BY <1>1, <2>1, <2>3, <3>1, NewlyRegisteredEffect
         DEF ReferrerInv, Registered, NewlyRegistered
    <3>2. CASE u # v
      BY <1>1, <2>1, <2>3, <3>2, NewlyRegisteredEffect DEF ReferrerInv, Registered
    <3>3. QED
      BY <3>1, <3>2
  <2>4. ASSUME NEW v \in Users, StatusChanged(v) PROVE Registered(q)
    BY <1>1, <2>1, <2>4 DEF ReferrerInv, Registered, StatusChanged
  <2>5. Registered(q) => Registered(q)'
    BY RegisteredStays
  <2>6. CASE Registered(q)
    BY <2>1, <2>5, <2>6 DEF Registered
  <2>7. QED
    BY <2>1, <2>2, <2>3, <2>4, <2>6, AccountEffect
<1>2. ASSUME NEW s \in Slots, pc'[s] = "register", task'[s].referrer # NoUser
      PROVE  account'[task'[s].referrer].status # "none"
  <2>1. PICK q \in Users : q = task'[s].referrer
    BY <1>2, StepTypes DEF TypeInv, RowTypes, Tasks
  <2>2. Registered(q)
    BY <1>2, <2>1, RegisterTask DEF ReferrerInv, Registered
  <2>3. Registered(q)'
    BY <2>2, RegisteredStays
  <2>4. QED
    BY <2>1, <2>3 DEF Registered
<1>3. QED
  BY <1>1, <1>2 DEF ReferrerInv, Registered

LEMMA AcyclicStep ==
    ASSUME TypeInv, ReferrerInv, ReferralsAcyclic, [AuthNext]_authVars
    PROVE  ReferralsAcyclic'
<1>1. ASSUME \A u \in Users : /\ Registered(u)' = Registered(u)
                             /\ account'[u].referrer = account[u].referrer
      PROVE  ReferralsAcyclic'
  BY <1>1 DEF ReferralsAcyclic
<1>2. ASSUME NEW s \in Slots, NEW v \in Users, NewlyRegistered(s, v),
             NEW S \in SUBSET {u \in Users : Registered(u)'}, S # {}
      PROVE  \E u \in S : account'[u].referrer \notin S
  <2>1. \A u \in Users \ {v} : /\ Registered(u)' = Registered(u)
                               /\ account'[u].referrer = account[u].referrer
    BY <1>2, NewlyRegisteredEffect DEF Registered
  <2>2. ~Registered(v)
    BY <1>2 DEF NewlyRegistered
  <2>3. S \ {v} \in SUBSET {u \in Users : Registered(u)}
    BY <2>1
  <2>4. CASE S \ {v} # {}
    <3>1. PICK u \in S \ {v} : account[u].referrer \notin S \ {v}
      BY <2>3, <2>4 DEF ReferralsAcyclic
    <3>2. Registered(u) /\ u \in Users
      BY <2>3, <3>1
    <3>3. account[u].referrer # v
      BY <2>2, <3>2, AuthConstants DEF ReferrerInv, AuthConstants
    <3>4. QED
      BY <2>1, <3>1, <3>2, <3>3
  <2>5. CASE S = {v}
    <3>1. account'[v].referrer = task[s].referrer
      BY <1>2, NewlyRegisteredEffect
    <3>2. task[s].referrer # v
      BY <1>2, <2>2, AuthConstants DEF ReferrerInv, NewlyRegistered, AuthConstants
    <3>3. QED
      BY <2>5, <3>1, <3>2
  <2>6. QED
    BY <1>2, <2>4, <2>5
<1>3. CASE UNCHANGED account
  BY <1>1, <1>3 DEF Registered
<1>4. ASSUME NEW u \in Users, StatusChanged(u) PROVE ReferralsAcyclic'
  BY <1>1, <1>4 DEF StatusChanged, Registered
<1>5. QED
  BY <1>2, <1>3, <1>4, AccountEffect DEF ReferralsAcyclic

(* Nobody refers himself, directly or around a cycle: a referrer is looked *)
(* up among accounts that exist, and a new one refers to nobody yet.       *)
THEOREM NoReferralCycles == AuthSpec => []ReferralsAcyclic
<1>1. AuthInit => TypeInv /\ ReferrerInv /\ ReferralsAcyclic
  BY InitTypes DEF AuthInit, ReferrerInv, ReferralsAcyclic, Registered, NoAccount
<1>2. QED
  BY <1>1, StepTypes, ReferrerStep, AcyclicStep, PTL DEF AuthSpec
-----------------------------------------------------------------------------
(* How often a token is rotated. *)

(* The refreshes that have found t acceptable and not yet rotated it.      *)
Holding(t) == {s \in Slots : pc[s] \in {"load_user", "rotate"}
                              /\ task[s].token = t}

(* Each successor of a token was a refresh holding it once, and none takes *)
(* hold of it any more when the first successor is there.                  *)
RotationInv == \A t \in Tokens :
    /\ ~Issued(t) => ~token[t].revoked
    /\ ~token[t].revoked => Successors(t) = {}
    /\ IsFiniteSet(Successors(t))
    /\ Cardinality(Successors(t)) + Cardinality(Holding(t)) <= Cardinality(Slots)

LEMMA HoldingFinite ==
    ASSUME NEW t \in Tokens
    PROVE  /\ IsFiniteSet(Holding(t)) /\ IsFiniteSet(Holding(t)')
           /\ Cardinality(Holding(t)) \in Nat /\ Cardinality(Holding(t)') \in Nat
           /\ Cardinality(Holding(t)) <= Cardinality(Slots)
           /\ Cardinality(Holding(t)') <= Cardinality(Slots)
           /\ Cardinality(Slots) \in Nat
<1>1. Holding(t) \subseteq Slots /\ Holding(t)' \subseteq Slots
  BY DEF Holding
<1>2. QED
  BY <1>1, AuthConstants, FS_Subset, FS_CardinalityType DEF AuthConstants

(* No step but a rotation adds a successor, none but a load a holder.      *)
LEMMA RotationQuiet ==
    ASSUME RotationInv, NEW t \in Tokens,
           Successors(t)' \subseteq Successors(t),
           Holding(t)' \subseteq Holding(t)
    PROVE  /\ IsFiniteSet(Successors(t)')
           /\ Cardinality(Successors(t)') + Cardinality(Holding(t)')
                 <= Cardinality(Slots)
<1>1. /\ IsFiniteSet(Successors(t))
      /\ Cardinality(Successors(t)) + Cardinality(Holding(t)) <= Cardinality(Slots)
  BY DEF RotationInv
<1>2. /\ IsFiniteSet(Successors(t)')
      /\ Cardinality(Successors(t)') <= Cardinality(Successors(t))
  BY <1>1, FS_Subset
<1>3. Cardinality(Holding(t)') <= Cardinality(Holding(t))
  BY HoldingFinite, FS_Subset
<1>4. Cardinality(Successors(t)) \in Nat /\ Cardinality(Successors(t)') \in Nat
  BY <1>1, <1>2, FS_CardinalityType
<1>5. QED
  BY <1>1, <1>2, <1>3, <1>4, HoldingFinite

LEMMA RotationAdds ==
    ASSUME RotationInv, NEW t \in Tokens, NEW n, NEW s \in Holding(t),
           Successors(t)' \subseteq Successors(t) \cup {n},
           Holding(t)' \subseteq Holding(t) \ {s}
    PROVE  /\ IsFiniteSet(Successors(t)')
           /\ Cardinality(Successors(t)') + Cardinality(Holding(t)')
                 <= Cardinality(Slots)
<1>1. /\ IsFiniteSet(Successors(t))
      /\ Cardinality(Successors(t)) + Cardinality(Holding(t)) <= Cardinality(Slots)
      /\ Cardinality(Successors(t)) \in Nat
  BY FS_CardinalityType DEF RotationInv
<1>2. /\ IsFiniteSet(Successors(t) \cup {n})
      /\ Cardinality(Successors(t) \cup {n}) \in Nat
      /\ Cardinality(Successors(t) \cup {n}) <= Cardinality(Successors(t)) + 1
  <2>1. Cardinality(Successors(t) \cup {n})
           = IF n \in Successors(t) THEN Cardinality(Successors(t))
                                    ELSE Cardinality(Successors(t)) + 1
    BY <1>1, FS_AddElement
  <2>2. IsFiniteSet(Successors(t) \cup {n})
    BY <1>1, FS_AddElement
  <2>3. QED
    BY <1>1, <2>1, <2>2
<1>3. /\ IsFiniteSet(Successors(t)')
      /\ Cardinality(Successors(t)') \in Nat
      /\ Cardinality(Successors(t)') <= Cardinality(Successors(t) \cup {n})
  BY <1>2, FS_Subset, FS_CardinalityType
<1>4. /\ IsFiniteSet(Holding(t) \ {s})
      /\ Cardinality(Holding(t) \ {s}) = Cardinality(Holding(t)) - 1
  BY HoldingFinite, FS_RemoveElement
<1>5. Cardinality(Holding(t)') <= Cardinality(Holding(t) \ {s})
  BY <1>4, FS_Subset
<1>6. QED
  BY <1>1, <1>2, <1>3, <1>4, <1>5, HoldingFinite

(* What a step does to the rows of tokens, and to the slots that hold one. *)
Untouched == \A t \in Tokens : /\ token'[t].owner = token[t].owner
                               /\ token'[t].from = token[t].from
                               /\ ~Issued(t) => token'[t].revoked = token[t].revoked
                               /\ token[t].revoked => token'[t].revoked

NobodyTakesHold == \A t \in Tokens : Holding(t)' \subseteq Holding(t)

LEMMA QuietStep ==
    ASSUME TypeInv, RotationInv, Untouched, NobodyTakesHold PROVE RotationInv'
<1>1. \A t \in Tokens : Successors(t)' \subseteq Successors(t)
  BY DEF Untouched, Successors
<1>2. ASSUME NEW t \in Tokens
      PROVE  /\ IsFiniteSet(Successors(t)')
             /\ Cardinality(Successors(t)') + Cardinality(Holding(t)')
                   <= Cardinality(Slots)
  BY <1>1, RotationQuiet DEF NobodyTakesHold
<1>3. ASSUME NEW t \in Tokens
      PROVE  /\ ~Issued(t)' => ~token'[t].revoked
             /\ ~token'[t].revoked => Successors(t)' = {}
  BY <1>1 DEF RotationInv, Untouched, Issued
<1>4. QED
  BY <1>2, <1>3 DEF RotationInv

LEMMA IssueStep ==
    ASSUME TypeInv, RotationInv, NEW s \in Slots, StoreLogin(s) \/ Rotate(s)
    PROVE  RotationInv'
<1>1. PICK n \in Tokens, parent \in Tokens \cup {NoToken} :
        /\ parent = IF pc[s] = "rotate" THEN task[s].token ELSE NoToken
        /\ ~Issued(n)
        /\ token'[n] = [owner |-> task[s].user, revoked |-> FALSE,
                        expired |-> FALSE, from |-> parent]
        /\ \A t \in Tokens \ {n} :
              /\ token'[t].owner = token[t].owner
              /\ token'[t].from = token[t].from
              /\ token'[t].revoked = (token[t].revoked \/ t = parent)
  BY IssueEffect
<1>2. /\ Finish(s)
      /\ pc'[s] = "idle"
      /\ \A r \in Slots \ {s} : pc'[r] = pc[r] /\ task'[r] = task[r]
  BY IssueEffect, FinishTypes
<1>3. parent # n
  BY <1>1, AuthConstants DEF TypeInv, TaskInv, Issued, AuthConstants
<1>4. task[s].user \in Users
  BY DEF StoreLogin, Rotate, TypeInv, TaskInv
<1>5. \A t \in Tokens : Holding(t)' \subseteq Holding(t) \ {s}
  BY <1>2 DEF Holding
<1>6. \A t \in Tokens \ {parent} : Successors(t)' \subseteq Successors(t)
  BY <1>1 DEF Successors
<1>7. Successors(parent)' \subseteq Successors(parent) \cup {n}
  BY <1>1 DEF Successors
<1>8. ASSUME NEW t \in Tokens
      PROVE  /\ IsFiniteSet(Successors(t)')
             /\ Cardinality(Successors(t)') + Cardinality(Holding(t)')
                   <= Cardinality(Slots)
  <2>1. CASE t # parent
    BY <1>5, <1>6, <2>1, RotationQuiet
  <2>2. CASE t = parent
    <3>1. s \in Holding(t)
      BY <1>1, <2>2, AuthConstants DEF Holding, AuthConstants
    <3>2. QED
      BY <1>5, <1>7, <2>2, <3>1, RotationAdds
  <2>3. QED
    BY <2>1, <2>2
<1>9. ASSUME NEW t \in Tokens
      PROVE  /\ ~Issued(t)' => ~token'[t].revoked
             /\ ~token'[t].revoked => Successors(t)' = {}
  <2>1. CASE t = n
    <3>1. Successors(n) = {}
      BY <1>1 DEF RotationInv
    <3>2. QED
      BY <1>1, <1>3, <1>6, <2>1, <3>1
  <2>2. CASE t # n
    <3>1. CASE t = parent
      <4>1. pc[s] = "rotate" /\ t = task[s].token
        BY <1>1, <3>1, AuthConstants DEF AuthConstants
      <4>2. token[t].owner \in Users
        BY <1>4, <4>1 DEF TypeInv, TaskInv
      <4>3. Issued(t)'
        BY <1>1, <2>2, <4>2, AuthConstants DEF Issued, AuthConstants
      <4>4. token'[t].revoked = (token[t].revoked \/ t = parent)
        BY <1>1, <2>2
      <4>5. token'[t].revoked
        BY <3>1, <4>4
      <4>6. QED
        BY <4>3, <4>5
    <3>2. t # parent => /\ Issued(t)' = Issued(t)
                        /\ token'[t].revoked = token[t].revoked
      BY <1>1, <2>2 DEF Issued, TypeInv, RowTypes, TokenRows
    <3>3. QED
      BY <1>6, <3>1, <3>2 DEF RotationInv
  <2>3. QED
    BY <2>1, <2>2
<1>10. QED
  BY <1>8, <1>9 DEF RotationInv
LEMMA HoldStep ==
    ASSUME TypeInv, RotationInv, NEW s \in Slots, NEW t \in Tokens, LoadToken(s, t)
    PROVE  RotationInv'
<1>1. /\ UNCHANGED token
      /\ ~token[t].revoked
      /\ \A r \in Slots \ {s} : pc'[r] = pc[r] /\ task'[r] = task[r]
      /\ task'[s].token = t
  <2>1. token[t].owner \in Users
    BY DEF LoadToken, Acceptable, Unrevoked, Issued, TypeInv, RowTypes, TokenRows
  <2>2. PICK u \in Users : u = token[t].owner
    BY <2>1
  <2>3. BeginFor(s, "load_user", u, t)
    BY <2>2 DEF LoadToken, BeginFor, Begin
  <2>4. QED
    BY <2>3, BeginForTypes DEF LoadToken, Acceptable, Unrevoked, Steps
<1>2. \A x \in Tokens : Successors(x)' = Successors(x)
  BY <1>1 DEF Successors
<1>3. ASSUME NEW x \in Tokens
      PROVE  /\ IsFiniteSet(Successors(x)')
             /\ Cardinality(Successors(x)') + Cardinality(Holding(x)')
                   <= Cardinality(Slots)
  <2>1. CASE x = t
    <3>1. Successors(t)' = {}
      BY <1>1, <1>2 DEF RotationInv
    <3>2. IsFiniteSet({}) /\ Cardinality({}) = 0
      BY FS_EmptySet
    <3>3. QED
      BY <2>1, <3>1, <3>2, HoldingFinite
  <2>2. CASE x # t
    <3>1. Holding(x)' \subseteq Holding(x)
      BY <1>1, <2>2 DEF Holding
    <3>2. QED
      BY <1>2, <3>1, RotationQuiet
  <2>3. QED
    BY <2>1, <2>2
<1>4. \A x \in Tokens : /\ Issued(x)' = Issued(x)
                        /\ token'[x].revoked = token[x].revoked
  BY <1>1 DEF Issued
<1>5. QED
  BY <1>2, <1>3, <1>4 DEF RotationInv

(* The steps that neither rotate a token nor take hold of one.             *)
LEMMA FinishTakesNoHold ==
    ASSUME TypeInv, NEW s \in Slots, Finish(s) PROVE NobodyTakesHold
  BY FinishTypes DEF NobodyTakesHold, Holding

LEMMA OtherRequests ==
    ASSUME TypeInv, NEW s \in Slots, Request(s),
           ~\E t \in Tokens : LoadToken(s, t)
    PROVE  UNCHANGED token /\ NobodyTakesHold
<1>1. CASE \E e \in Emails, r \in Users \cup {NoUser} : LoadRegister(s, e, r)
  BY <1>1 DEF LoadRegister, Begin, NobodyTakesHold, Holding, TypeInv, RowTypes
<1>2. CASE \E u \in Users : LoadLogin(s, u) \/ LoadLogout(s, u)
  BY <1>2 DEF LoadLogin, LoadLogout, BeginFor, Begin, NobodyTakesHold, Holding,
              TypeInv, RowTypes
<1>3. QED
  BY <1>1, <1>2 DEF Request

LEMMA RotationStep ==
    ASSUME TypeInv, RotationInv, [AuthNext]_authVars PROVE RotationInv'
<1>1. ASSUME UNCHANGED token, NobodyTakesHold PROVE RotationInv'
  BY <1>1, QuietStep DEF Untouched
<1>2. ASSUME NEW s \in Slots, Request(s) PROVE RotationInv'
  BY <1>1, <1>2, HoldStep, OtherRequests
<1>3. ASSUME NEW s \in Slots, Progress(s) PROVE RotationInv'
  <2>1. CASE StoreRegister(s) \/ Fail(s)
    BY <1>1, <2>1, FinishTakesNoHold DEF StoreRegister, Fail
  <2>2. CASE StoreLogin(s) \/ Rotate(s)
    BY <2>2, IssueStep
  <2>3. CASE LoadUser(s) \/ ListTokens(s)
    <3>1. NobodyTakesHold
      BY <2>3 DEF LoadUser, ListTokens, Go, NobodyTakesHold, Holding, TypeInv,
                  RowTypes, Tasks
    <3>2. QED
      BY <1>1, <2>3, <3>1 DEF LoadUser, ListTokens
  <2>4. CASE RevokeListed(s)
    <3>1. task[s].listed \in SUBSET Tokens
      BY DEF TypeInv, RowTypes, Tasks
    <3>2. \A t \in task[s].listed : Issued(t)
      BY DEF TypeInv, TaskInv
    <3>3. token' = Revoke(task[s].listed) /\ Finish(s)
      BY <2>4 DEF RevokeListed
    <3>4. \A t \in Tokens :
             /\ token'[t].owner = token[t].owner
             /\ token'[t].from = token[t].from
             /\ token'[t].revoked = (token[t].revoked \/ t \in task[s].listed)
      BY <3>1, <3>3, RevokeEffect DEF TypeInv
    <3>5. Untouched
      BY <3>2, <3>4 DEF Untouched, TypeInv, RowTypes, TokenRows
    <3>6. QED
      BY <3>3, <3>5, FinishTakesNoHold, QuietStep
  <2>5. QED
    BY <1>3, <2>1, <2>2, <2>3, <2>4 DEF Progress
<1>4. ASSUME NEW t \in Tokens, TokenExpires(t) PROVE RotationInv'
  BY <1>4, ExpiryEffect, QuietStep DEF Untouched, NobodyTakesHold, Holding
<1>5. ASSUME \/ \E u \in Users : AccessExpires(u) \/ SetAccountStatus(u)
             \/ UNCHANGED authVars
      PROVE  RotationInv'
  BY <1>1, <1>5 DEF AccessExpires, SetAccountStatus, authVars, NobodyTakesHold, Holding
<1>6. QED
  BY <1>2, <1>3, <1>4, <1>5 DEF AuthNext, AuthStep

LEMMA RotationInit == ASSUME AuthInit PROVE RotationInv
<1>1. \A t \in Tokens : Successors(t) = {} /\ Holding(t) = {} /\ ~token[t].revoked
  BY AuthConstants DEF AuthInit, Successors, Holding, NoRow, AuthConstants
<1>2. /\ IsFiniteSet({}) /\ Cardinality({}) = 0 /\ Cardinality(Slots) \in Nat
  BY FS_EmptySet, FS_CardinalityType, AuthConstants DEF AuthConstants
<1>3. ASSUME NEW t \in Tokens
      PROVE  /\ IsFiniteSet(Successors(t))
             /\ Cardinality(Successors(t)) = 0 /\ Cardinality(Holding(t)) = 0
  <2>1. Successors(t) = {} /\ Holding(t) = {}
    BY <1>1
  <2>2. QED
    BY <1>2, <2>1, Zenon
<1>4. QED
  BY <1>1, <1>2, <1>3 DEF RotationInv

(* A token begets at most one successor per request in flight: one that    *)
(* has a successor is revoked, and only those that hold it still rotate it.*)
THEOREM RotationsAreBounded == AuthSpec => []RotationBounded
<1>1. RotationInv => RotationBounded
  <2>1. ASSUME RotationInv, NEW t \in Tokens
        PROVE  Cardinality(Successors(t)) <= Cardinality(Slots)
    <3>1. /\ Cardinality(Successors(t)) \in Nat
          /\ Cardinality(Successors(t)) + Cardinality(Holding(t)) <= Cardinality(Slots)
      BY <2>1, FS_CardinalityType DEF RotationInv
    <3>2. QED
      BY <3>1, HoldingFinite
  <2>2. QED
    BY <2>1 DEF RotationBounded
<1>2. QED
  BY <1>1, InitTypes, StepTypes, RotationInit, RotationStep, PTL DEF AuthSpec

-----------------------------------------------------------------------------
(* What a request has read, until it commits.                              *)

(* What a request has read still holds unless it is remembered as changed. *)
ReadsHold(s) ==
    /\ pc[s] \in {"issue", "rotate"} =>
          "status" \in touched[s] \/ Active(task[s].user)
    /\ pc[s] \in {"load_user", "rotate"} =>
          "token" \in touched[s] \/ ~token[task[s].token].revoked
    /\ pc[s] = "revoke" =>
          \/ "tokens" \in touched[s]
          \/ \A t \in Tokens : token[t].owner = task[s].user =>
                token[t].revoked \/ t \in task[s].listed

ReadInv == \A s \in Slots : ReadsHold(s)

FreshInv == \A t \in Tokens : ~Issued(t) => token[t].from = NoToken

LEMMA RevokeListedEffect ==
    ASSUME TypeInv, NEW s \in Slots, RevokeListed(s)
    PROVE  /\ Finish(s) /\ UNCHANGED <<account, access>>
           /\ \A t \in Tokens :
                 /\ token'[t].owner = token[t].owner
                 /\ token'[t].from = token[t].from
                 /\ token'[t].revoked = (token[t].revoked \/ t \in task[s].listed)
                 /\ t \in task[s].listed => token[t].owner = task[s].user
<1>1. task[s].listed \in SUBSET Tokens
  BY DEF TypeInv, RowTypes, Tasks
<1>2. \A t \in task[s].listed : token[t].owner = task[s].user
  BY DEF TypeInv, TaskInv
<1>3. token' = Revoke(task[s].listed) /\ Finish(s) /\ UNCHANGED <<account, access>>
  BY DEF RevokeListed
<1> QED
  BY <1>1, <1>2, <1>3, RevokeEffect DEF TypeInv

(* Nothing takes a revocation back.                                        *)
LEMMA RevokedStays ==
    ASSUME TypeInv, [AuthNext]_authVars, NEW t \in Tokens, Issued(t), token[t].revoked
    PROVE  token'[t].revoked
<1>1. CASE UNCHANGED token
  BY <1>1
<1>2. ASSUME NEW s \in Slots, StoreLogin(s) \/ Rotate(s) PROVE token'[t].revoked
  BY <1>2, IssueEffect
<1>3. ASSUME NEW s \in Slots, RevokeListed(s) PROVE token'[t].revoked
  BY <1>3, RevokeListedEffect
<1>4. ASSUME NEW x \in Tokens, TokenExpires(x) PROVE token'[t].revoked
  BY <1>4, ExpiryEffect
<1>5. ASSUME NEW s \in Slots, Request(s) PROVE UNCHANGED token
  BY <1>5 DEF Request, LoadRegister, LoadLogin, LoadLogout, LoadToken
<1>6. ASSUME NEW s \in Slots, Progress(s),
             ~(StoreLogin(s) \/ Rotate(s)), ~RevokeListed(s)
      PROVE  UNCHANGED token
  BY <1>6 DEF Progress, StoreRegister, LoadUser, ListTokens, Fail
<1>7. ASSUME \/ \E u \in Users : AccessExpires(u) \/ SetAccountStatus(u)
             \/ UNCHANGED authVars
      PROVE  UNCHANGED token
  BY <1>7 DEF AccessExpires, SetAccountStatus, authVars
<1> QED
  BY <1>1, <1>2, <1>3, <1>4, <1>5, <1>6, <1>7 DEF AuthNext, AuthStep

(* What is remembered of a step that changes what slot s has read.         *)
LEMMA Remembered ==
    ASSUME Remember, NEW s \in Slots, pc'[s] # "idle"
    PROVE  /\ touched[s] \subseteq touched'[s]
           /\ pc[s] \in {"issue", "rotate"} /\ "status" \notin touched'[s] =>
                 account'[task[s].user].status = account[task[s].user].status
           /\ pc[s] \in {"load_user", "rotate"} /\ "token" \notin touched'[s] =>
                 token'[task[s].token].revoked = token[task[s].token].revoked
           /\ pc[s] = "revoke" /\ "tokens" \notin touched'[s] =>
                 \A n \in Tokens : token'[n].owner = task[s].user
                                      => token[n].owner = task[s].user
<1>1. touched'[s] = touched[s] \cup Changed(s)
  BY DEF Remember
<1> QED
  BY <1>1 DEF Changed, Reads

(* The request in slot s waits while others take a step.                   *)
Waits(s) == pc'[s] = pc[s] /\ task'[s] = task[s]

LEMMA WaitingKeepsReads ==
    ASSUME TypeInv, AuthNext, NEW s \in Slots, ReadsHold(s), Waits(s)
    PROVE  ReadsHold(s)'
<1>1. CASE pc[s] \notin {"issue", "load_user", "rotate", "revoke"}
  BY <1>1 DEF ReadsHold, Waits
<1>2. CASE pc[s] \in {"issue", "load_user", "rotate", "revoke"}
  <2>1. Remember /\ pc'[s] # "idle"
    BY <1>2 DEF AuthNext, Waits
  <2>2. task[s].user \in Users
    BY <1>2 DEF TypeInv, TaskInv
  <2>3. ASSUME pc[s] \in {"issue", "rotate"}, "status" \notin touched'[s]
        PROVE  account'[task[s].user].status = "active"
    BY <2>1, <2>3, Remembered DEF ReadsHold, Active
  <2>4. ASSUME pc[s] \in {"load_user", "rotate"}, "token" \notin touched'[s]
        PROVE  ~token'[task[s].token].revoked
    BY <2>1, <2>4, Remembered DEF ReadsHold
  <2>5. ASSUME pc[s] = "revoke", "tokens" \notin touched'[s],
               NEW t \in Tokens, token'[t].owner = task[s].user
        PROVE  token'[t].revoked \/ t \in task[s].listed
    <3>1. token[t].owner = task[s].user /\ Issued(t)
      BY <2>1, <2>2, <2>5, Remembered, AuthConstants DEF Issued, AuthConstants
    <3>2. token[t].revoked \/ t \in task[s].listed
      BY <2>1, <2>5, <3>1, Remembered DEF ReadsHold
    <3> QED
      BY <3>1, <3>2, RevokedStays
  <2> QED
    BY <2>3, <2>4, <2>5 DEF ReadsHold, Waits, Active
<1> QED
  BY <1>1, <1>2

(* Each step of the slot's own: what it reads holds when it is read.       *)
LEMMA BeginReads ==
    ASSUME TypeInv, NEW s \in Slots, NEW where \in {"issue", "load_user", "list"},
           NEW u \in Users, NEW t \in Tokens \cup {NoToken},
           BeginFor(s, where, u, t), UNCHANGED <<account, token>>,
           where = "issue" => Active(u),
           where = "load_user" => ~token[t].revoked
    PROVE  ReadsHold(s)' /\ \A x \in Slots \ {s} : Waits(x)
<1>1. /\ pc'[s] = where /\ task'[s].user = u /\ task'[s].token = t
      /\ \A x \in Slots \ {s} : pc'[x] = pc[x] /\ task'[x] = task[x]
  BY BeginForTypes DEF Steps
<1> QED
  BY <1>1 DEF ReadsHold, Waits, Active

LEMMA RequestReads ==
    ASSUME TypeInv, NEW s \in Slots, Request(s)
    PROVE  ReadsHold(s)' /\ \A x \in Slots \ {s} : Waits(x)
<1>1. ASSUME NEW e \in Emails, NEW r \in Users \cup {NoUser}, LoadRegister(s, e, r)
      PROVE  ReadsHold(s)' /\ \A x \in Slots \ {s} : Waits(x)
  BY <1>1 DEF LoadRegister, Begin, ReadsHold, Waits, TypeInv, RowTypes
<1>2. ASSUME NEW u \in Users, LoadLogin(s, u) \/ LoadLogout(s, u)
      PROVE  ReadsHold(s)' /\ \A x \in Slots \ {s} : Waits(x)
  BY <1>2, BeginReads DEF LoadLogin, LoadLogout
<1>3. ASSUME NEW t \in Tokens, LoadToken(s, t)
      PROVE  ReadsHold(s)' /\ \A x \in Slots \ {s} : Waits(x)
  <2>1. token[t].owner \in Users /\ ~token[t].revoked
    BY <1>3 DEF LoadToken, Acceptable, Unrevoked, Issued, TypeInv, RowTypes, TokenRows
  <2>2. BeginFor(s, "load_user", token[t].owner, t) /\ UNCHANGED <<account, token>>
    BY <1>3 DEF LoadToken
  <2> QED
    BY <2>1, <2>2, BeginReads
<1> QED
  BY <1>1, <1>2, <1>3 DEF Request

LEMMA ProgressReads ==
    ASSUME TypeInv, AuthNext, ReadInv, NEW s \in Slots, Progress(s)
    PROVE  ReadsHold(s)' /\ \A x \in Slots \ {s} : Waits(x)
<1>1. CASE Finish(s)
  BY <1>1, FinishTypes DEF ReadsHold, Waits
<1>2. CASE LoadUser(s)
  <2>1. /\ pc[s] = "load_user" /\ pc'[s] = "rotate"
        /\ Active(task[s].user) /\ UNCHANGED <<account, token, task>>
        /\ \A x \in Slots \ {s} : Waits(x)
    BY <1>2 DEF LoadUser, Go, Waits, TypeInv, RowTypes
  <2>2. touched[s] \subseteq touched'[s]
    BY <2>1, Remembered DEF AuthNext
  <2>3. "token" \in touched'[s] \/ ~token'[task'[s].token].revoked
    BY <2>1, <2>2 DEF ReadInv, ReadsHold
  <2> QED
    BY <2>1, <2>3 DEF ReadsHold, Active
<1>3. CASE ListTokens(s)
  <2>1. /\ pc'[s] = "revoke" /\ UNCHANGED token
        /\ task'[s].user = task[s].user
        /\ task'[s].listed = TokensOf(task[s].user)
        /\ \A x \in Slots \ {s} : Waits(x)
    BY <1>3 DEF ListTokens, Go, Waits, TypeInv, RowTypes, Tasks
  <2>2. \A t \in Tokens : token'[t].owner = task'[s].user
                             => token'[t].revoked \/ t \in task'[s].listed
    BY <2>1 DEF TokensOf
  <2> QED
    BY <2>1, <2>2 DEF ReadsHold
<1> QED
  BY <1>1, <1>2, <1>3
     DEF Progress, StoreRegister, StoreLogin, Rotate, RevokeListed, Fail

LEMMA ReadStep ==
    ASSUME TypeInv, ReadInv, [AuthNext]_authVars PROVE ReadInv'
<1>1. ASSUME AuthNext PROVE ReadInv'
  <2>1. ASSUME NEW s \in Slots, ReadsHold(s)', \A x \in Slots \ {s} : Waits(x)
        PROVE  ReadInv'
    BY <1>1, <2>1, WaitingKeepsReads DEF ReadInv
  <2>2. ASSUME NEW s \in Slots, Request(s) \/ Progress(s) PROVE ReadInv'
    BY <1>1, <2>1, <2>2, RequestReads, ProgressReads
  <2>3. ASSUME UNCHANGED <<pc, task>> PROVE ReadInv'
    BY <1>1, <2>3, WaitingKeepsReads DEF ReadInv, Waits
  <2> QED
    BY <1>1, <2>2, <2>3
       DEF AuthNext, AuthStep, TokenExpires, AccessExpires, SetAccountStatus
<1>2. CASE UNCHANGED authVars
  BY <1>2 DEF authVars, ReadInv, ReadsHold, Active
<1> QED
  BY <1>1, <1>2

LEMMA ReadInit == ASSUME AuthInit PROVE ReadInv
  BY DEF AuthInit, ReadInv, ReadsHold

-----------------------------------------------------------------------------
(* What a step issues, and what it rotates. *)

(* A step issues one token or none; only a rotation issues a successor.    *)
LEMMA StepIssues ==
    ASSUME TypeInv, [AuthNext]_authVars
    PROVE  \/ \A t \in Tokens : /\ token'[t].owner = token[t].owner
                                /\ token'[t].from = token[t].from
           \/ \E s \in Slots, n \in Tokens :
                 /\ StoreLogin(s) \/ Rotate(s)
                 /\ token'[n].owner = task[s].user
                 /\ token'[n].from = IF pc[s] = "rotate" THEN task[s].token ELSE NoToken
                 /\ ~Issued(n) /\ UNCHANGED account
                 /\ \A t \in Tokens \ {n} : /\ token'[t].owner = token[t].owner
                                            /\ token'[t].from = token[t].from
<1> DEFINE Goal == \/ \A t \in Tokens : /\ token'[t].owner = token[t].owner
                                        /\ token'[t].from = token[t].from
                   \/ \E s \in Slots, n \in Tokens :
                         /\ StoreLogin(s) \/ Rotate(s)
                         /\ token'[n].owner = task[s].user
                         /\ token'[n].from = IF pc[s] = "rotate"
                                             THEN task[s].token ELSE NoToken
                         /\ ~Issued(n) /\ UNCHANGED account
                         /\ \A t \in Tokens \ {n} : /\ token'[t].owner = token[t].owner
                                                    /\ token'[t].from = token[t].from
<1>1. UNCHANGED token => Goal
  OBVIOUS
<1>2. ASSUME NEW s \in Slots, StoreLogin(s) \/ Rotate(s) PROVE Goal
  <2>1. PICK n \in Tokens, parent \in Tokens \cup {NoToken} :
          /\ parent = IF pc[s] = "rotate" THEN task[s].token ELSE NoToken
          /\ ~Issued(n)
          /\ token'[n] = [owner |-> task[s].user, revoked |-> FALSE,
                          expired |-> FALSE, from |-> parent]
          /\ \A t \in Tokens \ {n} :
                /\ token'[t].owner = token[t].owner
                /\ token'[t].from = token[t].from
                /\ token'[t].revoked = (token[t].revoked \/ t = parent)
    BY <1>2, IssueEffect
  <2>2. token'[n].owner = task[s].user /\ token'[n].from = parent
    BY <2>1
  <2>3. UNCHANGED account
    BY <1>2, IssueEffect
  <2> QED
    BY <1>2, <2>1, <2>2, <2>3
<1>3. ASSUME NEW s \in Slots, RevokeListed(s) PROVE Goal
  BY <1>3, RevokeListedEffect
<1>4. ASSUME NEW t \in Tokens, TokenExpires(t) PROVE Goal
  BY <1>4, ExpiryEffect
<1>5. ASSUME NEW s \in Slots, Request(s) PROVE UNCHANGED token
  BY <1>5 DEF Request, LoadRegister, LoadLogin, LoadLogout, LoadToken
<1>6. ASSUME NEW s \in Slots, Progress(s),
             ~(StoreLogin(s) \/ Rotate(s)), ~RevokeListed(s)
      PROVE  UNCHANGED token
  BY <1>6 DEF Progress, StoreRegister, LoadUser, ListTokens, Fail
<1>7. ASSUME \/ \E u \in Users : AccessExpires(u) \/ SetAccountStatus(u)
             \/ UNCHANGED authVars
      PROVE  UNCHANGED token
  BY <1>7 DEF AccessExpires, SetAccountStatus, authVars
<1> HIDE DEF Goal
<1>8. Goal
  BY <1>1, <1>2, <1>3, <1>4, <1>5, <1>6, <1>7 DEF AuthNext, AuthStep
<1> QED
  BY <1>8 DEF Goal

LEMMA FreshStep ==
    ASSUME TypeInv, FreshInv, [AuthNext]_authVars PROVE FreshInv'
<1>1. CASE \A t \in Tokens : /\ token'[t].owner = token[t].owner
                             /\ token'[t].from = token[t].from
  BY <1>1 DEF FreshInv, Issued
<1>2. CASE \E s \in Slots, n \in Tokens :
                 /\ StoreLogin(s) \/ Rotate(s)
                 /\ token'[n].owner = task[s].user
                 /\ \A t \in Tokens \ {n} : /\ token'[t].owner = token[t].owner
                                            /\ token'[t].from = token[t].from
  <2>1. PICK s \in Slots, n \in Tokens :
                 /\ StoreLogin(s) \/ Rotate(s)
                 /\ token'[n].owner = task[s].user
                 /\ \A t \in Tokens \ {n} : /\ token'[t].owner = token[t].owner
                                            /\ token'[t].from = token[t].from
    BY <1>2
  <2>2. task[s].user \in Users
    BY <2>1 DEF StoreLogin, Rotate, TypeInv, TaskInv
  <2>3. Issued(n)'
    BY <2>1, <2>2, AuthConstants DEF Issued, AuthConstants
  <2> QED
    BY <2>1, <2>3 DEF FreshInv, Issued
<1> QED
  BY <1>1, <1>2, StepIssues

(* The invariant the properties of the steps rest on.                      *)
SessionInv == TypeInv /\ ReadInv /\ FreshInv

LEMMA SessionInvariant == AuthSpec => []SessionInv
<1>1. AuthInit => FreshInv
  BY DEF AuthInit, FreshInv, NoRow
<1> QED
  BY <1>1, InitTypes, StepTypes, ReadInit, ReadStep, FreshStep, PTL
     DEF AuthSpec, SessionInv

(* Of a token revoked before, only a rotation makes a successor, and of    *)
(* what that one has read is remembered that it changed.                   *)
THEOREM RevokedStaysUseless == AuthSpec => RevokedIsUseless
<1> DEFINE Late(t) == \E s \in Slots : /\ Rotate(s)
                                       /\ task[s].token = t
                                       /\ "token" \in touched[s]
<1>1. ASSUME SessionInv, [AuthNext]_authVars, NEW t \in Tokens,
             token[t].revoked, Successors(t)' # Successors(t)
      PROVE  Late(t)
  <2>1. ~\A x \in Tokens : token'[x].from = token[x].from
    BY <1>1 DEF Successors
  <2>2. PICK s \in Slots, n \in Tokens :
               /\ StoreLogin(s) \/ Rotate(s)
               /\ token'[n].from = IF pc[s] = "rotate" THEN task[s].token ELSE NoToken
               /\ ~Issued(n)
               /\ \A x \in Tokens \ {n} : token'[x].from = token[x].from
    BY <1>1, <2>1, StepIssues DEF SessionInv
  <2>3. token[n].from # t
    BY <1>1, <2>2, AuthConstants DEF SessionInv, FreshInv, AuthConstants
  <2>4. token'[n].from = t
    BY <1>1, <2>2, <2>3 DEF Successors
  <2>5. pc[s] = "rotate" /\ task[s].token = t
    BY <2>2, <2>4, AuthConstants DEF AuthConstants
  <2>6. Rotate(s)
    BY <2>2, <2>5 DEF StoreLogin
  <2>7. "token" \in touched[s]
    BY <1>1, <2>5 DEF SessionInv, ReadInv, ReadsHold
  <2> QED
    BY <2>5, <2>6, <2>7
<1> HIDE DEF Late
<1>2. SessionInv /\ [AuthNext]_authVars =>
         [\A t \in Tokens : token[t].revoked /\ Successors(t)' # Successors(t)
             => Late(t)]_authVars
  BY <1>1
<1> USE DEF Late
<1> QED
  BY <1>2, SessionInvariant, PTL DEF AuthSpec, RevokedIsUseless

(* A logout lists every unrevoked token of its user, and if none is new    *)
(* since, finds no other when it revokes them.                             *)
THEOREM LogoutsEndSessions == AuthSpec => LogoutEndsSessions
<1>1. ASSUME SessionInv, NEW s \in Slots,
             RevokeListed(s), "tokens" \notin touched[s],
             NEW t \in Tokens, token'[t].owner = task[s].user
      PROVE  token'[t].revoked
  <2>1. /\ token'[t].owner = token[t].owner
        /\ token'[t].revoked = (token[t].revoked \/ t \in task[s].listed)
    BY <1>1, RevokeListedEffect DEF SessionInv
  <2>2. pc[s] = "revoke"
    BY <1>1 DEF RevokeListed
  <2>3. token[t].revoked \/ t \in task[s].listed
    BY <1>1, <2>1, <2>2 DEF SessionInv, ReadInv, ReadsHold
  <2> QED
    BY <2>1, <2>3
<1>2. SessionInv => [\A s \in Slots :
         RevokeListed(s) /\ "tokens" \notin touched[s] =>
             \A t \in Tokens : token'[t].owner = task[s].user
                                   => token'[t].revoked]_authVars
  BY <1>1
<1> QED
  BY <1>2, SessionInvariant, PTL DEF LogoutEndsSessions

(* The account of a sign-in or refresh is active when its status is read,  *)
(* and when the token is issued unless the status is remembered as changed.*)
THEOREM TokensGoToActive == AuthSpec => IssuedToActive
<1> DEFINE Late(t) == \E s \in Slots : /\ StoreLogin(s) \/ Rotate(s)
                                       /\ task[s].user = token'[t].owner
                                       /\ "status" \in touched[s]
<1>1. ASSUME SessionInv, [AuthNext]_authVars, NEW t \in Tokens,
             ~Issued(t), Issued(t)', ~Active(token'[t].owner)
      PROVE  Late(t)
  <2>1. PICK s \in Slots : /\ StoreLogin(s) \/ Rotate(s)
                           /\ token'[t].owner = task[s].user
    BY <1>1, StepIssues DEF SessionInv, Issued
  <2>2. pc[s] \in {"issue", "rotate"}
    BY <2>1 DEF StoreLogin, Rotate
  <2>3. "status" \in touched[s]
    BY <1>1, <2>1, <2>2 DEF SessionInv, ReadInv, ReadsHold
  <2> QED
    BY <2>1, <2>3
<1> HIDE DEF Late
<1>2. SessionInv /\ [AuthNext]_authVars =>
         [\A t \in Tokens : ~Issued(t) /\ Issued(t)' /\ ~Active(token'[t].owner)
             => Late(t)]_authVars
  BY <1>1
<1> USE DEF Late
<1> QED
  BY <1>2, SessionInvariant, PTL DEF AuthSpec, IssuedToActive
=============================================================================
