------------------------------- MODULE Accounts -------------------------------
(***************************************************************************)
(* Accounts and signed-in sessions: lifespan.py's bootstrap, api/routes    *)
(* auth.py and admin.py, db/repositories users.py and credentials.py, and  *)
(* the refresh of the browser's client (frontend lib/api/client.ts).       *)
(*                                                                         *)
(* A refresh token is a number; the browser's tabs share one cookie, and a *)
(* refresh is a request, a read of the token's row, a write, and a reply   *)
(* that may get lost.  On SQLite writes exclude each other (Serialised);   *)
(* on PostgreSQL two may overlap.  An access token is the claim it makes   *)
(* until it expires: nobody looks its account up again.  Passwords are     *)
(* whether an account has one.                                             *)
(***************************************************************************)
EXTENDS Naturals, FiniteSets

CONSTANTS
  People,
  LocalUser,         \* the built-in account's address
  Tabs,              \* of the one browser whose sessions are followed
  OpenRegistration,
  Serialised,        \* SQLite
  MaxTokens,         \* bound: refresh tokens issued
  MaxAdminSteps      \* bound: restarts and changes an administrator makes

ASSUME AccountsAssumption ==
  /\ LocalUser \notin People
  /\ OpenRegistration \in BOOLEAN
  /\ Serialised \in BOOLEAN
  /\ MaxTokens \in Nat
  /\ MaxAdminSteps \in Nat

VARIABLES
  authOn,    \* settings.auth.enabled of the running process
  account,   \* app_user rows by address: the empty set, or the one row
  tokens,    \* refresh_token rows
  minted,    \* tokens issued so far
  claims,    \* access tokens that have not expired
  cookie,    \* the browser's refresh cookie; 0 is none
  request,   \* each tab's refresh
  reused,    \* families a used token was presented of
  steps      \* restarts and administrative changes so far

accountVars ==
  <<authOn, account, tokens, minted, claims, cookie, request, reused, steps>>

Addresses == People \cup {LocalUser}
Account == [role : {"admin", "user"}, status : {"active", "disabled"}, password : BOOLEAN]
Token == [id : 1..MaxTokens, owner : Addresses, family : 1..MaxTokens,
          live : BOOLEAN, fresh : BOOLEAN]

(* Rows, claims, cookies and requests have the shape the code gives them;  *)
(* a token's number names one row, and its owner has an account.           *)
AccountsTypeOK ==
  /\ authOn \in BOOLEAN
  /\ \A a \in Addresses : account[a] = {} \/ \E r \in Account : account[a] = {r}
  /\ tokens \subseteq Token
  /\ \A x, y \in tokens : x.id = y.id => x = y
  /\ \A x \in tokens : account[x.owner] # {}
  /\ minted \in 0..MaxTokens
  /\ claims \subseteq Addresses \X {"admin", "user"}
  /\ cookie \in 0..MaxTokens
  /\ request \in [Tabs -> [stage : {"idle", "sent", "read", "replied"},
                           token : 0..MaxTokens, found : SUBSET Token, new : 0..MaxTokens]]
  /\ reused \subseteq 1..MaxTokens
  /\ steps \in 0..MaxAdminSteps

NoRequest == [stage |-> "idle", token |-> 0, found |-> {}, new |-> 0]

AccountsInit ==
  /\ authOn \in BOOLEAN
  /\ account = [a \in Addresses |->
       IF a = LocalUser /\ ~authOn
       THEN {[role |-> "admin", status |-> "active", password |-> FALSE]} ELSE {}]
  /\ tokens = {}
  /\ minted = 0
  /\ claims = {}
  /\ cookie = 0
  /\ request = [t \in Tabs |-> NoRequest]
  /\ reused = {}
  /\ steps = 0

\* db.write: on SQLite no other write transaction is open.
MayWrite == Serialised => \A t \in Tabs : request[t].stage # "read"

-----------------------------------------------------------------------------
(* The process starts again, perhaps with authentication switched *)

\* _bootstrap_accounts: a local account without authentication; with it, the configured
\* administrator, if a password is configured and there is no account at all.
Bootstrapped(on, configured) ==
  IF ~on
  THEN [account EXCEPT ![LocalUser] =
         IF @ = {} THEN {[role |-> "admin", status |-> "active", password |-> FALSE]} ELSE @]
  ELSE [a \in Addresses |->
         IF (\A b \in Addresses : account[b] = {}) /\ a \in configured
         THEN {[role |-> "admin", status |-> "active", password |-> TRUE]} ELSE account[a]]

\* Requests under way are lost with the process.
StartsAgain(on, configured) ==
  /\ steps < MaxAdminSteps
  /\ steps' = steps + 1
  /\ authOn' = on
  /\ account' = Bootstrapped(on, configured)
  /\ request' = [t \in Tabs |-> NoRequest]
  /\ UNCHANGED <<tokens, minted, claims, cookie, reused>>

-----------------------------------------------------------------------------
(* Signing up, in and out *)

\* _issue_session: a new family, the cookie and an access token.
IssuesSession(a, role) ==
  /\ minted < MaxTokens
  /\ minted' = minted + 1
  /\ tokens' = tokens \cup
       {[id |-> minted', owner |-> a, family |-> minted', live |-> TRUE, fresh |-> TRUE]}
  /\ cookie' = minted'
  /\ claims' = claims \cup {<<a, role>>}

\* register: the first account is an administrator; later ones need open registration.
Registers(a) ==
  LET first == \A b \in Addresses : account[b] = {}
      role  == IF first THEN "admin" ELSE "user"
  IN  /\ authOn
      /\ MayWrite
      /\ first \/ OpenRegistration
      /\ account[a] = {}
      /\ account' = [account EXCEPT ![a] =
           {[role |-> role, status |-> "active", password |-> TRUE]}]
      /\ IssuesSession(a, role)
      /\ UNCHANGED <<authOn, request, reused, steps>>

\* login: whoever knows the password of an active account.
SignsIn(a) ==
  /\ authOn
  /\ MayWrite
  /\ \E r \in account[a] :
       /\ r.password
       /\ r.status = "active"
       /\ IssuesSession(a, r.role)
  /\ UNCHANGED <<authOn, account, request, reused, steps>>

Revoked(x) == [x EXCEPT !.live = FALSE]

\* logout: the token of the cookie, and only it.
SignsOut ==
  /\ authOn
  /\ MayWrite
  /\ cookie # 0
  /\ tokens' = {IF x.id = cookie THEN Revoked(x) ELSE x : x \in tokens}
  /\ cookie' = 0
  /\ UNCHANGED <<authOn, account, minted, claims, request, reused, steps>>

-----------------------------------------------------------------------------
(* A tab refreshes *)

\* client.ts #tryRefresh: one request at a time, in this tab.
RefreshSent(t) ==
  /\ authOn
  /\ request[t].stage = "idle"
  /\ cookie # 0
  /\ request' = [request EXCEPT ![t] = [@ EXCEPT !.stage = "sent", !.token = cookie]]
  /\ UNCHANGED <<authOn, account, tokens, minted, claims, cookie, reused, steps>>

\* rotate_refresh_token selects the row of the token.
RefreshReads(t) ==
  /\ request[t].stage = "sent"
  /\ MayWrite
  /\ request' = [request EXCEPT ![t] =
       [@ EXCEPT !.stage = "read", !.found = {x \in tokens : x.id = request[t].token}]]
  /\ UNCHANGED <<authOn, account, tokens, minted, claims, cookie, reused, steps>>

Replies(t, new) ==
  request' = [request EXCEPT ![t] = [@ EXCEPT !.stage = "replied", !.found = {}, !.new = new]]

\* No row, or an expired one; or one that is gone by now, which fails the write.
RefreshIsRefused(t) ==
  /\ request[t].stage = "read"
  /\ \A x \in request[t].found :
       x.live /\ (~x.fresh \/ \A y \in tokens : y.id # x.id)
  /\ Replies(t, 0)
  /\ UNCHANGED <<authOn, account, tokens, minted, claims, cookie, reused, steps>>

\* A token already used: revoke_family.
RefreshIsReuse(t) ==
  /\ request[t].stage = "read"
  /\ \E x \in request[t].found :
       /\ ~x.live
       /\ tokens' = {IF y.family = x.family THEN Revoked(y) ELSE y : y \in tokens}
       /\ reused' = reused \cup {x.family}
  /\ Replies(t, 0)
  /\ UNCHANGED <<authOn, account, minted, claims, cookie, steps>>

\* Mutant: a token that was rotated stays good.
RefreshRotates_KeepsOld(t) ==
  /\ request[t].stage = "read"
  /\ minted < MaxTokens
  /\ \E x \in request[t].found : \E r \in account[x.owner] :
       /\ x.live
       /\ x.fresh
       /\ tokens' = tokens \cup {[x EXCEPT !.id = minted + 1]}
       /\ claims' = IF r.status = "active" THEN claims \cup {<<x.owner, r.role>>} ELSE claims
       /\ Replies(t, IF r.status = "active" THEN minted + 1 ELSE 0)
  /\ minted' = minted + 1
  /\ UNCHANGED <<authOn, account, cookie, reused, steps>>

\* A live token is revoked and replaced within its family, whatever became of the row
\* since it was read; an account that is not active gets neither token.
RefreshRotates(t) ==
  /\ request[t].stage = "read"
  /\ minted < MaxTokens
  /\ \E x \in request[t].found : \E r \in account[x.owner] :
       /\ x.live
       /\ x.fresh
       /\ \E y \in tokens : y.id = x.id
       /\ tokens' = {IF y.id = x.id THEN Revoked(y) ELSE y : y \in tokens}
                      \cup {[x EXCEPT !.id = minted + 1]}
       /\ claims' = IF r.status = "active" THEN claims \cup {<<x.owner, r.role>>} ELSE claims
       /\ Replies(t, IF r.status = "active" THEN minted + 1 ELSE 0)
  /\ minted' = minted + 1
  /\ UNCHANGED <<authOn, account, cookie, reused, steps>>

\* The reply sets the cookie.  A refusal leaves it: the route deletes it on a response that the
\* exception it raises next replaces (app.py: _velox_error).
ReplyArrives(t) ==
  /\ request[t].stage = "replied"
  /\ cookie' = IF request[t].new = 0 THEN cookie ELSE request[t].new
  /\ request' = [request EXCEPT ![t] = NoRequest]
  /\ UNCHANGED <<authOn, account, tokens, minted, claims, reused, steps>>

ReplyIsLost(t) ==
  /\ request[t].stage = "replied"
  /\ request' = [request EXCEPT ![t] = NoRequest]
  /\ UNCHANGED <<authOn, account, tokens, minted, claims, cookie, reused, steps>>

TokenExpires ==
  /\ \E x \in tokens :
       /\ x.fresh
       /\ tokens' = (tokens \ {x}) \cup {[x EXCEPT !.fresh = FALSE]}
  /\ UNCHANGED <<authOn, account, minted, claims, cookie, request, reused, steps>>

ClaimExpires ==
  /\ \E c \in claims : claims' = claims \ {c}
  /\ UNCHANGED <<authOn, account, tokens, minted, cookie, request, reused, steps>>

-----------------------------------------------------------------------------
(* The administrator's console: whoever's access token says so *)

Administers(by) ==
  /\ steps < MaxAdminSteps
  /\ steps' = steps + 1
  /\ MayWrite
  /\ IF authOn THEN <<by, "admin">> \in claims ELSE by = LocalUser
  /\ UNCHANGED <<authOn, minted, claims, cookie, request, reused>>

CreatesUser(by, a, role) ==
  /\ Administers(by)
  /\ account[a] = {}
  /\ account' = [account EXCEPT ![a] =
       {[role |-> role, status |-> "active", password |-> TRUE]}]
  /\ UNCHANGED tokens

SetsRole(by, a, role) ==
  /\ Administers(by)
  /\ by = a => role = "admin"
  /\ account[a] # {}
  /\ account' = [account EXCEPT ![a] = {[r EXCEPT !.role = role] : r \in @}]
  /\ UNCHANGED tokens

SetsStatus(by, a, status) ==
  /\ Administers(by)
  /\ by = a => status = "active"
  /\ account[a] # {}
  /\ account' = [account EXCEPT ![a] = {[r EXCEPT !.status = status] : r \in @}]
  /\ UNCHANGED tokens

\* The row and, by the database's cascade, its tokens.
DeletesUser(by, a) ==
  /\ Administers(by)
  /\ by # a
  /\ account[a] # {}
  /\ account' = [account EXCEPT ![a] = {}]
  /\ tokens' = {x \in tokens : x.owner # a}

-----------------------------------------------------------------------------

RefreshSteps(t) ==
  \/ RefreshSent(t)
  \/ RefreshReads(t)
  \/ RefreshIsRefused(t)
  \/ RefreshIsReuse(t)
  \/ RefreshRotates(t)
  \/ ReplyArrives(t)
  \/ ReplyIsLost(t)

AdminSteps ==
  \E by \in Addresses, a \in Addresses :
    \/ \E role \in {"admin", "user"} : CreatesUser(by, a, role) \/ SetsRole(by, a, role)
    \/ \E status \in {"active", "disabled"} : SetsStatus(by, a, status)
    \/ DeletesUser(by, a)

AccountsNext ==
  \/ \E on \in BOOLEAN, configured \in {{}} \cup {{a} : a \in People} :
       StartsAgain(on, configured)
  \/ \E a \in People : Registers(a) \/ SignsIn(a)
  \/ SignsOut
  \/ \E t \in Tabs : RefreshSteps(t)
  \/ TokenExpires
  \/ ClaimExpires
  \/ AdminSteps

AccountsSpec == AccountsInit /\ [][AccountsNext]_accountVars

-----------------------------------------------------------------------------

Live(family) == {x \in tokens : x.family = family /\ x.live}

(* However many tabs refresh with one cookie, and whichever replies are    *)
(* lost, a signed-in session has at most one token that is still good      *)
(* (rotate_refresh_token under the write lock).                            *)
OneLiveToken == \A f \in 1..MaxTokens : Cardinality(Live(f)) <= 1

(* Once a used token has been presented, no token of its family is ever    *)
(* good again (revoke_family, models.py RefreshToken).                     *)
ReusedFamiliesAreDead == \A f \in reused : Live(f) = {}

(* Sessions hold together under every interleaving of tabs and             *)
(* administration (api/routes/auth.py): all of the above.                  *)
AccountsInv == AccountsTypeOK /\ OneLiveToken /\ ReusedFamiliesAreDead

(* "Ensure the instance has an account that can sign in.  Three cases, and *)
(* no fourth" (lifespan.py:89-91): with authentication on there is no      *)
(* account yet, or there is an administrator who can sign in.              *)
SomebodyCanAdminister ==
  authOn =>
    \/ \A a \in Addresses : account[a] = {}
    \/ \E a \in Addresses, r \in Account :
         account[a] = {r} /\ r.role = "admin" /\ r.password /\ r.status = "active"

(* "Presenting a token that was already rotated means it leaked"           *)
(* (db/models.py:92-94): a browser that keeps its cookie to itself never   *)
(* presents one.                                                           *)
OnlyLeakedTokensAreReused == reused = {}
=============================================================================
