---------------------------- MODULE Chats_proofs -----------------------------
(***************************************************************************)
(* Accounts and their sessions, conversations and their messages: for any  *)
(* number of addresses, tokens, turns, messages and pages.                 *)
(***************************************************************************)
EXTENDS Accounts, Conversation, FiniteSetTheorems, SequenceTheorems, WellFoundedInduction, TLAPS

-----------------------------------------------------------------------------
(* Accounts and sessions: the inductive invariant *)

Stages == {"idle", "sent", "read", "replied"}
Requests == [stage : Stages, token : 0..MaxTokens, found : SUBSET Token, new : 0..MaxTokens]

\* An address has no row or one.
RowsAreSingle ==
  /\ account \in [Addresses -> SUBSET Account]
  /\ \A a \in Addresses : account[a] = {} \/ \E r \in Account : account[a] = {r}

\* A token's number names one row of a family that was begun, and its owner has an account.
TokensAreNamed ==
  /\ tokens \subseteq Token
  /\ \A x, y \in tokens : x.id = y.id => x = y
  /\ \A x \in tokens : x.id <= minted /\ x.family <= minted /\ account[x.owner] # {}
  /\ minted \in 0..MaxTokens
  /\ reused \subseteq 1..minted

RestTypes ==
  /\ authOn \in BOOLEAN
  /\ claims \subseteq Addresses \X {"admin", "user"}
  /\ cookie \in 0..MaxTokens
  /\ request \in [Tabs -> Requests]
  /\ \A t \in Tabs : \A x \in request[t].found : x.family <= minted
  /\ steps \in 0..MaxAdminSteps

TypeIInv == RowsAreSingle /\ TokensAreNamed /\ RestTypes

\* A family has one token that is still good at most, and none once a used one was presented.
OneIsLive == \A x, y \in tokens : x.family = y.family /\ x.live /\ y.live => x = y
ReusedAreDead == \A x \in tokens : x.family \in reused => ~x.live

\* On SQLite a row that a refresh has read stays as it is until the refresh has written, but
\* for its age: no other write gets between them.
ReadsAreExclusive ==
  /\ \A t, u \in Tabs : request[t].stage = "read" /\ request[u].stage = "read" => t = u
  /\ \A t \in Tabs : request[t].stage = "read" =>
       \A x \in request[t].found :
         \E y \in tokens : y.id = x.id /\ y.family = x.family /\ y.live = x.live

AccIInv == TypeIInv /\ OneIsLive /\ ReusedAreDead /\ ReadsAreExclusive

LEMMA TypeIInvImplies == ASSUME TypeIInv PROVE AccountsTypeOK
BY AccountsAssumption DEF TypeIInv, RowsAreSingle, TokensAreNamed, RestTypes, AccountsTypeOK, Requests, Stages

LEMMA AccIInvImplies == ASSUME AccIInv PROVE AccountsInv
<1>. USE DEF AccIInv
<1>1. ASSUME NEW f \in 1..MaxTokens PROVE Cardinality(Live(f)) <= 1
  <2>1. CASE Live(f) = {}
    BY <2>1, FS_EmptySet
  <2>2. CASE \E x \in Live(f) : TRUE
    <3>1. PICK x \in Live(f) : TRUE
      BY <2>2
    <3>2. Live(f) = {x}
      BY <3>1 DEF Live, OneIsLive
    <3>. QED  BY <3>2, FS_Singleton
  <2>. QED  BY <2>1, <2>2
<1>2. ReusedFamiliesAreDead
  BY DEF ReusedFamiliesAreDead, ReusedAreDead, Live
<1>. QED  BY <1>1, <1>2, TypeIInvImplies DEF AccountsInv, OneLiveToken

LEMMA AccInitially == AccountsInit => AccIInv
<1>. SUFFICES ASSUME AccountsInit PROVE AccIInv
  OBVIOUS
<1>. USE AccountsAssumption
<1>1. RowsAreSingle
  <2>. DEFINE local == [role |-> "admin", status |-> "active", password |-> FALSE]
  <2>1. local \in Account
    BY DEF Account
  <2>2. account = [a \in Addresses |-> IF a = LocalUser /\ ~authOn THEN {local} ELSE {}]
    BY DEF AccountsInit
  <2>. HIDE DEF local
  <2>. QED  BY <2>1, <2>2 DEF RowsAreSingle
<1>2. TokensAreNamed
  BY DEF AccountsInit, TokensAreNamed
<1>3. NoRequest \in Requests /\ NoRequest.stage = "idle" /\ NoRequest.found = {}
  BY DEF NoRequest, Requests, Stages
<1>4. RestTypes /\ ReadsAreExclusive
  BY <1>3 DEF AccountsInit, RestTypes, ReadsAreExclusive
<1>. QED  BY <1>1, <1>2, <1>4 DEF AccountsInit, AccIInv, TypeIInv, OneIsLive, ReusedAreDead

-----------------------------------------------------------------------------
(* Tokens that are revoked, and tokens that are issued *)

\* Revoking some of the rows: each keeps its number, owner, family and age.
RevokedOf(gone) == {IF y \in gone THEN Revoked(y) ELSE y : y \in tokens}

LEMMA RevokedRow ==
  ASSUME NEW x \in Token
  PROVE  /\ Revoked(x) \in Token /\ ~Revoked(x).live
         /\ Revoked(x).id = x.id /\ Revoked(x).owner = x.owner
         /\ Revoked(x).family = x.family /\ Revoked(x).fresh = x.fresh
BY DEF Revoked, Token

LEMMA RevokingKeepsRows ==
  ASSUME TokensAreNamed, NEW gone
  PROVE  /\ RevokedOf(gone) \subseteq Token
         /\ \A z \in RevokedOf(gone) : \E y \in tokens :
              /\ z.id = y.id /\ z.owner = y.owner /\ z.family = y.family
              /\ z.live => z = y /\ y \notin gone
         /\ \A y \in tokens : \E z \in RevokedOf(gone) :
              z.id = y.id /\ z.family = y.family /\ (y \in gone => ~z.live) /\ (y \notin gone => z = y)
         /\ \A x, y \in RevokedOf(gone) : x.id = y.id => x = y
<1>1. \A x \in tokens : /\ Revoked(x) \in Token /\ ~Revoked(x).live
                        /\ Revoked(x).id = x.id /\ Revoked(x).owner = x.owner
                        /\ Revoked(x).family = x.family
  BY RevokedRow DEF TokensAreNamed
<1>2. \A z \in RevokedOf(gone) : \E y \in tokens : z = IF y \in gone THEN Revoked(y) ELSE y
  BY DEF RevokedOf
<1>3. \A y \in tokens : (IF y \in gone THEN Revoked(y) ELSE y) \in RevokedOf(gone)
  BY DEF RevokedOf
<1>4. RevokedOf(gone) \subseteq Token
  BY <1>1, <1>2 DEF TokensAreNamed
<1>5. \A z \in RevokedOf(gone) : \E y \in tokens :
        /\ z.id = y.id /\ z.owner = y.owner /\ z.family = y.family
        /\ z.live => z = y /\ y \notin gone
  BY <1>1, <1>2
<1>6. \A y \in tokens : \E z \in RevokedOf(gone) :
        z.id = y.id /\ z.family = y.family /\ (y \in gone => ~z.live) /\ (y \notin gone => z = y)
  BY <1>1, <1>3
<1>7. \A x, y \in RevokedOf(gone) : x.id = y.id => x = y
  BY <1>1, <1>2 DEF TokensAreNamed
<1>. QED  BY <1>4, <1>5, <1>6, <1>7

\* A new row with the next number, in a family that is given.
LEMMA IssuingKeepsRows ==
  ASSUME TypeIInv, minted < MaxTokens, NEW x \in Token, x.id = minted + 1,
         x.family <= minted + 1, account'[x.owner] # {},
         NEW rest, rest \subseteq Token,
         \A y, z \in rest : y.id = z.id => y = z,
         \A z \in rest : z.id <= minted /\ z.family <= minted /\ account'[z.owner] # {},
         tokens' = rest \cup {x}, minted' = minted + 1, UNCHANGED reused
  PROVE  TokensAreNamed'
<1>1. minted \in Nat /\ minted' \in 0..MaxTokens
  BY AccountsAssumption DEF TypeIInv, TokensAreNamed
<1>2. \A y \in rest : y.id # x.id
  BY <1>1 DEF Token
<1>3. \A y \in tokens' : y.id <= minted' /\ y.family <= minted' /\ account'[y.owner] # {}
  BY <1>1 DEF Token
<1>4. \A y, z \in tokens' : y.id = z.id => y = z
  BY <1>2
<1>5. reused' \subseteq 1..minted'
  BY <1>1 DEF TypeIInv, TokensAreNamed
<1>. QED  BY <1>1, <1>3, <1>4, <1>5 DEF TokensAreNamed

-----------------------------------------------------------------------------
(* The shape of rows and requests, on both databases *)

\* A request's next state, of the right shape.
LEMMA RequestBecomes ==
  ASSUME TypeIInv, NEW t \in Tabs, NEW new \in Requests, request' = [request EXCEPT ![t] = new],
         \A x \in new.found : x.family <= minted',
         minted' \in Nat, minted' >= minted
  PROVE  /\ request' \in [Tabs -> Requests]
         /\ \A u \in Tabs : \A x \in request'[u].found : x.family <= minted'
         /\ request'[t] = new /\ \A u \in Tabs : u # t => request'[u] = request[u]
<1>1. /\ request' \in [Tabs -> Requests] /\ request'[t] = new
      /\ \A u \in Tabs : u # t => request'[u] = request[u]
  BY DEF TypeIInv, RestTypes
<1>2. minted \in Nat
  BY AccountsAssumption DEF TypeIInv, TokensAreNamed
<1>3. \A u \in Tabs : \A x \in request[u].found : x.family \in Nat
  BY AccountsAssumption DEF TypeIInv, RestTypes, Requests, Token
<1>4. \A u \in Tabs : \A x \in request'[u].found : x.family <= minted'
  BY <1>1, <1>2, <1>3 DEF TypeIInv, RestTypes
<1>. QED  BY <1>1, <1>4

\* Issuing a session for an account that has a row.
LEMMA IssuesSessionTyped ==
  ASSUME TypeIInv, NEW a \in Addresses, NEW role \in {"admin", "user"}, IssuesSession(a, role),
         RowsAreSingle', account'[a] # {}, \A b \in Addresses : account[b] # {} => account'[b] # {},
         UNCHANGED <<authOn, request, reused, steps>>
  PROVE  TypeIInv'
<1>. USE AccountsAssumption
<1>. DEFINE x == [id |-> minted', owner |-> a, family |-> minted', live |-> TRUE, fresh |-> TRUE]
<1>1. minted \in Nat /\ minted < MaxTokens /\ minted' = minted + 1
  BY DEF IssuesSession, TypeIInv, TokensAreNamed
<1>2. x \in Token /\ x.id = minted + 1 /\ x.family <= minted + 1 /\ x.owner = a
  BY <1>1 DEF Token
<1>3. tokens' = tokens \cup {x}
  BY DEF IssuesSession
<1>4. \A z \in tokens : z.id <= minted /\ z.family <= minted /\ account'[z.owner] # {}
  BY DEF TypeIInv, TokensAreNamed, Token
<1>5. tokens \subseteq Token /\ \A y, z \in tokens : y.id = z.id => y = z
  BY DEF TypeIInv, TokensAreNamed
<1>. HIDE DEF x
<1>6. TokensAreNamed'
  BY <1>1, <1>2, <1>3, <1>4, <1>5, IssuingKeepsRows
<1>7. \A t \in Tabs : \A y \in request[t].found : y.family <= minted'
  BY <1>1 DEF TypeIInv, RestTypes, Requests, Token
<1>8. RestTypes'
  BY <1>1, <1>7 DEF IssuesSession, TypeIInv, RestTypes, TokensAreNamed
<1>. QED  BY <1>6, <1>8 DEF TypeIInv

\* Rows revoked, by whoever it is.
LEMMA RevokingTyped ==
  ASSUME TypeIInv, NEW gone, tokens' = RevokedOf(gone), UNCHANGED <<account, minted>>,
         reused' \subseteq 1..minted
  PROVE  RowsAreSingle' /\ TokensAreNamed'
<1>1. RowsAreSingle'
  BY DEF TypeIInv, RowsAreSingle
<1>2. /\ tokens' \subseteq Token /\ \A x, y \in tokens' : x.id = y.id => x = y
      /\ \A z \in tokens' : \E y \in tokens :
           z.id = y.id /\ z.owner = y.owner /\ z.family = y.family
  BY RevokingKeepsRows DEF TypeIInv
<1>3. \A z \in tokens' : z.id <= minted /\ z.family <= minted /\ account[z.owner] # {}
  BY <1>2 DEF TypeIInv, TokensAreNamed
<1>. QED  BY <1>1, <1>2, <1>3 DEF TypeIInv, TokensAreNamed

LEMMA RestartTyped ==
  ASSUME TypeIInv, NEW on \in BOOLEAN, NEW configured, StartsAgain(on, configured)
  PROVE  TypeIInv'
<1>. USE AccountsAssumption
<1>. DEFINE local == [role |-> "admin", status |-> "active", password |-> FALSE]
            named == [role |-> "admin", status |-> "active", password |-> TRUE]
<1>1. local \in Account /\ named \in Account
  BY DEF Account
<1>2. account' = IF ~on
        THEN [account EXCEPT ![LocalUser] = IF account[LocalUser] = {} THEN {local} ELSE account[LocalUser]]
        ELSE [a \in Addresses |->
               IF (\A b \in Addresses : account[b] = {}) /\ a \in configured
               THEN {named} ELSE account[a]]
  BY DEF StartsAgain, Bootstrapped, TypeIInv, RowsAreSingle, Addresses
<1>. HIDE DEF local, named
<1>3. RowsAreSingle'
  BY <1>1, <1>2 DEF TypeIInv, RowsAreSingle
<1>4. \A a \in Addresses : account[a] # {} => account'[a] # {}
  BY <1>2 DEF TypeIInv, RowsAreSingle
<1>5. TokensAreNamed'
  BY <1>4 DEF StartsAgain, TypeIInv, TokensAreNamed, Token
<1>6. NoRequest \in Requests /\ NoRequest.found = {}
  BY DEF NoRequest, Requests, Stages
<1>7. RestTypes'
  BY <1>6 DEF StartsAgain, TypeIInv, RestTypes
<1>. QED  BY <1>3, <1>5, <1>7 DEF TypeIInv

LEMMA SigningTyped ==
  ASSUME TypeIInv, NEW a \in People, Registers(a) \/ SignsIn(a)
  PROVE  TypeIInv'
<1>0. a \in Addresses
  BY DEF Addresses
<1>1. CASE Registers(a)
  <2>. DEFINE role == IF \A b \in Addresses : account[b] = {} THEN "admin" ELSE "user"
              r == [role |-> role, status |-> "active", password |-> TRUE]
  <2>1. account' = [account EXCEPT ![a] = {r}] /\ IssuesSession(a, role)
        /\ UNCHANGED <<authOn, request, reused, steps>>
    BY <1>1 DEF Registers
  <2>2. role \in {"admin", "user"}
    OBVIOUS
  <2>. HIDE DEF role
  <2>3. r \in Account
    BY <2>2 DEF Account
  <2>. HIDE DEF r
  <2>4. RowsAreSingle' /\ account'[a] # {}
        /\ \A b \in Addresses : account[b] # {} => account'[b] # {}
    BY <1>0, <2>1, <2>3 DEF TypeIInv, RowsAreSingle
  <2>. QED  BY <1>0, <2>1, <2>2, <2>4, IssuesSessionTyped
<1>2. CASE SignsIn(a)
  <2>1. PICK r \in account[a] : IssuesSession(a, r.role)
    BY <1>2 DEF SignsIn
  <2>2. r.role \in {"admin", "user"} /\ RowsAreSingle'
    BY <1>0, <1>2 DEF SignsIn, TypeIInv, RowsAreSingle, Account
  <2>3. UNCHANGED <<account, authOn, request, reused, steps>>
    BY <1>2 DEF SignsIn
  <2>. QED  BY <1>0, <2>1, <2>2, <2>3, IssuesSessionTyped
<1>. QED  BY <1>1, <1>2

\* Signing out revokes the rows that have the cookie's number.
LEMMA SignOutRevokes ==
  ASSUME SignsOut PROVE tokens' = RevokedOf({x \in tokens : x.id = cookie})
BY DEF SignsOut, RevokedOf

LEMMA SignOutTyped == ASSUME TypeIInv, SignsOut PROVE TypeIInv'
<1>1. RowsAreSingle' /\ TokensAreNamed'
  BY SignOutRevokes, RevokingTyped DEF SignsOut, TypeIInv, TokensAreNamed
<1>2. RestTypes'
  BY AccountsAssumption DEF SignsOut, TypeIInv, RestTypes
<1>. QED  BY <1>1, <1>2 DEF TypeIInv

\* What of a refresh's request stays as it is read, and what a reply makes of it.
LEMMA RequestFields ==
  ASSUME TypeIInv, NEW t \in Tabs
  PROVE  /\ request[t] \in Requests /\ request[t].found \subseteq Token
         /\ request[t].token \in 0..MaxTokens /\ request[t].new \in 0..MaxTokens
         /\ \A x \in request[t].found : x.family <= minted
BY DEF TypeIInv, RestTypes, Requests

LEMMA RequestIsSent ==
  ASSUME NEW q \in Requests, NEW n \in 0..MaxTokens
  PROVE  LET sent == [q EXCEPT !.stage = "sent", !.token = n]
         IN sent \in Requests /\ sent.found = q.found /\ sent.stage = "sent"
BY DEF Requests, Stages

LEMMA RequestIsRead ==
  ASSUME NEW q \in Requests, NEW f \in SUBSET Token
  PROVE  LET read == [q EXCEPT !.stage = "read", !.found = f]
         IN read \in Requests /\ read.found = f /\ read.stage = "read"
BY DEF Requests, Stages

LEMMA RequestIsAnswered ==
  ASSUME NEW q \in Requests, NEW n \in 0..MaxTokens
  PROVE  LET replied == [q EXCEPT !.stage = "replied", !.found = {}, !.new = n]
         IN replied \in Requests /\ replied.found = {} /\ replied.stage = "replied"
BY DEF Requests, Stages

LEMMA ReplyTyped ==
  ASSUME TypeIInv, NEW t \in Tabs, NEW new \in 0..MaxTokens, Replies(t, new),
         minted' \in Nat, minted' >= minted
  PROVE  /\ request' \in [Tabs -> Requests]
         /\ \A u \in Tabs : \A x \in request'[u].found : x.family <= minted'
         /\ request'[t].stage = "replied" /\ \A u \in Tabs : u # t => request'[u] = request[u]
<1>. DEFINE made == [request[t] EXCEPT !.stage = "replied", !.found = {}, !.new = new]
<1>1. request[t] \in Requests
  BY RequestFields
<1>2. made \in Requests /\ made.found = {} /\ made.stage = "replied"
  BY <1>1, RequestIsAnswered
<1>3. request' = [request EXCEPT ![t] = made]
  BY DEF Replies, TypeIInv, RestTypes
<1>. HIDE DEF made
<1>. QED  BY <1>2, <1>3, RequestBecomes

LEMMA RefreshSentTyped == ASSUME TypeIInv, NEW t \in Tabs, RefreshSent(t) PROVE TypeIInv'
<1>. DEFINE made == [request[t] EXCEPT !.stage = "sent", !.token = cookie]
<1>1. request[t] \in Requests /\ cookie \in 0..MaxTokens
  BY RequestFields DEF TypeIInv, RestTypes
<1>2. made \in Requests /\ \A x \in made.found : x.family <= minted
  BY <1>1, RequestFields, RequestIsSent
<1>3. request' = [request EXCEPT ![t] = made] /\ minted' = minted /\ minted \in Nat
      /\ minted' >= minted
  BY AccountsAssumption DEF RefreshSent, TypeIInv, RestTypes, TokensAreNamed
<1>. HIDE DEF made
<1>4. /\ request' \in [Tabs -> Requests]
      /\ \A u \in Tabs : \A x \in request'[u].found : x.family <= minted'
  BY <1>2, <1>3, RequestBecomes
<1>. QED  BY <1>4 DEF RefreshSent, TypeIInv, RowsAreSingle, TokensAreNamed, RestTypes

LEMMA RefreshReadsMakes ==
  ASSUME TypeIInv, NEW t \in Tabs, RefreshReads(t)
  PROVE  /\ request' \in [Tabs -> Requests]
         /\ \A u \in Tabs : \A x \in request'[u].found : x.family <= minted'
         /\ request'[t].found = {x \in tokens : x.id = request[t].token}
         /\ request'[t].stage = "read" /\ \A u \in Tabs : u # t => request'[u] = request[u]
<1>. DEFINE found == {x \in tokens : x.id = request[t].token}
            made == [request[t] EXCEPT !.stage = "read", !.found = found]
<1>1. request[t] \in Requests
  BY RequestFields
<1>2. found \subseteq Token /\ \A x \in found : x.family <= minted
  BY DEF TypeIInv, TokensAreNamed
<1>3. request' = [request EXCEPT ![t] = made] /\ minted' = minted /\ minted \in Nat
  BY AccountsAssumption DEF RefreshReads, TypeIInv, RestTypes, TokensAreNamed
<1>. HIDE DEF found
<1>4. made \in Requests /\ made.found = found /\ made.stage = "read"
  BY <1>1, <1>2, RequestIsRead
<1>. HIDE DEF made
<1>5. minted' >= minted /\ \A x \in made.found : x.family <= minted'
  BY <1>2, <1>3, <1>4
<1>6. /\ request' \in [Tabs -> Requests]
      /\ \A u \in Tabs : \A x \in request'[u].found : x.family <= minted'
      /\ request'[t] = made /\ \A u \in Tabs : u # t => request'[u] = request[u]
  BY <1>3, <1>4, <1>5, RequestBecomes
<1>. QED  BY <1>4, <1>6 DEF found

LEMMA RefreshReadsTyped == ASSUME TypeIInv, NEW t \in Tabs, RefreshReads(t) PROVE TypeIInv'
BY RefreshReadsMakes DEF RefreshReads, TypeIInv, RowsAreSingle, TokensAreNamed, RestTypes

LEMMA RefreshIsRefusedTyped ==
  ASSUME TypeIInv, NEW t \in Tabs, RefreshIsRefused(t) PROVE TypeIInv'
<1>1. minted \in Nat /\ 0 \in 0..MaxTokens
  BY AccountsAssumption DEF TypeIInv, TokensAreNamed
<1>2. /\ request' \in [Tabs -> Requests]
      /\ \A u \in Tabs : \A x \in request'[u].found : x.family <= minted'
  BY <1>1, ReplyTyped DEF RefreshIsRefused
<1>. QED  BY <1>2 DEF RefreshIsRefused, TypeIInv, RowsAreSingle, TokensAreNamed, RestTypes

\* A reuse revokes a family, which had begun.
LEMMA ReuseRevokes ==
  ASSUME TypeIInv, NEW t \in Tabs, RefreshIsReuse(t)
  PROVE  \E f \in 1..minted :
           tokens' = RevokedOf({y \in tokens : y.family = f}) /\ reused' = reused \cup {f}
<1>1. PICK x \in request[t].found :
        /\ tokens' = {IF y.family = x.family THEN Revoked(y) ELSE y : y \in tokens}
        /\ reused' = reused \cup {x.family}
  BY DEF RefreshIsReuse
<1>2. x.family \in 1..minted
  <2>1. x \in Token /\ x.family <= minted
    BY RequestFields
  <2>2. minted \in Nat
    BY AccountsAssumption DEF TypeIInv, TokensAreNamed
  <2>. QED  BY <2>1, <2>2 DEF Token
<1>3. tokens' = RevokedOf({y \in tokens : y.family = x.family})
  BY <1>1 DEF RevokedOf
<1>. QED  BY <1>1, <1>2, <1>3

LEMMA RefreshIsReuseTyped ==
  ASSUME TypeIInv, NEW t \in Tabs, RefreshIsReuse(t) PROVE TypeIInv'
<1>1. minted \in Nat /\ 0 \in 0..MaxTokens
  BY AccountsAssumption DEF TypeIInv, TokensAreNamed
<1>2. /\ request' \in [Tabs -> Requests]
      /\ \A u \in Tabs : \A x \in request'[u].found : x.family <= minted'
  BY <1>1, ReplyTyped DEF RefreshIsReuse
<1>3. PICK f \in 1..minted :
        tokens' = RevokedOf({y \in tokens : y.family = f}) /\ reused' = reused \cup {f}
  BY ReuseRevokes
<1>4. RowsAreSingle' /\ TokensAreNamed'
  BY <1>3, RevokingTyped DEF RefreshIsReuse, TypeIInv, TokensAreNamed
<1>. QED  BY <1>2, <1>4 DEF RefreshIsReuse, TypeIInv, RestTypes

\* A rotation revokes the rows with the number that was read and issues one in their family.
LEMMA RotationMakes ==
  ASSUME TypeIInv, NEW t \in Tabs, RefreshRotates(t)
  PROVE  \E x \in request[t].found : \E r \in account[x.owner] :
           /\ x.live /\ \E y \in tokens : y.id = x.id
           /\ tokens' = RevokedOf({y \in tokens : y.id = x.id}) \cup {[x EXCEPT !.id = minted + 1]}
           /\ claims' = IF r.status = "active" THEN claims \cup {<<x.owner, r.role>>} ELSE claims
           /\ Replies(t, IF r.status = "active" THEN minted + 1 ELSE 0)
<1>1. \A i : {IF y.id = i THEN Revoked(y) ELSE y : y \in tokens} = RevokedOf({y \in tokens : y.id = i})
  BY DEF RevokedOf
<1>. QED  BY <1>1 DEF RefreshRotates

LEMMA RefreshRotatesTyped ==
  ASSUME TypeIInv, NEW t \in Tabs, RefreshRotates(t) PROVE TypeIInv'
<1>. USE AccountsAssumption
<1>0. PICK x \in request[t].found : \E r \in account[x.owner] :
           /\ x.live /\ \E y \in tokens : y.id = x.id
           /\ tokens' = RevokedOf({y \in tokens : y.id = x.id}) \cup {[x EXCEPT !.id = minted + 1]}
           /\ claims' = IF r.status = "active" THEN claims \cup {<<x.owner, r.role>>} ELSE claims
           /\ Replies(t, IF r.status = "active" THEN minted + 1 ELSE 0)
  BY RotationMakes
<1>1. PICK r \in account[x.owner] :
           /\ x.live /\ \E y \in tokens : y.id = x.id
           /\ tokens' = RevokedOf({y \in tokens : y.id = x.id}) \cup {[x EXCEPT !.id = minted + 1]}
           /\ claims' = IF r.status = "active" THEN claims \cup {<<x.owner, r.role>>} ELSE claims
           /\ Replies(t, IF r.status = "active" THEN minted + 1 ELSE 0)
  BY <1>0
<1>2. /\ minted \in Nat /\ minted < MaxTokens /\ minted' = minted + 1
      /\ UNCHANGED <<authOn, account, cookie, reused, steps>>
  BY DEF RefreshRotates, TypeIInv, TokensAreNamed
<1>3. x \in Token /\ x.family <= minted /\ x.owner \in Addresses
  BY RequestFields DEF Token
<1>. DEFINE new == [x EXCEPT !.id = minted + 1]
            rest == RevokedOf({y \in tokens : y.id = x.id})
<1>4. /\ new \in Token /\ new.id = minted + 1 /\ new.family = x.family /\ new.owner = x.owner
      /\ new.live = x.live
  BY <1>2, <1>3 DEF Token
<1>5. account'[new.owner] # {}
  BY <1>2, <1>3, <1>4
<1>6. /\ rest \subseteq Token /\ \A y, z \in rest : y.id = z.id => y = z
      /\ \A z \in rest : \E y \in tokens : z.id = y.id /\ z.owner = y.owner /\ z.family = y.family
  <2>. DEFINE gone == {y \in tokens : y.id = x.id}
  <2>. HIDE DEF gone
  <2>1. rest = RevokedOf(gone)
    BY DEF gone
  <2>. HIDE DEF rest
  <2>. QED  BY <2>1, RevokingKeepsRows DEF TypeIInv
<1>7. \A z \in rest : z.id <= minted /\ z.family <= minted /\ account'[z.owner] # {}
  BY <1>2, <1>6 DEF TypeIInv, TokensAreNamed
<1>8. tokens' = rest \cup {new}
  BY <1>1
<1>9. TokensAreNamed'
  <2>1. new.family <= minted + 1
    BY <1>2, <1>3, <1>4 DEF Token
  <2>. HIDE DEF new, rest
  <2>. QED  BY <1>2, <1>4, <1>5, <1>6, <1>7, <1>8, <2>1, IssuingKeepsRows
<1>10. /\ request' \in [Tabs -> Requests]
       /\ \A u \in Tabs : \A y \in request'[u].found : y.family <= minted'
  <2>1. (IF r.status = "active" THEN minted + 1 ELSE 0) \in 0..MaxTokens
    BY <1>2
  <2>. QED  BY <1>1, <1>2, <2>1, ReplyTyped
<1>11. claims' \subseteq Addresses \X {"admin", "user"}
  <2>1. r.role \in {"admin", "user"}
    BY <1>3 DEF TypeIInv, RowsAreSingle, Account
  <2>. QED  BY <1>1, <1>3, <2>1 DEF TypeIInv, RestTypes
<1>. QED  BY <1>2, <1>9, <1>10, <1>11 DEF TypeIInv, RowsAreSingle, RestTypes

LEMMA ReplyEndsTyped ==
  ASSUME TypeIInv, NEW t \in Tabs, ReplyArrives(t) \/ ReplyIsLost(t) PROVE TypeIInv'
<1>1. NoRequest \in Requests /\ NoRequest.found = {}
  BY AccountsAssumption DEF NoRequest, Requests, Stages
<1>2. request' = [request EXCEPT ![t] = NoRequest] /\ minted' \in Nat /\ minted' >= minted
  BY AccountsAssumption DEF ReplyArrives, ReplyIsLost, TypeIInv, TokensAreNamed
<1>3. /\ request' \in [Tabs -> Requests]
      /\ \A u \in Tabs : \A y \in request'[u].found : y.family <= minted'
  BY <1>1, <1>2, RequestBecomes
<1>4. cookie' \in 0..MaxTokens
  BY RequestFields DEF ReplyArrives, ReplyIsLost, TypeIInv, RestTypes
<1>. QED  BY <1>3, <1>4 DEF ReplyArrives, ReplyIsLost, TypeIInv, RowsAreSingle, TokensAreNamed,
                            RestTypes

\* An expired row is the row it was but for its age.
LEMMA ExpiryMakes ==
  ASSUME TypeIInv, TokenExpires
  PROVE  /\ tokens' \subseteq Token /\ \A x, y \in tokens' : x.id = y.id => x = y
         /\ \A z \in tokens' : \E y \in tokens :
              z.id = y.id /\ z.owner = y.owner /\ z.family = y.family /\ z.live = y.live
         /\ \A y \in tokens : \E z \in tokens' :
              z.id = y.id /\ z.family = y.family /\ z.live = y.live
<1>1. PICK x \in tokens : tokens' = (tokens \ {x}) \cup {[x EXCEPT !.fresh = FALSE]}
  BY DEF TokenExpires
<1>. DEFINE new == [x EXCEPT !.fresh = FALSE]
<1>2. x \in Token
  BY DEF TypeIInv, TokensAreNamed
<1>3. /\ new \in Token /\ new.id = x.id /\ new.owner = x.owner /\ new.family = x.family
      /\ new.live = x.live
  BY <1>2 DEF Token
<1>4. tokens' = (tokens \ {x}) \cup {new}
  BY <1>1
<1>. HIDE DEF new
<1>. QED  BY <1>3, <1>4 DEF TypeIInv, TokensAreNamed

LEMMA TimeTyped == ASSUME TypeIInv, TokenExpires \/ ClaimExpires PROVE TypeIInv'
<1>1. CASE TokenExpires
  <2>1. /\ tokens' \subseteq Token /\ \A x, y \in tokens' : x.id = y.id => x = y
        /\ \A z \in tokens' : \E y \in tokens :
             z.id = y.id /\ z.owner = y.owner /\ z.family = y.family
    BY <1>1, ExpiryMakes
  <2>2. UNCHANGED <<authOn, account, minted, claims, cookie, request, reused, steps>>
    BY <1>1 DEF TokenExpires
  <2>3. TokensAreNamed'
    BY <2>1, <2>2 DEF TypeIInv, TokensAreNamed
  <2>. QED  BY <2>2, <2>3 DEF TypeIInv, RowsAreSingle, RestTypes
<1>2. CASE ClaimExpires
  BY <1>2 DEF ClaimExpires, TypeIInv, RowsAreSingle, TokensAreNamed, RestTypes
<1>. QED  BY <1>1, <1>2

\* The console changes rows of accounts, and deletes tokens with their owner.
LEMMA AdminTyped ==
  ASSUME TypeIInv, NEW by \in Addresses, NEW a \in Addresses,
         Administers(by),
         \/ \E r \in Account : account' = [account EXCEPT ![a] = {r}] /\ UNCHANGED tokens
         \/ account' = [account EXCEPT ![a] = {}] /\ tokens' = {x \in tokens : x.owner # a}
  PROVE  TypeIInv'
<1>1. UNCHANGED <<authOn, minted, claims, cookie, request, reused>> /\ steps' \in 0..MaxAdminSteps
  BY AccountsAssumption DEF Administers, TypeIInv, RestTypes
<1>2. RestTypes'
  BY <1>1 DEF TypeIInv, RestTypes
<1>3. RowsAreSingle'
  BY DEF TypeIInv, RowsAreSingle
<1>4. TokensAreNamed'
  <2>1. tokens' \subseteq tokens
    OBVIOUS
  <2>2. \A x \in tokens' : x.owner \in Addresses /\ account'[x.owner] # {}
    BY DEF TypeIInv, RowsAreSingle, TokensAreNamed, Token
  <2>. QED  BY <1>1, <2>1, <2>2 DEF TypeIInv, TokensAreNamed
<1>. QED  BY <1>2, <1>3, <1>4 DEF TypeIInv

LEMMA AdminStepsMake ==
  ASSUME TypeIInv, AdminSteps
  PROVE  \E by \in Addresses, a \in Addresses :
           /\ Administers(by)
           /\ \/ \E r \in Account : account' = [account EXCEPT ![a] = {r}] /\ UNCHANGED tokens
              \/ account' = [account EXCEPT ![a] = {}] /\ tokens' = {x \in tokens : x.owner # a}
<1>1. PICK by \in Addresses, a \in Addresses :
        \/ \E role \in {"admin", "user"} : CreatesUser(by, a, role) \/ SetsRole(by, a, role)
        \/ \E status \in {"active", "disabled"} : SetsStatus(by, a, status)
        \/ DeletesUser(by, a)
  BY DEF AdminSteps
<1>2. ASSUME NEW role \in {"admin", "user"}, CreatesUser(by, a, role)
      PROVE  Administers(by) /\ \E r \in Account : account' = [account EXCEPT ![a] = {r}] /\ UNCHANGED tokens
  <2>1. [role |-> role, status |-> "active", password |-> TRUE] \in Account
    BY DEF Account
  <2>. QED  BY <1>2, <2>1 DEF CreatesUser
<1>3. ASSUME NEW role \in {"admin", "user"}, SetsRole(by, a, role)
      PROVE  Administers(by) /\ \E r \in Account : account' = [account EXCEPT ![a] = {r}] /\ UNCHANGED tokens
  <2>1. PICK r \in Account : account[a] = {r}
    BY <1>3 DEF SetsRole, TypeIInv, RowsAreSingle
  <2>2. [r EXCEPT !.role = role] \in Account
    BY DEF Account
  <2>3. account' = [account EXCEPT ![a] = {[q EXCEPT !.role = role] : q \in account[a]}]
    BY <1>3 DEF SetsRole, TypeIInv, RowsAreSingle
  <2>4. {[q EXCEPT !.role = role] : q \in account[a]} = {[r EXCEPT !.role = role]}
    BY <2>1
  <2>. QED  BY <1>3, <2>2, <2>3, <2>4 DEF SetsRole
<1>4. ASSUME NEW status \in {"active", "disabled"}, SetsStatus(by, a, status)
      PROVE  Administers(by) /\ \E r \in Account : account' = [account EXCEPT ![a] = {r}] /\ UNCHANGED tokens
  <2>1. PICK r \in Account : account[a] = {r}
    BY <1>4 DEF SetsStatus, TypeIInv, RowsAreSingle
  <2>2. [r EXCEPT !.status = status] \in Account
    BY DEF Account
  <2>3. account' = [account EXCEPT ![a] = {[q EXCEPT !.status = status] : q \in account[a]}]
    BY <1>4 DEF SetsStatus, TypeIInv, RowsAreSingle
  <2>4. {[q EXCEPT !.status = status] : q \in account[a]} = {[r EXCEPT !.status = status]}
    BY <2>1
  <2>. QED  BY <1>4, <2>2, <2>3, <2>4 DEF SetsStatus
<1>. QED  BY <1>1, <1>2, <1>3, <1>4 DEF DeletesUser

LEMMA TypesInductive == ASSUME TypeIInv, [AccountsNext]_accountVars PROVE TypeIInv'
<1>1. ASSUME UNCHANGED accountVars PROVE TypeIInv'
  BY <1>1 DEF accountVars, TypeIInv, RowsAreSingle, TokensAreNamed, RestTypes
<1>2. ASSUME AdminSteps PROVE TypeIInv'
  BY <1>2, AdminStepsMake, AdminTyped
<1>3. ASSUME NEW t \in Tabs, RefreshSteps(t) PROVE TypeIInv'
  BY <1>3, RefreshSentTyped, RefreshReadsTyped, RefreshIsRefusedTyped, RefreshIsReuseTyped,
     RefreshRotatesTyped, ReplyEndsTyped DEF RefreshSteps
<1>. QED  BY <1>1, <1>2, <1>3, RestartTyped, SigningTyped, SignOutTyped, TimeTyped DEF AccountsNext

\* On either database, whatever is refreshed, lost, rotated, administered and restarted: a
\* token's number names one row, whose owner has an account (db/models.py RefreshToken).
THEOREM AccountsAreTyped == AccountsSpec => []AccountsTypeOK
<1>1. AccountsInit => TypeIInv
  BY AccInitially DEF AccIInv
<1>2. AccountsSpec => []TypeIInv
  BY <1>1, TypesInductive, PTL DEF AccountsSpec
<1>. QED  BY <1>2, TypeIInvImplies, PTL

-----------------------------------------------------------------------------
(* Sessions, where writes exclude each other *)

SessionIInv == OneIsLive /\ ReusedAreDead /\ ReadsAreExclusive

\* Fewer rows, or the same but for good ones revoked and aged, keep a family's promises.
LEMMA FewerLive ==
  ASSUME OneIsLive, ReusedAreDead,
         \A x, y \in tokens' : x.id = y.id => x = y,
         \A z \in tokens' : z.live =>
           \E y \in tokens : y.live /\ z.id = y.id /\ z.family = y.family,
         \A z \in tokens' : z.live => z.family \notin reused' \/ z.family \in reused
  PROVE  OneIsLive' /\ ReusedAreDead'
<1>1. ReusedAreDead'
  BY DEF ReusedAreDead
<1>2. ASSUME NEW x \in tokens', NEW y \in tokens', x.family = y.family, x.live, y.live
      PROVE  x = y
  <2>1. PICK v \in tokens : v.live /\ x.id = v.id /\ x.family = v.family
    BY <1>2
  <2>2. PICK w \in tokens : w.live /\ y.id = w.id /\ y.family = w.family
    BY <1>2
  <2>3. v = w
    BY <1>2, <2>1, <2>2 DEF OneIsLive
  <2>. QED  BY <2>1, <2>2, <2>3
<1>. QED  BY <1>1, <1>2 DEF OneIsLive

\* Whoever may write on SQLite finds no refresh between its read and its write.
LEMMA NoReadInBetween ==
  ASSUME Serialised, MayWrite, request' = request PROVE ReadsAreExclusive'
BY DEF MayWrite, ReadsAreExclusive

\* A tab that answers is no longer reading; the others read what they read.
LEMMA AnswersEndReads ==
  ASSUME ReadsAreExclusive, NEW t \in Tabs, request[t].stage = "read",
         request'[t].stage # "read", \A u \in Tabs : u # t => request'[u] = request[u]
  PROVE  ReadsAreExclusive'
<1>1. \A u \in Tabs : request'[u].stage # "read"
  BY DEF ReadsAreExclusive
<1>. QED  BY <1>1 DEF ReadsAreExclusive

\* A request that is not in a read changes, and the rows do not.
LEMMA OthersRead ==
  ASSUME TypeIInv, ReadsAreExclusive, NEW t \in Tabs, NEW q, request' = [request EXCEPT ![t] = q],
         q.stage # "read", UNCHANGED tokens
  PROVE  ReadsAreExclusive'
<1>1. \A u \in Tabs : request'[u].stage = "read" => request'[u] = request[u]
  BY DEF TypeIInv, RestTypes
<1>. QED  BY <1>1 DEF ReadsAreExclusive

LEMMA RestartSessions ==
  ASSUME SessionIInv, NEW on, NEW configured, StartsAgain(on, configured) PROVE SessionIInv'
<1>1. \A t \in Tabs : request'[t].stage = "idle"
  BY DEF StartsAgain, NoRequest
<1>2. ReadsAreExclusive'
  BY <1>1 DEF ReadsAreExclusive
<1>. QED  BY <1>2 DEF StartsAgain, SessionIInv, OneIsLive, ReusedAreDead

\* A new session is a family of its own.
LEMMA SigningSessions ==
  ASSUME Serialised, TypeIInv, SessionIInv, NEW a, Registers(a) \/ SignsIn(a) PROVE SessionIInv'
<1>1. PICK role : IssuesSession(a, role)
  BY DEF Registers, SignsIn
<1>. DEFINE x == [id |-> minted', owner |-> a, family |-> minted', live |-> TRUE, fresh |-> TRUE]
<1>2. tokens' = tokens \cup {x} /\ minted' = minted + 1 /\ x.family = minted + 1
  BY <1>1 DEF IssuesSession
<1>3. UNCHANGED <<request, reused>> /\ MayWrite
  BY DEF Registers, SignsIn
<1>. HIDE DEF x
<1>4. minted \in Nat /\ \A y \in tokens : y.family \in Nat /\ y.family <= minted
  BY AccountsAssumption DEF TypeIInv, TokensAreNamed, Token
<1>5. minted + 1 \notin reused /\ \A y \in tokens : y.family # x.family
  BY <1>2, <1>4 DEF TypeIInv, TokensAreNamed
<1>6. OneIsLive' /\ ReusedAreDead'
  BY <1>2, <1>3, <1>5 DEF SessionIInv, OneIsLive, ReusedAreDead
<1>. QED  BY <1>3, <1>6, NoReadInBetween DEF SessionIInv

LEMMA SignOutSessions ==
  ASSUME Serialised, TypeIInv, SessionIInv, SignsOut PROVE SessionIInv'
<1>1. UNCHANGED <<request, reused>> /\ MayWrite
  BY DEF SignsOut
<1>. DEFINE gone == {x \in tokens : x.id = cookie}
<1>2. tokens' = RevokedOf(gone)
  BY SignOutRevokes
<1>. HIDE DEF gone
<1>3. /\ \A x, y \in tokens' : x.id = y.id => x = y
      /\ \A z \in tokens' : z.live =>
           \E y \in tokens : y.live /\ z.id = y.id /\ z.family = y.family
  BY <1>2, RevokingKeepsRows DEF TypeIInv
<1>4. OneIsLive' /\ ReusedAreDead'
  BY <1>1, <1>3, FewerLive DEF SessionIInv
<1>. QED  BY <1>1, <1>4, NoReadInBetween DEF SessionIInv

LEMMA RefreshSentSessions ==
  ASSUME TypeIInv, SessionIInv, NEW t \in Tabs, RefreshSent(t) PROVE SessionIInv'
<1>. DEFINE q == [request[t] EXCEPT !.stage = "sent", !.token = cookie]
<1>1. q.stage = "sent"
  BY RequestFields, RequestIsSent DEF TypeIInv, RestTypes
<1>2. request' = [request EXCEPT ![t] = q] /\ UNCHANGED <<tokens, reused>>
  BY DEF RefreshSent, TypeIInv, RestTypes
<1>. HIDE DEF q
<1>3. ReadsAreExclusive'
  BY <1>1, <1>2, OthersRead DEF SessionIInv
<1>. QED  BY <1>2, <1>3 DEF SessionIInv, OneIsLive, ReusedAreDead

LEMMA RefreshReadsSessions ==
  ASSUME Serialised, TypeIInv, SessionIInv, NEW t \in Tabs, RefreshReads(t) PROVE SessionIInv'
<1>1. MayWrite /\ UNCHANGED <<tokens, reused>>
  BY DEF RefreshReads
<1>2. /\ request'[t].found = {x \in tokens : x.id = request[t].token}
      /\ \A u \in Tabs : u # t => request'[u] = request[u]
  BY RefreshReadsMakes
<1>3. \A u \in Tabs : request'[u].stage = "read" => u = t
  BY <1>1, <1>2 DEF MayWrite
<1>4. ReadsAreExclusive'
  BY <1>1, <1>2, <1>3 DEF ReadsAreExclusive
<1>. QED  BY <1>1, <1>4 DEF SessionIInv, OneIsLive, ReusedAreDead

LEMMA RefreshIsRefusedSessions ==
  ASSUME TypeIInv, SessionIInv, NEW t \in Tabs, RefreshIsRefused(t) PROVE SessionIInv'
<1>1. minted' \in Nat /\ minted' >= minted /\ 0 \in 0..MaxTokens
  BY AccountsAssumption DEF RefreshIsRefused, TypeIInv, TokensAreNamed
<1>2. request'[t].stage = "replied" /\ \A u \in Tabs : u # t => request'[u] = request[u]
  BY <1>1, ReplyTyped DEF RefreshIsRefused
<1>3. ReadsAreExclusive'
  BY <1>2, AnswersEndReads DEF RefreshIsRefused, SessionIInv
<1>. QED  BY <1>3 DEF RefreshIsRefused, SessionIInv, OneIsLive, ReusedAreDead

\* A used token revokes its family, all of it.
LEMMA RefreshIsReuseSessions ==
  ASSUME TypeIInv, SessionIInv, NEW t \in Tabs, RefreshIsReuse(t) PROVE SessionIInv'
<1>1. minted' \in Nat /\ minted' >= minted /\ 0 \in 0..MaxTokens
  BY AccountsAssumption DEF RefreshIsReuse, TypeIInv, TokensAreNamed
<1>2. request'[t].stage = "replied" /\ \A u \in Tabs : u # t => request'[u] = request[u]
  BY <1>1, ReplyTyped DEF RefreshIsReuse
<1>3. ReadsAreExclusive'
  BY <1>2, AnswersEndReads DEF RefreshIsReuse, SessionIInv
<1>4. PICK f \in 1..minted :
        tokens' = RevokedOf({y \in tokens : y.family = f}) /\ reused' = reused \cup {f}
  BY ReuseRevokes
<1>. DEFINE gone == {y \in tokens : y.family = f}
<1>5. /\ \A x, y \in RevokedOf(gone) : x.id = y.id => x = y
      /\ \A z \in RevokedOf(gone) : z.live =>
           \E y \in tokens : y.live /\ y \notin gone /\ z.id = y.id /\ z.family = y.family
  <2>. HIDE DEF gone
  <2>. QED  BY RevokingKeepsRows DEF TypeIInv
<1>6. \A z \in tokens' : z.live => z.family # f
  BY <1>4, <1>5
<1>7. OneIsLive' /\ ReusedAreDead'
  BY <1>4, <1>5, <1>6, FewerLive DEF SessionIInv
<1>. QED  BY <1>3, <1>7 DEF SessionIInv

\* The row that was read is still the good one of its family, and the new one takes its place.
LEMMA RefreshRotatesSessions ==
  ASSUME TypeIInv, SessionIInv, NEW t \in Tabs, RefreshRotates(t) PROVE SessionIInv'
<1>. USE AccountsAssumption
<1>1. PICK x \in request[t].found :
        /\ x.live
        /\ tokens' = RevokedOf({y \in tokens : y.id = x.id}) \cup {[x EXCEPT !.id = minted + 1]}
        /\ \E r : Replies(t, IF r.status = "active" THEN minted + 1 ELSE 0)
  BY RotationMakes
<1>2. minted \in Nat /\ minted < MaxTokens /\ minted' = minted + 1 /\ UNCHANGED reused
      /\ request[t].stage = "read"
  BY DEF RefreshRotates, TypeIInv, TokensAreNamed
<1>3. PICK y \in tokens : y.id = x.id /\ y.family = x.family /\ y.live
  BY <1>1, <1>2 DEF SessionIInv, ReadsAreExclusive
<1>4. x \in Token
  BY RequestFields
<1>. DEFINE gone == {v \in tokens : v.id = x.id}
            new  == [x EXCEPT !.id = minted + 1]
            rest == RevokedOf(gone)
<1>5. new.family = x.family /\ tokens' = rest \cup {new}
  BY <1>1, <1>4 DEF Token
<1>6. y \in gone
  BY <1>3
<1>7. /\ \A v, w \in rest : v.id = w.id => v = w
      /\ \A z \in rest : z.live =>
           \E w \in tokens : w.live /\ w \notin gone /\ z.id = w.id /\ z.family = w.family
  <2>. HIDE DEF gone
  <2>. QED  BY RevokingKeepsRows DEF TypeIInv
<1>. HIDE DEF gone, new, rest
<1>8. \A z \in rest : z.live => z.family # x.family
  BY <1>3, <1>6, <1>7 DEF SessionIInv, OneIsLive
<1>9. \A v, w \in rest : v.live /\ w.live /\ v.family = w.family => v = w
  BY <1>7 DEF SessionIInv, OneIsLive
<1>10. OneIsLive'
  BY <1>5, <1>8, <1>9 DEF OneIsLive
<1>11. x.family \notin reused
  BY <1>3 DEF SessionIInv, ReusedAreDead
<1>12. ReusedAreDead'
  BY <1>2, <1>5, <1>7, <1>11 DEF SessionIInv, ReusedAreDead
<1>13. ReadsAreExclusive'
  <2>1. PICK r : Replies(t, IF r.status = "active" THEN minted + 1 ELSE 0)
    BY <1>1
  <2>2. (IF r.status = "active" THEN minted + 1 ELSE 0) \in 0..MaxTokens
        /\ minted' \in Nat /\ minted' >= minted
    BY <1>2
  <2>3. request'[t].stage = "replied" /\ \A u \in Tabs : u # t => request'[u] = request[u]
    BY <2>1, <2>2, ReplyTyped
  <2>. QED  BY <1>2, <2>3, AnswersEndReads DEF SessionIInv
<1>. QED  BY <1>10, <1>12, <1>13 DEF SessionIInv

LEMMA ReplyEndsSessions ==
  ASSUME TypeIInv, SessionIInv, NEW t \in Tabs, ReplyArrives(t) \/ ReplyIsLost(t)
  PROVE  SessionIInv'
<1>1. NoRequest.stage = "idle" /\ request' = [request EXCEPT ![t] = NoRequest]
      /\ UNCHANGED <<tokens, reused>>
  BY DEF NoRequest, ReplyArrives, ReplyIsLost
<1>2. ReadsAreExclusive'
  BY <1>1, OthersRead DEF SessionIInv
<1>. QED  BY <1>1, <1>2 DEF SessionIInv, OneIsLive, ReusedAreDead

LEMMA TimeSessions ==
  ASSUME TypeIInv, SessionIInv, TokenExpires \/ ClaimExpires PROVE SessionIInv'
<1>1. CASE TokenExpires
  <2>1. UNCHANGED <<request, reused>>
    BY <1>1 DEF TokenExpires
  <2>2. OneIsLive' /\ ReusedAreDead'
    BY <1>1, <2>1, ExpiryMakes, FewerLive DEF SessionIInv
  <2>3. ReadsAreExclusive'
    BY <1>1, <2>1, ExpiryMakes DEF SessionIInv, ReadsAreExclusive
  <2>. QED  BY <2>2, <2>3 DEF SessionIInv
<1>2. CASE ClaimExpires
  BY <1>2 DEF ClaimExpires, SessionIInv, OneIsLive, ReusedAreDead, ReadsAreExclusive
<1>. QED  BY <1>1, <1>2

LEMMA AdminSessions ==
  ASSUME Serialised, TypeIInv, SessionIInv, AdminSteps PROVE SessionIInv'
<1>1. PICK by \in Addresses, a \in Addresses :
        Administers(by) /\ (UNCHANGED tokens \/ tokens' = {x \in tokens : x.owner # a})
  BY AdminStepsMake
<1>2. MayWrite /\ UNCHANGED <<request, reused>> /\ tokens' \subseteq tokens
  BY <1>1 DEF Administers
<1>3. OneIsLive' /\ ReusedAreDead'
  BY <1>2 DEF SessionIInv, OneIsLive, ReusedAreDead
<1>. QED  BY <1>2, <1>3, NoReadInBetween DEF SessionIInv

LEMMA SessionsInductive ==
  ASSUME Serialised, AccIInv, [AccountsNext]_accountVars PROVE AccIInv'
<1>0. TypeIInv /\ SessionIInv /\ TypeIInv'
  BY TypesInductive DEF AccIInv, SessionIInv
<1>1. ASSUME UNCHANGED accountVars PROVE SessionIInv'
  BY <1>0, <1>1 DEF accountVars, SessionIInv, OneIsLive, ReusedAreDead, ReadsAreExclusive
<1>2. ASSUME NEW t \in Tabs, RefreshSteps(t) PROVE SessionIInv'
  BY <1>0, <1>2, RefreshSentSessions, RefreshReadsSessions, RefreshIsRefusedSessions,
     RefreshIsReuseSessions, RefreshRotatesSessions, ReplyEndsSessions DEF RefreshSteps
<1>3. SessionIInv'
  BY <1>0, <1>1, <1>2, RestartSessions, SigningSessions, SignOutSessions, TimeSessions,
     AdminSessions DEF AccountsNext
<1>. QED  BY <1>0, <1>3 DEF AccIInv, SessionIInv

\* On SQLite, where the write lock excludes every other writer from between a refresh's read
\* and its write: whatever tabs refresh and whichever replies are lost, a session has one good
\* token at most, and none once a used one was presented (rotate_refresh_token, revoke_family).
THEOREM SessionsHold == ASSUME Serialised PROVE AccountsSpec => []AccountsInv
<1>1. AccIInv /\ [AccountsNext]_accountVars => AccIInv'
  BY SessionsInductive
<1>2. AccountsSpec => []AccIInv
  BY <1>1, AccInitially, PTL DEF AccountsSpec
<1>. QED  BY <1>2, AccIInvImplies, PTL

-----------------------------------------------------------------------------
(* Induction on natural numbers, over sets of them *)

LEMMA LeastOf == ASSUME NEW T \in SUBSET Nat, T # {} PROVE \E x \in T : \A y \in T : x <= y
<1>. DEFINE R == OpToRel(<, Nat)
<1>1. IsWellFoundedOn(R, Nat)
  BY NatLessThanWellFounded
<1>2. \A y \in Nat, z \in Nat : y < z => <<y, z>> \in R
  BY DEF OpToRel
<1>. HIDE DEF R
<1>3. PICK x \in T : \A y \in T : ~ (<<y, x>> \in R)
  BY <1>1, WFMin
<1>4. x \in Nat /\ \A y \in T : y \in Nat /\ ~(y < x)
  BY <1>2, <1>3
<1>. QED  BY <1>4

LEMMA SetInduction ==
  ASSUME NEW P \in SUBSET Nat, 0 \in P, \A n \in P : n + 1 \in P
  PROVE  \A n \in Nat : n \in P
<1>. SUFFICES ASSUME Nat \ P # {} PROVE FALSE
  OBVIOUS
<1>1. PICK x \in Nat \ P : \A y \in Nat \ P : x <= y
  BY LeastOf
<1>2. x # 0 /\ x - 1 \in Nat /\ x - 1 \in P
  BY <1>1
<1>. QED  BY <1>1, <1>2

LEMMA SetInductionBelow ==
  ASSUME NEW P \in SUBSET Nat, \A n \in Nat : (\A k \in 0..n - 1 : k \in P) => n \in P
  PROVE  \A n \in Nat : n \in P
<1>. SUFFICES ASSUME Nat \ P # {} PROVE FALSE
  OBVIOUS
<1>1. PICK x \in Nat \ P : \A y \in Nat \ P : x <= y
  BY LeastOf
<1>2. \A k \in 0..x - 1 : k \in P
  BY <1>1
<1>. QED  BY <1>1, <1>2

-----------------------------------------------------------------------------
(* The tree *)

MessageRow == [parent : 0..MaxIds, depth : 0..MaxIds, role : {"user", "assistant"},
               text : {"none", "part", "whole"}, settled : BOOLEAN]

\* Parents have smaller ids, and depth grows no faster than ids do.
Tree ==
  /\ DOMAIN rows \subseteq Ids
  /\ rows \in [DOMAIN rows -> MessageRow]
  /\ \A m \in DOMAIN rows : rows[m].parent < m /\ rows[m].depth < m

\* What Chain is defined to be: its recursion ends, because parents have smaller ids.
LEMMA ChainUnfolds ==
  Tree => Chain = [m \in 0..MaxIds |->
                     IF m \notin DOMAIN rows THEN <<>> ELSE Append(Chain[rows[m].parent], m)]
<1>. SUFFICES ASSUME Tree
              PROVE  Chain = [m \in 0..MaxIds |->
                       IF m \notin DOMAIN rows THEN <<>> ELSE Append(Chain[rows[m].parent], m)]
  OBVIOUS
<1>. USE ConversationAssumption
<1>. DEFINE
            Solves(g, n) == g = [m \in 0..n |->
              IF m \notin DOMAIN rows THEN <<>> ELSE Append(g[rows[m].parent], m)]
            P == {n \in Nat : \E g : Solves(g, n)}
<1>1. Solves([m \in 0..0 |-> <<>>], 0)
  <2>1. 0 \notin DOMAIN rows
    BY DEF Tree, Ids
  <2>. QED  BY <2>1
<1>2. ASSUME NEW n \in Nat, NEW g, Solves(g, n)
      PROVE  \E h : Solves(h, n + 1)
  <2>. DEFINE h == [m \in 0..n + 1 |->
                IF m \notin DOMAIN rows THEN <<>> ELSE Append(g[rows[m].parent], m)]
  <2>0. \A m \in 0..n : g[m] = IF m \notin DOMAIN rows THEN <<>> ELSE Append(g[rows[m].parent], m)
    <3>. DEFINE e == [m \in 0..n |-> IF m \notin DOMAIN rows THEN <<>> ELSE Append(g[rows[m].parent], m)]
    <3>1. \A m \in 0..n : e[m] = IF m \notin DOMAIN rows THEN <<>> ELSE Append(g[rows[m].parent], m)
      OBVIOUS
    <3>2. g = e
      BY <1>2
    <3>. HIDE DEF e
    <3>. QED  BY <3>1, <3>2
  <2>1. \A m \in 0..n : h[m] = g[m]
    <3>1. \A m \in 0..n : h[m] = IF m \notin DOMAIN rows THEN <<>> ELSE Append(g[rows[m].parent], m)
      OBVIOUS
    <3>. HIDE DEF h
    <3>. QED  BY <2>0, <3>1
  <2>2. \A m \in 0..n + 1 : m \in DOMAIN rows => rows[m].parent \in 0..n
    BY DEF Tree, Ids, MessageRow
  <2>3. \A m \in 0..n + 1 : m \in DOMAIN rows => h[rows[m].parent] = g[rows[m].parent]
    BY <2>1, <2>2
  <2>4. h = [m \in 0..n + 1 |->
                IF m \notin DOMAIN rows THEN <<>> ELSE Append(h[rows[m].parent], m)]
    <3>1. \A m \in 0..n + 1 : h[m] = IF m \notin DOMAIN rows THEN <<>> ELSE Append(h[rows[m].parent], m)
      BY <2>3
    <3>2. h = [m \in 0..n + 1 |-> h[m]]
      OBVIOUS
    <3>. HIDE DEF h
    <3>. QED  BY <3>1, <3>2
  <2>. HIDE DEF h
  <2>. QED  BY <2>4
<1>. HIDE DEF Solves
<1>3. \A n \in Nat : n \in P
  <2>1. 0 \in P
    BY <1>1
  <2>2. \A n \in P : n + 1 \in P
    BY <1>2
  <2>3. P \in SUBSET Nat
    OBVIOUS
  <2>. HIDE DEF P
  <2>. QED  BY <2>1, <2>2, <2>3, SetInduction
<1>4. \E g : Solves(g, MaxIds)
  BY <1>3
<1>5. Chain = CHOOSE g : Solves(g, MaxIds)
  BY DEF Chain, Solves
<1>6. Solves(Chain, MaxIds)
  BY <1>4, <1>5
<1>. QED  BY <1>6 DEF Solves

LEMMA ChainIs ==
  Tree => /\ \A m \in 0..MaxIds : m \notin DOMAIN rows => Chain[m] = <<>>
          /\ \A m \in DOMAIN rows : rows[m].parent \in 0..MaxIds
                                    /\ Chain[m] = Append(Chain[rows[m].parent], m)
<1>. SUFFICES ASSUME Tree
              PROVE  /\ \A m \in 0..MaxIds : m \notin DOMAIN rows => Chain[m] = <<>>
                     /\ \A m \in DOMAIN rows : rows[m].parent \in 0..MaxIds
                                               /\ Chain[m] = Append(Chain[rows[m].parent], m)
  OBVIOUS
<1>. DEFINE made == [m \in 0..MaxIds |->
              IF m \notin DOMAIN rows THEN <<>> ELSE Append(Chain[rows[m].parent], m)]
<1>1. \A m \in 0..MaxIds : made[m] = IF m \notin DOMAIN rows THEN <<>> ELSE Append(Chain[rows[m].parent], m)
  OBVIOUS
<1>2. Chain = made
  BY ChainUnfolds
<1>. HIDE DEF made
<1>3. \A m \in 0..MaxIds : Chain[m] = IF m \notin DOMAIN rows THEN <<>> ELSE Append(Chain[rows[m].parent], m)
  BY <1>1, <1>2
<1>4. \A m \in DOMAIN rows : m \in 0..MaxIds /\ rows[m].parent \in 0..MaxIds
  BY DEF Tree, Ids, MessageRow
<1>. QED  BY <1>3, <1>4

\* A chain ends in its message, each message follows its parent, and the first one's parent
\* is not stored.
Linked(seq) ==
  /\ seq \in Seq(DOMAIN rows)
  /\ \A i \in 1..Len(seq) - 1 : seq[i] = rows[seq[i + 1]].parent

LEMMA ChainLinked ==
  Tree => \A m \in DOMAIN rows :
            /\ Linked(Chain[m]) /\ Len(Chain[m]) \in Nat \ {0}
            /\ Chain[m][Len(Chain[m])] = m
            /\ rows[Chain[m][1]].parent \notin DOMAIN rows
<1>. SUFFICES ASSUME Tree
              PROVE  \A m \in DOMAIN rows :
                       /\ Linked(Chain[m]) /\ Len(Chain[m]) \in Nat \ {0}
                       /\ Chain[m][Len(Chain[m])] = m
                       /\ rows[Chain[m][1]].parent \notin DOMAIN rows
  OBVIOUS
<1>. DEFINE Good(m) == /\ Linked(Chain[m]) /\ Len(Chain[m]) \in Nat \ {0}
                       /\ Chain[m][Len(Chain[m])] = m
                       /\ rows[Chain[m][1]].parent \notin DOMAIN rows
            P == {n \in Nat : n \in DOMAIN rows => Good(n)}
<1>1. ASSUME NEW n \in Nat, \A k \in 0..n - 1 : k \in P, n \in DOMAIN rows
      PROVE  Good(n)
  <2>. DEFINE p == rows[n].parent
              up == Chain[p]
  <2>1. p \in 0..n - 1 /\ p \in 0..MaxIds /\ Chain[n] = Append(up, n)
    BY <1>1, ChainIs DEF Tree
  <2>2. CASE p \notin DOMAIN rows
    <3>1. up = <<>>
      BY <2>1, <2>2, ChainIs
    <3>2. Chain[n] = <<n>>
      BY <2>1, <3>1
    <3>3. <<n>> \in Seq(DOMAIN rows) /\ Len(<<n>>) = 1 /\ <<n>>[1] = n
      BY <1>1
    <3>. QED  BY <2>2, <3>2, <3>3 DEF Linked
  <2>3. CASE p \in DOMAIN rows
    <3>1. Good(p)
      BY <1>1, <2>1, <2>3
    <3>. HIDE DEF p
    <3>2. up \in Seq(DOMAIN rows) /\ Len(up) \in Nat \ {0} /\ up[Len(up)] = p
          /\ rows[up[1]].parent \notin DOMAIN rows
          /\ \A i \in 1..Len(up) - 1 : up[i] = rows[up[i + 1]].parent
      BY <3>1 DEF Linked
    <3>. HIDE DEF up, Good
    <3>3. /\ Append(up, n) \in Seq(DOMAIN rows) /\ Len(Append(up, n)) = Len(up) + 1
          /\ \A i \in 1..Len(up) : Append(up, n)[i] = up[i]
          /\ Append(up, n)[Len(up) + 1] = n
      BY <1>1, <3>2, AppendProperties
    <3>4. Append(up, n)[1] = up[1]
      BY <3>2, <3>3
    <3>5. ASSUME NEW i \in 1..Len(up)
          PROVE  Append(up, n)[i] = rows[Append(up, n)[i + 1]].parent
      <4>1. CASE i = Len(up)
        BY <3>2, <3>3, <4>1 DEF p
      <4>2. CASE i # Len(up)
        <5>1. i \in 1..Len(up) - 1 /\ i + 1 \in 1..Len(up)
          BY <3>2, <4>2
        <5>. QED  BY <3>2, <3>3, <5>1
      <4>. QED  BY <4>1, <4>2
    <3>6. Len(Append(up, n)) - 1 = Len(up)
      BY <3>2, <3>3
    <3>7. Linked(Append(up, n))
      BY <3>3, <3>5, <3>6 DEF Linked
    <3>8. Len(Append(up, n)) \in Nat \ {0}
      BY <3>2, <3>3
    <3>. QED  BY <2>1, <3>2, <3>3, <3>4, <3>7, <3>8 DEF Good
  <2>. QED  BY <2>2, <2>3
<1>2. \A n \in Nat : n \in P
  <2>1. \A n \in Nat : (\A k \in 0..n - 1 : k \in P) => n \in P
    BY <1>1
  <2>2. P \in SUBSET Nat
    OBVIOUS
  <2>. HIDE DEF P
  <2>. QED  BY <2>1, <2>2, SetInductionBelow
<1>3. DOMAIN rows \subseteq Nat
  BY ConversationAssumption DEF Tree, Ids
<1>. QED  BY <1>2, <1>3

\* A branch is its message and the branch of its parent.
BranchesUnfold ==
  /\ \A m \in 0..MaxIds : m \notin DOMAIN rows => Branch(m) = {}
  /\ \A m \in DOMAIN rows : Branch(m) = Branch(rows[m].parent) \cup {m}

LEMMA BranchIs == Tree => BranchesUnfold
<1>. SUFFICES ASSUME Tree PROVE BranchesUnfold
  OBVIOUS
<1>1. \A m \in 0..MaxIds : m \notin DOMAIN rows => Branch(m) = {}
  BY ChainIs DEF Branch
<1>2. ASSUME NEW m \in DOMAIN rows PROVE Branch(m) = Branch(rows[m].parent) \cup {m}
  <2>. DEFINE up == Chain[rows[m].parent]
  <2>1. Chain[m] = Append(up, m) /\ rows[m].parent \in 0..MaxIds
    BY ChainIs
  <2>2. up \in Seq(DOMAIN rows)
    <3>1. CASE rows[m].parent \in DOMAIN rows
      BY <3>1, ChainLinked DEF Linked
    <3>2. CASE rows[m].parent \notin DOMAIN rows
      <4>1. up = <<>>
        BY <2>1, <3>2, ChainIs
      <4>. QED  BY <4>1, EmptySeq
    <3>. QED  BY <3>1, <3>2
  <2>. HIDE DEF up
  <2>3. /\ Append(up, m) \in Seq(DOMAIN rows) /\ Len(Append(up, m)) = Len(up) + 1
        /\ \A i \in 1..Len(up) : Append(up, m)[i] = up[i]
        /\ Append(up, m)[Len(up) + 1] = m
    BY <2>2, AppendProperties
  <2>4. Len(up) \in Nat /\ DOMAIN up = 1..Len(up) /\ DOMAIN Append(up, m) = 1..Len(up) + 1
    BY <2>2, <2>3, LenProperties
  <2>. DEFINE all == Append(up, m)
  <2>. HIDE DEF all
  <2>5. {all[i] : i \in DOMAIN all} = {up[i] : i \in DOMAIN up} \cup {m}
    BY <2>3, <2>4 DEF all
  <2>. QED  BY <2>1, <2>5 DEF Branch, up, all
<1>. QED  BY <1>1, <1>2 DEF BranchesUnfold

\* A branch has the branches of its messages in it, in the order of their ids.
LEMMA BranchesNest ==
  Tree => \A m \in DOMAIN rows :
            /\ Branch(m) \subseteq DOMAIN rows /\ \A o \in Branch(m) : o <= m
            /\ \A a \in Branch(m) : Branch(a) = {o \in Branch(m) : o <= a}
<1>. SUFFICES ASSUME Tree
              PROVE  \A m \in DOMAIN rows :
                       /\ Branch(m) \subseteq DOMAIN rows /\ \A o \in Branch(m) : o <= m
                       /\ \A a \in Branch(m) : Branch(a) = {o \in Branch(m) : o <= a}
  OBVIOUS
<1>. DEFINE Good(m) == /\ Branch(m) \subseteq DOMAIN rows /\ \A o \in Branch(m) : o <= m
                       /\ \A a \in Branch(m) : Branch(a) = {o \in Branch(m) : o <= a}
            P == {n \in Nat : n \in DOMAIN rows => Good(n)}
<1>0. DOMAIN rows \subseteq Nat /\ \A m \in DOMAIN rows : rows[m].parent \in 0..MaxIds /\ rows[m].parent < m
  BY ConversationAssumption DEF Tree, Ids, MessageRow
<1>1. ASSUME NEW n \in Nat, \A k \in 0..n - 1 : k \in P, n \in DOMAIN rows
      PROVE  Good(n)
  <2>. DEFINE p == rows[n].parent
  <2>1. Branch(n) = Branch(p) \cup {n} /\ p \in 0..MaxIds /\ p \in 0..n - 1
    BY <1>0, <1>1, BranchIs DEF BranchesUnfold
  <2>2. CASE p \notin DOMAIN rows
    <3>1. Branch(n) = {n}
      BY <2>1, <2>2, BranchIs DEF BranchesUnfold
    <3>. QED  BY <1>1, <3>1
  <2>3. CASE p \in DOMAIN rows
    <3>1. Good(p)
      BY <1>1, <2>1, <2>3
    <3>. HIDE DEF p
    <3>2. \A o \in Branch(p) : o \in Nat /\ o < n
      BY <1>0, <2>1, <3>1
    <3>3. \A a \in Branch(p) : Branch(a) = {o \in Branch(n) : o <= a}
      BY <2>1, <3>1, <3>2
    <3>4. Branch(n) = {o \in Branch(n) : o <= n}
      BY <2>1, <3>2
    <3>. QED  BY <1>1, <2>1, <3>1, <3>2, <3>3, <3>4
  <2>. QED  BY <2>2, <2>3
<1>2. \A n \in Nat : n \in P
  <2>1. \A n \in Nat : (\A k \in 0..n - 1 : k \in P) => n \in P
    BY <1>1
  <2>2. P \in SUBSET Nat
    OBVIOUS
  <2>. HIDE DEF P
  <2>. QED  BY <2>1, <2>2, SetInductionBelow
<1>. QED  BY <1>0, <1>2

\* Messages that are stored later, above what the branch goes through, leave it as it was.
SameBelow(h) ==
  \A m \in 1..h : /\ m \in DOMAIN rows' <=> m \in DOMAIN rows
                  /\ m \in DOMAIN rows => rows'[m].parent = rows[m].parent

LEMMA BranchIsAfter == Tree' => BranchesUnfold'
BY BranchIs, PTL

LEMMA BranchStays ==
  ASSUME Tree, Tree', NEW h \in 0..MaxIds, SameBelow(h) PROVE Branch(h)' = Branch(h)
<1>. DEFINE P == {n \in Nat : n <= h => Branch(n)' = Branch(n)}
<1>0. DOMAIN rows \subseteq Nat \ {0} /\ \A m \in DOMAIN rows : rows[m].parent \in 0..MaxIds /\ rows[m].parent < m
  BY ConversationAssumption DEF Tree, Ids, MessageRow
<1>1. ASSUME NEW n \in Nat, \A k \in 0..n - 1 : k \in P, n <= h
      PROVE  Branch(n)' = Branch(n)
  <2>0. n \in 0..MaxIds /\ 0 \notin DOMAIN rows'
    BY <1>1, ConversationAssumption DEF Tree, Ids
  <2>1. CASE n \notin DOMAIN rows
    <3>1. n \notin DOMAIN rows'
      BY <1>1, <2>0, <2>1 DEF SameBelow
    <3>2. Branch(n) = {}
      BY <2>0, <2>1, BranchIs DEF BranchesUnfold
    <3>3. Branch(n)' = {}
      BY <2>0, <3>1, BranchIsAfter DEF BranchesUnfold
    <3>. QED  BY <3>2, <3>3
  <2>2. CASE n \in DOMAIN rows
    <3>. DEFINE p == rows[n].parent
    <3>1. n \in DOMAIN rows' /\ rows'[n].parent = rows[n].parent
      BY <1>0, <1>1, <2>2 DEF SameBelow
    <3>2. PICK q : q = rows[n].parent
      OBVIOUS
    <3>3. Branch(n)' = Branch(q)' \cup {n}
      BY <3>1, <3>2, BranchIsAfter DEF BranchesUnfold
    <3>4. Branch(n) = Branch(q) \cup {n}
      BY <2>2, <3>2, BranchIs DEF BranchesUnfold
    <3>5. q \in 0..n - 1 /\ q <= h
      BY <1>0, <1>1, <2>2, <3>2
    <3>6. Branch(q)' = Branch(q)
      BY <1>1, <3>5
    <3>. QED  BY <3>3, <3>4, <3>6
  <2>. QED  BY <2>1, <2>2
<1>2. \A n \in Nat : n \in P
  <2>1. \A n \in Nat : (\A k \in 0..n - 1 : k \in P) => n \in P
    BY <1>1
  <2>2. P \in SUBSET Nat
    OBVIOUS
  <2>. HIDE DEF P
  <2>. QED  BY <2>1, <2>2, SetInductionBelow
<1>3. h \in Nat
  BY ConversationAssumption
<1>. QED  BY <1>2, <1>3

\* Messages linked one to the next are the end of a chain.
LEMMA LinkedEndsChain ==
  ASSUME Tree, NEW seq, Linked(seq), seq # <<>>
  PROVE  LET chain == Chain[seq[Len(seq)]]
             above == Len(chain) - Len(seq)
         IN /\ above \in Nat /\ seq = SubSeq(chain, above + 1, Len(chain))
            /\ IF above = 0 THEN rows[seq[1]].parent \notin DOMAIN rows
               ELSE chain[above] \in DOMAIN rows /\ chain[above] = rows[seq[1]].parent
<1>. DEFINE l == Len(seq)
            m == seq[l]
            chain == Chain[m]
            n == Len(chain)
<1>1. seq \in Seq(DOMAIN rows) /\ l \in Nat \ {0} /\ m \in DOMAIN rows /\ DOMAIN seq = 1..l
      /\ \A i \in 1..l : seq[i] \in DOMAIN rows
  <2>1. seq \in Seq(DOMAIN rows)
    BY DEF Linked
  <2>2. l \in Nat /\ DOMAIN seq = 1..l /\ \A i \in 1..l : seq[i] \in DOMAIN rows
    BY <2>1, LenProperties
  <2>3. l # 0
    BY <2>1, <2>2, EmptySeq, SeqEqual
  <2>. QED  BY <2>1, <2>2, <2>3
<1>2. /\ chain \in Seq(DOMAIN rows) /\ n \in Nat \ {0} /\ chain[n] = m
      /\ rows[chain[1]].parent \notin DOMAIN rows
      /\ \A i \in 1..n - 1 : chain[i] = rows[chain[i + 1]].parent
  BY <1>1, ChainLinked DEF Linked
<1>3. \A i \in 1..l - 1 : seq[i] = rows[seq[i + 1]].parent
  BY DEF Linked
<1>. DEFINE P == {j \in Nat : j < l => j < n /\ seq[l - j] = chain[n - j]}
<1>4. 0 \in P
  BY <1>1, <1>2
<1>. HIDE DEF l, m, chain, n
<1>5. ASSUME NEW j \in P PROVE j + 1 \in P
  <2>. SUFFICES ASSUME j + 1 < l PROVE j + 1 < n /\ seq[l - (j + 1)] = chain[n - (j + 1)]
    OBVIOUS
  <2>1. j \in Nat /\ j < n /\ seq[l - j] = chain[n - j]
    BY <1>1
  <2>2. l - j - 1 \in 1..l - 1 /\ (l - j - 1) + 1 = l - j
    BY <1>1, <2>1
  <2>3. seq[l - j - 1] = rows[chain[n - j]].parent /\ seq[l - j - 1] \in DOMAIN rows
    BY <1>1, <1>3, <2>1, <2>2
  <2>4. n - j # 1
    BY <1>2, <2>3
  <2>5. n - j - 1 \in 1..n - 1 /\ (n - j - 1) + 1 = n - j
    BY <1>2, <2>1, <2>4
  <2>6. chain[n - j - 1] = rows[chain[n - j]].parent
    BY <1>2, <2>5
  <2>7. l - (j + 1) = l - j - 1 /\ n - (j + 1) = n - j - 1
    BY <1>1, <1>2, <2>1
  <2>. QED  BY <1>1, <1>2, <2>1, <2>3, <2>5, <2>6, <2>7
<1>6. \A j \in Nat : j \in P
  <2>1. P \in SUBSET Nat
    OBVIOUS
  <2>. HIDE DEF P
  <2>. QED  BY <1>4, <1>5, <2>1, SetInduction
<1>7. ASSUME NEW j \in 0..l - 1 PROVE j < n /\ seq[l - j] = chain[n - j]
  BY <1>1, <1>6
<1>. HIDE DEF P
<1>. DEFINE above == n - l
<1>8. above \in Nat
  <2>1. l - 1 \in 0..l - 1
    BY <1>1
  <2>2. l - 1 < n
    BY <1>7, <2>1
  <2>. QED  BY <1>1, <1>2, <2>2
<1>9. \A i \in 1..l : seq[i] = chain[above + i]
  <2>. SUFFICES ASSUME NEW i \in 1..l PROVE seq[i] = chain[above + i]
    OBVIOUS
  <2>1. l - i \in 0..l - 1 /\ l - (l - i) = i /\ n - (l - i) = above + i
    BY <1>1, <1>2
  <2>. QED  BY <1>7, <2>1
<1>10. seq = SubSeq(chain, above + 1, n)
  <2>. DEFINE part == SubSeq(chain, above + 1, n)
  <2>1. part \in Seq(DOMAIN rows) /\ Len(part) = l /\ \A i \in 1..l : part[i] = chain[above + i]
    <3>1. above + 1 \in 1..n + 1 /\ n \in 0..n
      BY <1>1, <1>2, <1>8
    <3>2. /\ part \in Seq(DOMAIN rows)
          /\ Len(part) = IF above + 1 <= n THEN n - (above + 1) + 1 ELSE 0
          /\ \A i \in 1..n - (above + 1) + 1 : part[i] = chain[above + 1 + i - 1]
      <4>1. above + 1 \in Int /\ n \in Int /\ \A i \in above + 1..n : chain[i] \in DOMAIN rows
        <5>1. \A i \in 1..n : chain[i] \in DOMAIN rows
          BY <1>2, LenProperties DEF n
        <5>. QED  BY <1>2, <1>8, <5>1
      <4>. HIDE DEF above
      <4>. QED  BY <4>1, SubSeqProperties
    <3>3. n - (above + 1) + 1 = l /\ above + 1 <= n /\ \A i \in 1..l : above + 1 + i - 1 = above + i
      BY <1>1, <1>2, <1>8
    <3>. HIDE DEF above, part
    <3>. QED  BY <3>2, <3>3
  <2>. HIDE DEF part, above
  <2>2. Len(seq) = Len(part) /\ \A i \in 1..Len(seq) : seq[i] = part[i]
    BY <1>1, <1>9, <2>1 DEF l
  <2>3. seq = part
    BY <1>1, <2>1, <2>2, SeqEqual
  <2>. QED  BY <2>3 DEF part
<1>11. IF above = 0 THEN rows[seq[1]].parent \notin DOMAIN rows
       ELSE chain[above] \in DOMAIN rows /\ chain[above] = rows[seq[1]].parent
  <2>1. seq[1] = chain[above + 1]
    BY <1>1, <1>9
  <2>2. CASE above = 0
    BY <1>2, <2>1, <2>2
  <2>3. CASE above # 0
    <3>1. above \in 1..n - 1 /\ above \in 1..n
      BY <1>1, <1>2, <1>8, <2>3
    <3>2. chain[above] \in DOMAIN rows
      BY <1>2, <3>1, LenProperties DEF n
    <3>. QED  BY <1>2, <2>1, <2>3, <3>1, <3>2
  <2>. QED  BY <2>2, <2>3
<1>. QED  BY <1>8, <1>10, <1>11 DEF l, m, chain, n, above

-----------------------------------------------------------------------------
(* The inductive invariant *)

Turns == [stage : {"idle", "ready", "running", "finalizing", "over"}, parent : 0..MaxIds,
          depth : 0..MaxIds, sent : SUBSET Ids, room : BOOLEAN, given : SUBSET Ids,
          calm : BOOLEAN, stray : BOOLEAN, user : 0..MaxIds]

\* Whatever has an anchor describes the message it is.
Anchored(n) == n.anchor # 0 => n.anchor \in n.covers
Notes ==
  {n \in [text : BOOLEAN, anchor : 0..MaxIds, covers : SUBSET Ids, omitted : SUBSET Ids,
          calm : BOOLEAN] : Anchored(n)}
Compactions ==
  {n \in [stage : {"idle", "checked", "writing", "over"}, anchor : 0..MaxIds,
          covers : SUBSET Ids, omitted : SUBSET Ids, calm : BOOLEAN] : Anchored(n)}
Pages == [got : Seq(Ids), next : 0..MaxIds, calm : BOOLEAN]

ConvTypes ==
  /\ leaf \in {0} \cup DOMAIN rows
  /\ notes \in Notes /\ (notes.text \/ notes = NoNotes)
  /\ running \in CTurns \cup {None}
  /\ turn \in [CTurns -> Turns]
  /\ compaction \in [Compactors -> Compactions]
  /\ nextId \in 1..MaxIds + 1

\* What is stored and referred to has been allocated; what a turn allocated is its own.
IdsAreIssued ==
  /\ \A m \in DOMAIN rows : m < nextId
  /\ notes.anchor < nextId
  /\ \A k \in Compactors : compaction[k].anchor < nextId
  /\ \A t \in CTurns : turn[t].parent < nextId /\ turn[t].depth < nextId

TurnsAreApart ==
  /\ \A t \in Unsettled :
       /\ turn[t].user > turn[t].parent /\ turn[t].user > turn[t].depth
       /\ Reply(t) < nextId
       /\ turn[t].user \in DOMAIN rows <=> Reply(t) \in DOMAIN rows
  /\ \A t, u \in Unsettled : t # u => turn[t].user # turn[u].user /\ Reply(t) # turn[u].user

\* What was read beside no unsettled turn is older than what any turn is going to store.
ReadsAreOlder ==
  \A u \in Unsettled :
    /\ \A t \in CTurns : turn[t].calm => turn[u].user > turn[t].parent
    /\ \A k \in Compactors : compaction[k].calm => turn[u].user > compaction[k].anchor
    /\ notes.calm => turn[u].user > notes.anchor
    /\ page.calm /\ page.got # <<>> => turn[u].user > page.got[1]

Covers(anchor, covers) == anchor # 0 => \A m \in Branch(anchor) : HasText(m) => m \in covers

NotesAreCalm ==
  /\ notes.calm => Covers(notes.anchor, Replaced(notes))
  /\ \A k \in Compactors :
       compaction[k].calm => Covers(compaction[k].anchor, Replaced(compaction[k]))

\* What a client has is linked up, and the cursor goes on from its first message.
PageIsLinked ==
  /\ page \in Pages
  /\ Linked(page.got)
  /\ page.next \in {0} \cup DOMAIN rows
  /\ page.next # 0 => page.got # <<>> /\ page.next = rows[page.got[1]].parent
  /\ page.calm \in BOOLEAN
  /\ page.calm /\ page.got # <<>> /\ page.next = 0 => rows[page.got[1]].parent \notin DOMAIN rows

ConvIInv ==
  /\ Tree /\ ConvTypes /\ IdsAreIssued /\ TurnsAreApart /\ ReadsAreOlder
  /\ CalmTurnsContinueTheirBranch /\ NotesAreCalm /\ PageIsLinked

LEMMA ConvIInvImplies == ASSUME ConvIInv PROVE ConvInv /\ CalmTurnsContinueTheirBranch /\ PagesJoin
<1>. USE ConversationAssumption DEF ConvIInv
<1>1. ConvTypeOK
  <2>1. \A m \in DOMAIN rows : rows[m] \in MessageRow
    BY DEF Tree
  <2>2. leaf \in 0..MaxIds
    BY DEF ConvTypes, Tree, Ids
  <2>3. \A t \in CTurns : turn[t] \in Turns
    BY DEF ConvTypes
  <2>4. \A k \in Compactors : compaction[k] \in Compactions
    BY DEF ConvTypes
  <2>. QED  BY <2>1, <2>2, <2>3, <2>4
            DEF Tree, MessageRow, ConvTypes, ConvTypeOK, Turns, Compactions, Notes
<1>2. NotesCover
  BY DEF NotesCover, NotesCoverAlways, NotesAreCalm, Covers, ConvTypes, Notes, Anchored
<1>3. PagesJoin
  <2>. SUFFICES ASSUME page.got # <<>>
                PROVE  LET chain == Chain[page.got[Len(page.got)]]
                           above == Len(chain) - Len(page.got)
                       IN /\ above >= 0 /\ page.got = SubSeq(chain, above + 1, Len(chain))
                          /\ page.calm => page.next = IF above = 0 THEN 0 ELSE chain[above]
    BY DEF PagesJoin
  <2>. DEFINE chain == Chain[page.got[Len(page.got)]]
              above == Len(chain) - Len(page.got)
  <2>1. /\ above \in Nat /\ page.got = SubSeq(chain, above + 1, Len(chain))
        /\ IF above = 0 THEN rows[page.got[1]].parent \notin DOMAIN rows
           ELSE chain[above] \in DOMAIN rows /\ chain[above] = rows[page.got[1]].parent
    BY LinkedEndsChain DEF PageIsLinked
  <2>. HIDE DEF chain, above
  <2>2. page.calm => page.next = IF above = 0 THEN 0 ELSE chain[above]
    BY <2>1 DEF PageIsLinked
  <2>3. /\ above >= 0 /\ page.got = SubSeq(chain, above + 1, Len(chain))
        /\ page.calm => page.next = IF above = 0 THEN 0 ELSE chain[above]
    BY <2>1, <2>2
  <2>. QED  BY <2>3, Zenon DEF chain, above
<1>. QED  BY <1>1, <1>2, <1>3 DEF ConvInv

LEMMA ConvInitially == ConvInit => ConvIInv
<1>. SUFFICES ASSUME ConvInit PROVE ConvIInv
  OBVIOUS
<1>. USE ConversationAssumption DEF ConvInit
<1>1. DOMAIN rows = {} /\ Tree
  BY DEF Tree
<1>2. NoTurn \in Turns /\ NoTurn.stage = "idle" /\ ~NoTurn.calm /\ NoTurn.parent = 0 /\ NoTurn.depth = 0
  BY DEF NoTurn, Turns
<1>3. NoNotes \in Notes /\ NoNotes.anchor = 0
  BY DEF NoNotes, Notes, Anchored
<1>4. NoCompaction \in Compactions /\ NoCompaction.anchor = 0
  BY DEF NoCompaction, Compactions, Anchored
<1>5. ConvTypes
  BY <1>2, <1>3, <1>4 DEF ConvTypes
<1>6. Unsettled = {}
  BY <1>2 DEF Unsettled
<1>7. IdsAreIssued
  BY <1>1, <1>2, <1>3, <1>4 DEF IdsAreIssued
<1>8. CalmTurnsContinueTheirBranch
  BY <1>2 DEF CalmTurnsContinueTheirBranch
<1>9. NotesAreCalm
  BY <1>3, <1>4 DEF NotesAreCalm, Covers
<1>10. PageIsLinked
  <2>1. <<>> \in Seq(DOMAIN rows) /\ <<>> \in Seq(Ids) /\ Len(<<>>) = 0
    BY EmptySeq
  <2>. QED  BY <2>1 DEF PageIsLinked, Linked, Pages
<1>. QED  BY <1>1, <1>5, <1>6, <1>7, <1>8, <1>9, <1>10 DEF ConvIInv, TurnsAreApart, ReadsAreOlder

-----------------------------------------------------------------------------
(* Messages, branches and what is read of them *)

LEMMA MaxOf ==
  ASSUME NEW S, S \subseteq 0..MaxIds, S # {}
  PROVE  Max(S) \in S /\ \A o \in S : o <= Max(S)
<1>. USE ConversationAssumption
<1>. DEFINE T == {n \in Nat : n <= MaxIds /\ MaxIds - n \in S}
<1>1. T \in SUBSET Nat /\ T # {}
  <2>1. PICK o \in S : TRUE
    OBVIOUS
  <2>2. MaxIds - o \in Nat /\ MaxIds - (MaxIds - o) = o /\ MaxIds - o <= MaxIds
    BY <2>1
  <2>. QED  BY <2>1, <2>2
<1>2. PICK n \in T : \A y \in T : n <= y
  <2>. HIDE DEF T
  <2>. QED  BY <1>1, LeastOf
<1>3. ASSUME NEW o \in S PROVE o <= MaxIds - n
  <2>1. MaxIds - o \in T
    BY <1>3
  <2>2. n <= MaxIds - o
    BY <1>2, <2>1
  <2>. QED  BY <1>2, <2>2
<1>4. MaxIds - n \in S
  BY <1>2
<1>5. Max(S) = CHOOSE x \in S : \A y \in S : x >= y
  BY DEF Max
<1>6. \A o \in S : MaxIds - n >= o
  BY <1>2, <1>3
<1>7. Max(S) \in S /\ \A y \in S : Max(S) >= y
  BY <1>4, <1>5, <1>6
<1>. QED  BY <1>7

\* The deepest message of a tree that has one.
LEMMA DeepestIsStored == ASSUME Tree, DOMAIN rows # {} PROVE Deepest \in DOMAIN rows
<1>. USE ConversationAssumption
<1>. DEFINE depths == {rows[m].depth : m \in DOMAIN rows}
            d == Max(depths)
            bottom == {m \in DOMAIN rows : rows[m].depth = d}
            tip == Max(bottom)
<1>1. depths \subseteq 0..MaxIds /\ depths # {}
  BY DEF Tree, MessageRow
<1>2. d \in depths /\ \A o \in depths : o <= d
  <2>. HIDE DEF depths
  <2>. QED  BY <1>1, MaxOf
<1>3. bottom \subseteq 0..MaxIds /\ bottom # {}
  <2>. HIDE DEF d
  <2>. QED  BY <1>2 DEF Tree, Ids
<1>4. tip \in bottom /\ \A o \in bottom : o <= tip
  <2>. HIDE DEF bottom
  <2>. QED  BY <1>3, MaxOf
<1>5. tip \in DOMAIN rows /\ rows[tip].depth = d
  BY <1>4
<1>6. \A o \in DOMAIN rows : rows[o].depth \in 0..MaxIds /\ rows[o].depth <= d
  <2>. HIDE DEF d
  <2>. QED  BY <1>1, <1>2
<1>7. d \in 0..MaxIds
  BY <1>1, <1>2
<1>. HIDE DEF d, tip
<1>8. \A o \in DOMAIN rows : \/ rows[o].depth < rows[tip].depth
                             \/ rows[o].depth = rows[tip].depth /\ o <= tip
  BY <1>4, <1>5, <1>6, <1>7
<1>. QED  BY <1>5, <1>8 DEF Deepest

LEMMA TipIsStored ==
  ASSUME Tree, NEW from
  PROVE  LET tip == LoadActivePath(from)
         IN /\ tip = 0 \/ tip \in DOMAIN rows
            /\ from \in DOMAIN rows => tip = from
<1>1. 0 \notin DOMAIN rows
  BY DEF Tree, Ids
<1>. QED  BY <1>1, DeepestIsStored DEF LoadActivePath

\* The newest of some messages are the upper part of them.
LEMMA NewestAreAbove ==
  ASSUME NEW S \in SUBSET Ids, NEW n \in Nat, NEW o \in Newest(S, n), NEW m \in S, o <= m
  PROVE  m \in Newest(S, n)
<1>. USE ConversationAssumption
<1>. DEFINE above(x) == {y \in S : y > x}
<1>1. o \in Ids /\ m \in Ids /\ o \in S
  BY DEF Newest
<1>2. above(m) \subseteq above(o)
  <2>1. \A y \in S : y \in Nat
    BY DEF Ids
  <2>2. o \in Nat /\ m \in Nat
    BY <1>1, <2>1
  <2>3. \A y \in S : y > m => y > o
    BY <2>1, <2>2
  <2>. QED  BY <2>3
<1>3. IsFiniteSet(Ids)
  BY FS_Interval DEF Ids
<1>4. IsFiniteSet(above(o))
  <2>1. above(o) \subseteq Ids
    OBVIOUS
  <2>. QED  BY <1>3, <2>1, FS_Subset
<1>5. Cardinality(above(m)) <= Cardinality(above(o)) /\ Cardinality(above(o)) \in Nat
      /\ Cardinality(above(m)) \in Nat
  <2>1. IsFiniteSet(above(m))
    BY <1>2, <1>4, FS_Subset
  <2>. HIDE DEF above
  <2>. QED  BY <1>2, <1>4, <2>1, FS_Subset, FS_CardinalityType
<1>6. Cardinality(above(o)) < n
  BY DEF Newest
<1>7. Cardinality(above(m)) < n
  <2>. HIDE DEF above
  <2>. QED  BY <1>5, <1>6
<1>. QED  BY <1>7 DEF Newest

-----------------------------------------------------------------------------
(* What was read stays true while newer messages are stored and rewritten *)

\* Stored messages stay where they are; those up to h, and their texts, are what they were.
Grows ==
  /\ DOMAIN rows \subseteq DOMAIN rows'
  /\ \A m \in DOMAIN rows : rows'[m].parent = rows[m].parent /\ rows'[m].depth = rows[m].depth

Old(h) ==
  \A m \in 1..h : /\ m \in DOMAIN rows' => m \in DOMAIN rows
                  /\ m \in DOMAIN rows => rows'[m].text = rows[m].text

LEMMA OldBranch ==
  ASSUME Tree, Tree', Grows, NEW h \in 0..MaxIds, Old(h)
  PROVE  /\ Branch(h)' = Branch(h)
         /\ h \in DOMAIN rows' => h \in DOMAIN rows
         /\ \A m \in Branch(h) : HasText(m)' <=> HasText(m)
<1>1. SameBelow(h)
  BY DEF SameBelow, Old, Grows, Tree, Ids
<1>2. Branch(h)' = Branch(h)
  BY <1>1, BranchStays
<1>3. h \in DOMAIN rows' => h \in DOMAIN rows
  BY ConversationAssumption DEF Old, Tree, Ids
<1>4. ASSUME NEW m \in Branch(h) PROVE HasText(m)' <=> HasText(m)
  <2>1. h \in DOMAIN rows
    BY <1>4, BranchIs DEF BranchesUnfold
  <2>2. m \in DOMAIN rows /\ m \in 1..h
    BY <1>4, <2>1, BranchesNest DEF Tree, Ids
  <2>. QED  BY <2>2 DEF Old, HasText
<1>. QED  BY <1>2, <1>3, <1>4

LEMMA CoversStay ==
  ASSUME Tree, Tree', Grows, NEW a \in 0..MaxIds, Old(a), NEW covers, Covers(a, covers)
  PROVE  Covers(a, covers)'
BY OldBranch DEF Covers

\* What a calm turn read, if it still is one, is what it was.
Remembers ==
  \A t \in CTurns : turn'[t].calm =>
    /\ turn[t].calm /\ turn'[t].parent = turn[t].parent
    /\ turn'[t].depth = turn[t].depth /\ turn'[t].sent = turn[t].sent
    /\ turn'[t].room = turn[t].room /\ turn'[t].given = turn[t].given
    /\ turn'[t].stray = turn[t].stray

LEMMA TurnsStay ==
  ASSUME ConvIInv, Tree', Grows, Remembers, \A t \in CTurns : turn[t].calm => Old(turn[t].parent)
  PROVE  CalmTurnsContinueTheirBranch'
<1>. USE DEF ConvIInv
<1>1. ASSUME NEW t \in CTurns, NEW p, NEW depth, NEW sent, NEW room, NEW given, turn'[t].calm,
             ~turn'[t].stray, p = turn'[t].parent, depth = turn'[t].depth, sent = turn'[t].sent,
             room = turn'[t].room, given = turn'[t].given
      PROVE  /\ depth = IF p \in DOMAIN rows' THEN rows'[p].depth + 1 ELSE 0
             /\ sent \subseteq Branch(p)'
             /\ room => \A m \in Branch(p)' : HasText(m)' => m \in sent \cup given
  <2>1. /\ turn[t].calm /\ ~turn[t].stray /\ Old(p) /\ p = turn[t].parent
        /\ depth = turn[t].depth /\ sent = turn[t].sent /\ room = turn[t].room
        /\ given = turn[t].given
    BY <1>1 DEF Remembers
  <2>2. p \in 0..MaxIds
    BY <2>1 DEF ConvTypes, Turns
  <2>3. /\ depth = IF p \in DOMAIN rows THEN rows[p].depth + 1 ELSE 0
        /\ sent \subseteq Branch(p)
        /\ room => \A m \in Branch(p) : HasText(m) => m \in sent \cup given
    BY <2>1 DEF CalmTurnsContinueTheirBranch, ContinuesItsBranch
  <2>4. /\ Branch(p)' = Branch(p)
        /\ p \in DOMAIN rows' <=> p \in DOMAIN rows
        /\ \A m \in Branch(p) : HasText(m)' <=> HasText(m)
    BY <2>1, <2>2, OldBranch DEF Grows
  <2>. QED  BY <2>3, <2>4 DEF Grows
<1>2. ASSUME NEW t \in CTurns, turn'[t].calm, ~turn'[t].stray
      PROVE  ContinuesItsBranch(t)'
  <2>1. PICK p, depth, sent, room, given :
          /\ p = turn'[t].parent /\ depth = turn'[t].depth /\ sent = turn'[t].sent
          /\ room = turn'[t].room /\ given = turn'[t].given
    OBVIOUS
  <2>2. Branch(turn[t].parent)' = Branch(p)'
    BY <2>1 DEF Branch
  <2>. QED  BY <1>1, <1>2, <2>1, <2>2 DEF ContinuesItsBranch
<1>. QED  BY <1>2 DEF CalmTurnsContinueTheirBranch

LEMMA NotesStay ==
  ASSUME ConvIInv, Tree', Grows, UNCHANGED <<notes, compaction>>,
         notes.calm => Old(notes.anchor),
         \A k \in Compactors : compaction[k].calm => Old(compaction[k].anchor)
  PROVE  NotesAreCalm'
<1>. USE DEF ConvIInv
<1>1. ASSUME NEW a \in 0..MaxIds, NEW covers, Old(a), Covers(a, covers) PROVE Covers(a, covers)'
  BY <1>1, CoversStay
<1>2. ASSUME NEW a, NEW covers, a = notes.anchor, covers = Replaced(notes), notes.calm
      PROVE  Covers(a, covers)'
  BY <1>1, <1>2 DEF NotesAreCalm, ConvTypes, Notes
<1>3. ASSUME NEW k \in Compactors, NEW a, NEW covers, a = compaction[k].anchor,
             covers = Replaced(compaction[k]), compaction[k].calm
      PROVE  Covers(a, covers)'
  BY <1>1, <1>3 DEF NotesAreCalm, ConvTypes, Compactions
<1>. QED  BY <1>2, <1>3 DEF NotesAreCalm, Replaced

LEMMA PageStays ==
  ASSUME ConvIInv, Tree', Grows, UNCHANGED page, page.calm /\ page.got # <<>> => Old(page.got[1])
  PROVE  PageIsLinked'
<1>. USE DEF ConvIInv
<1>0. page.got \in Seq(DOMAIN rows)
      /\ \A i \in 1..Len(page.got) - 1 : page.got[i] = rows[page.got[i + 1]].parent
  BY DEF PageIsLinked, Linked
<1>1. Len(page.got) \in Nat /\ \A i \in 1..Len(page.got) : page.got[i] \in DOMAIN rows
  BY <1>0, LenProperties
<1>2. page.got \in Seq(DOMAIN rows')
  <2>1. \A i \in 1..Len(page.got) : page.got[i] \in DOMAIN rows'
    BY <1>1 DEF Grows
  <2>. QED  BY <1>0, <1>1, <2>1
<1>3. \A i \in 1..Len(page.got) - 1 : page.got[i] = rows'[page.got[i + 1]].parent
  BY <1>0, <1>1 DEF Grows
<1>4. Linked(page.got)'
  BY <1>2, <1>3 DEF Linked
<1>5. page.got # <<>> => page.got[1] \in DOMAIN rows
  BY <1>0, <1>1, EmptySeq, SeqEqual
<1>6. page.calm /\ page.got # <<>> /\ page.next = 0 => rows'[page.got[1]].parent \notin DOMAIN rows'
  <2>. SUFFICES ASSUME page.calm, page.got # <<>>, page.next = 0
                PROVE  rows'[page.got[1]].parent \notin DOMAIN rows'
    OBVIOUS
  <2>. DEFINE g == page.got[1]
  <2>1. g \in DOMAIN rows /\ rows[g].parent \notin DOMAIN rows /\ Old(g)
    BY <1>5 DEF PageIsLinked
  <2>. HIDE DEF g
  <2>2. rows'[g].parent = rows[g].parent /\ rows[g].parent < g /\ rows[g].parent \in 0..MaxIds
        /\ g \in Nat
    BY <2>1, ConversationAssumption DEF Grows, Tree, Ids, MessageRow
  <2>3. 0 \notin DOMAIN rows'
    BY DEF Tree, Ids
  <2>4. rows[g].parent = 0 \/ rows[g].parent \in 1..g
    BY <2>2, ConversationAssumption
  <2>. QED  BY <2>1, <2>2, <2>3, <2>4 DEF Old, g
<1>. QED  BY <1>4, <1>5, <1>6 DEF PageIsLinked, Grows

\* Nothing is stored: what was read stays true as far as it is kept.
LEMMA QuietReadsStay ==
  ASSUME ConvIInv, UNCHANGED rows
  PROVE  /\ Tree'
         /\ Remembers => CalmTurnsContinueTheirBranch'
         /\ UNCHANGED <<notes, compaction>> => NotesAreCalm'
         /\ UNCHANGED page => PageIsLinked'
         /\ \A h \in 0..MaxIds : Branch(h)' = Branch(h)
         /\ \A a \in 0..MaxIds : \A covers : Covers(a, covers) => Covers(a, covers)'
<1>1. Tree' /\ Grows /\ \A h : Old(h)
  BY DEF ConvIInv, Tree, Grows, Old
<1>2. ASSUME NEW h \in 0..MaxIds PROVE Branch(h)' = Branch(h)
  BY <1>1, OldBranch DEF ConvIInv
<1>3. ASSUME NEW a \in 0..MaxIds, NEW covers, Covers(a, covers) PROVE Covers(a, covers)'
  BY <1>1, <1>3, CoversStay DEF ConvIInv
<1>4. Remembers => CalmTurnsContinueTheirBranch'
  BY <1>1, TurnsStay
<1>5. UNCHANGED <<notes, compaction>> => NotesAreCalm'
  BY <1>1, NotesStay
<1>6. UNCHANGED page => PageIsLinked'
  BY <1>1, PageStays
<1>. QED  BY <1>1, <1>2, <1>3, <1>4, <1>5, <1>6

-----------------------------------------------------------------------------
(* The actions of a turn *)

\* A step that only settles turns, or leaves them: none is unsettled that was not.
Settles ==
  \A u \in Unsettled' : /\ u \in Unsettled /\ turn'[u].user = turn[u].user
                        /\ turn'[u].parent = turn[u].parent /\ turn'[u].depth = turn[u].depth

LEMMA SettlingKeeps ==
  ASSUME ConvIInv, Settles, Remembers, UNCHANGED <<nextId, notes, compaction, page>>,
         \A m : m \in DOMAIN rows' <=> m \in DOMAIN rows
  PROVE  TurnsAreApart' /\ ReadsAreOlder'
<1>1. TurnsAreApart'
  BY DEF ConvIInv, Settles, TurnsAreApart, Reply
<1>2. ReadsAreOlder'
  BY DEF ConvIInv, Settles, Remembers, ReadsAreOlder
<1>. QED  BY <1>1, <1>2

\* The turn is over, or was never begun: nothing is remembered of it.
OverTurn == [NoTurn EXCEPT !.stage = "over"]

LEMMA OverIs ==
  OverTurn \in Turns /\ OverTurn.stage = "over" /\ ~OverTurn.calm
  /\ OverTurn.parent = 0 /\ OverTurn.depth = 0
<1>1. NoTurn \in Turns /\ NoTurn.stage = "idle" /\ ~NoTurn.calm /\ NoTurn.parent = 0 /\ NoTurn.depth = 0
  BY ConversationAssumption DEF NoTurn, Turns
<1>. HIDE DEF NoTurn
<1>. QED  BY <1>1 DEF OverTurn, Turns

LEMMA OverKeeps ==
  ASSUME ConvIInv, NEW t \in CTurns, turn' = [turn EXCEPT ![t] = OverTurn]
  PROVE  /\ turn' \in [CTurns -> Turns] /\ Settles /\ Remembers
         /\ \A u \in CTurns : turn'[u].parent < nextId /\ turn'[u].depth < nextId
<1>1. turn \in [CTurns -> Turns] /\ nextId \in 1..MaxIds + 1
      /\ \A u \in CTurns : turn[u].parent < nextId /\ turn[u].depth < nextId
  BY DEF ConvIInv, ConvTypes, IdsAreIssued
<1>. HIDE DEF OverTurn
<1>2. turn' \in [CTurns -> Turns]
  BY <1>1, OverIs
<1>3. \A u \in CTurns : turn'[u] = IF u = t THEN OverTurn ELSE turn[u]
  BY <1>1
<1>. QED  BY <1>1, <1>2, <1>3, OverIs DEF Settles, Remembers, Unsettled

LEMMA RefusedKeeps == ASSUME ConvIInv, NEW t \in CTurns, Refused(t) PROVE ConvIInv'
<1>1. turn' = [turn EXCEPT ![t] = OverTurn] /\ UNCHANGED <<rows, leaf, notes, running, nextId, compaction, page>>
  BY DEF Refused, OverTurn
<1>2. /\ turn' \in [CTurns -> Turns] /\ Settles /\ Remembers
      /\ \A u \in CTurns : turn'[u].parent < nextId /\ turn'[u].depth < nextId
  BY <1>1, OverKeeps
<1>3. TurnsAreApart' /\ ReadsAreOlder'
  BY <1>1, <1>2, SettlingKeeps
<1>4. ConvTypes' /\ IdsAreIssued'
  BY <1>1, <1>2 DEF ConvIInv, ConvTypes, IdsAreIssued
<1>5. Tree' /\ CalmTurnsContinueTheirBranch' /\ NotesAreCalm' /\ PageIsLinked'
  BY <1>1, <1>2, QuietReadsStay
<1>. QED  BY <1>3, <1>4, <1>5 DEF ConvIInv

LEMMA FinalizeFailsKeeps == ASSUME ConvIInv, NEW t \in CTurns, FinalizeFails(t) PROVE ConvIInv'
<1>1. /\ turn' = [turn EXCEPT ![t] = OverTurn] /\ UNCHANGED <<rows, leaf, notes, nextId, compaction, page>>
      /\ running' = IF running = t THEN None ELSE running
  BY DEF FinalizeFails, Over, OverTurn
<1>2. /\ turn' \in [CTurns -> Turns] /\ Settles /\ Remembers
      /\ \A u \in CTurns : turn'[u].parent < nextId /\ turn'[u].depth < nextId
  BY <1>1, OverKeeps
<1>3. TurnsAreApart' /\ ReadsAreOlder'
  BY <1>1, <1>2, SettlingKeeps
<1>4. ConvTypes' /\ IdsAreIssued'
  BY <1>1, <1>2 DEF ConvIInv, ConvTypes, IdsAreIssued
<1>5. Tree' /\ CalmTurnsContinueTheirBranch' /\ NotesAreCalm' /\ PageIsLinked'
  BY <1>1, <1>2, QuietReadsStay
<1>. QED  BY <1>3, <1>4, <1>5 DEF ConvIInv

LEMMA EndsKeeps == ASSUME ConvIInv, NEW t \in CTurns, Ends(t) PROVE ConvIInv'
<1>1. /\ turn' = [turn EXCEPT ![t].stage = "finalizing"] /\ turn[t].stage = "running"
      /\ UNCHANGED <<rows, leaf, notes, running, nextId, compaction, page>>
  BY DEF Ends
<1>2. turn \in [CTurns -> Turns] /\ \A u \in CTurns : turn[u].parent < nextId /\ turn[u].depth < nextId
  BY DEF ConvIInv, ConvTypes, IdsAreIssued
<1>3. turn' \in [CTurns -> Turns]
  BY <1>1, <1>2 DEF Turns
<1>4. \A u \in CTurns :
        /\ turn'[u].stage = IF u = t THEN "finalizing" ELSE turn[u].stage
        /\ turn'[u].calm = turn[u].calm /\ turn'[u].parent = turn[u].parent
        /\ turn'[u].depth = turn[u].depth /\ turn'[u].sent = turn[u].sent
        /\ turn'[u].room = turn[u].room /\ turn'[u].given = turn[u].given
        /\ turn'[u].stray = turn[u].stray
        /\ turn'[u].user = turn[u].user
  BY <1>1, <1>2 DEF Turns
<1>5. Settles /\ Remembers
  BY <1>1, <1>4 DEF Settles, Remembers, Unsettled
<1>6. TurnsAreApart' /\ ReadsAreOlder'
  BY <1>1, <1>5, SettlingKeeps
<1>7. ConvTypes' /\ IdsAreIssued'
  BY <1>1, <1>2, <1>3, <1>4 DEF ConvIInv, ConvTypes, IdsAreIssued
<1>8. Tree' /\ CalmTurnsContinueTheirBranch' /\ NotesAreCalm' /\ PageIsLinked'
  BY <1>1, <1>5, QuietReadsStay
<1>. QED  BY <1>6, <1>7, <1>8 DEF ConvIInv

LEMMA EndsEarlyKeeps == ASSUME ConvIInv, NEW t \in CTurns, EndsEarly(t) PROVE ConvIInv'
<1>1. running' = None /\ UNCHANGED <<rows, leaf, notes, turn, nextId, compaction, page>>
  BY DEF EndsEarly
<1>2. Settles /\ Remembers
  BY <1>1 DEF Settles, Remembers, Unsettled
<1>3. TurnsAreApart' /\ ReadsAreOlder'
  BY <1>1, <1>2, SettlingKeeps
<1>4. ConvTypes' /\ IdsAreIssued'
  BY <1>1 DEF ConvIInv, ConvTypes, IdsAreIssued
<1>5. Tree' /\ CalmTurnsContinueTheirBranch' /\ NotesAreCalm' /\ PageIsLinked'
  BY <1>1, <1>2, QuietReadsStay
<1>. QED  BY <1>3, <1>4, <1>5 DEF ConvIInv

\* Everything that is stored or referred to was allocated before the two ids of this turn.
LEMMA BeginsKeeps == ASSUME ConvIInv, NEW t \in CTurns, Begins(t) PROVE ConvIInv'
<1>. USE ConversationAssumption
<1>1. /\ turn' = [turn EXCEPT ![t].stage = "running", ![t].user = nextId] /\ turn[t].stage = "ready"
      /\ running' = t /\ nextId' = nextId + 2 /\ nextId + 1 <= MaxIds
      /\ UNCHANGED <<rows, leaf, notes, compaction, page>>
  BY DEF Begins
<1>2. /\ turn \in [CTurns -> Turns] /\ nextId \in 1..MaxIds + 1 /\ nextId \in 0..MaxIds
      /\ \A u \in CTurns : /\ turn[u].parent < nextId /\ turn[u].depth < nextId
                           /\ turn[u].parent \in Nat /\ turn[u].depth \in Nat /\ turn[u].user \in Nat
  BY <1>1 DEF ConvIInv, ConvTypes, IdsAreIssued, Turns
<1>3. PICK mid : mid = [turn EXCEPT ![t].stage = "running"]
  OBVIOUS
<1>. DEFINE Same(f, g) == f.calm = g.calm /\ f.parent = g.parent /\ f.depth = g.depth
                          /\ f.sent = g.sent /\ f.room = g.room /\ f.given = g.given
                          /\ f.stray = g.stray
<1>31. /\ mid \in [CTurns -> Turns]
       /\ \A u \in CTurns : /\ mid[u].stage = IF u = t THEN "running" ELSE turn[u].stage
                            /\ Same(mid[u], turn[u]) /\ mid[u].user = turn[u].user
  BY <1>2, <1>3 DEF Turns
<1>32. turn' = [mid EXCEPT ![t].user = nextId]
  BY <1>1, <1>2, <1>3
<1>33. /\ turn' \in [CTurns -> Turns]
       /\ \A u \in CTurns : /\ turn'[u].user = IF u = t THEN nextId ELSE mid[u].user
                            /\ Same(turn'[u], mid[u]) /\ turn'[u].stage = mid[u].stage
  BY <1>2, <1>31, <1>32 DEF Turns
<1>4. /\ turn' \in [CTurns -> Turns]
      /\ \A u \in CTurns : /\ turn'[u].user = IF u = t THEN nextId ELSE turn[u].user
                           /\ Same(turn'[u], turn[u])
                           /\ turn'[u].stage = IF u = t THEN "running" ELSE turn[u].stage
  BY <1>31, <1>33
<1>5. Remembers
  BY <1>4 DEF Remembers
<1>6. \A u \in Unsettled' : u = t \/ (u \in Unsettled /\ u # t)
  <2>1. \A u \in CTurns : turn'[u].stage \in {"running", "finalizing"} /\ u # t
          => turn[u].stage \in {"running", "finalizing"}
    BY <1>4
  <2>. QED  BY <2>1 DEF Unsettled
<1>7. \A m \in DOMAIN rows : m \in Nat /\ m < nextId
  BY DEF ConvIInv, Tree, Ids, IdsAreIssued
<1>8. TurnsAreApart'
  <2>1. \A u \in Unsettled : u \in CTurns /\ turn[u].user + 1 < nextId
    BY DEF ConvIInv, TurnsAreApart, Reply, Unsettled
  <2>2. \A u \in Unsettled' :
          /\ turn'[u].user > turn'[u].parent /\ turn'[u].user > turn'[u].depth
          /\ turn'[u].user + 1 < nextId'
          /\ turn'[u].user \in DOMAIN rows <=> turn'[u].user + 1 \in DOMAIN rows
    BY <1>1, <1>2, <1>4, <1>6, <1>7, <2>1 DEF ConvIInv, TurnsAreApart, Reply, Unsettled
  <2>3. \A u, v \in Unsettled' : u # v => turn'[u].user # turn'[v].user /\ turn'[u].user + 1 # turn'[v].user
    BY <1>1, <1>2, <1>4, <1>6, <2>1 DEF ConvIInv, TurnsAreApart, Reply, Unsettled
  <2>. QED  BY <1>1, <2>2, <2>3 DEF TurnsAreApart, Reply
<1>9. ReadsAreOlder'
  <2>1. page.got # <<>> => page.got[1] \in DOMAIN rows
    BY EmptySeq, LenProperties, SeqEqual DEF ConvIInv, PageIsLinked, Linked
  <2>2. notes.anchor < nextId /\ \A k \in Compactors : compaction[k].anchor < nextId
    BY DEF ConvIInv, IdsAreIssued
  <2>3. \A u \in Unsettled' : turn'[u].user = nextId \/ (u \in Unsettled /\ turn'[u].user = turn[u].user)
    BY <1>4, <1>6 DEF Unsettled
  <2>4. ASSUME NEW u \in Unsettled', turn'[u].user = nextId
        PROVE  /\ \A v \in CTurns : turn'[v].calm => turn'[u].user > turn'[v].parent
               /\ \A k \in Compactors : compaction[k].calm => turn'[u].user > compaction[k].anchor
               /\ notes.calm => turn'[u].user > notes.anchor
               /\ page.calm /\ page.got # <<>> => turn'[u].user > page.got[1]
    <3>1. \A n \in Int : n < nextId => turn'[u].user > n
      BY <1>2, <2>4
    <3>2. notes.anchor \in Int /\ \A k \in Compactors : compaction[k].anchor \in Int
      BY DEF ConvIInv, ConvTypes, Notes, Compactions
    <3>. QED  BY <1>2, <1>4, <1>7, <2>1, <2>2, <3>1, <3>2
  <2>5. ASSUME NEW u \in Unsettled', u \in Unsettled, turn'[u].user = turn[u].user
        PROVE  /\ \A v \in CTurns : turn'[v].calm => turn'[u].user > turn'[v].parent
               /\ \A k \in Compactors : compaction[k].calm => turn'[u].user > compaction[k].anchor
               /\ notes.calm => turn'[u].user > notes.anchor
               /\ page.calm /\ page.got # <<>> => turn'[u].user > page.got[1]
    BY <1>4, <2>5 DEF ConvIInv, ReadsAreOlder
  <2>. QED  BY <1>1, <2>3, <2>4, <2>5 DEF ReadsAreOlder
<1>10. ConvTypes' /\ IdsAreIssued'
  <2>1. ConvTypes'
    BY <1>1, <1>2, <1>4 DEF ConvIInv, ConvTypes
  <2>2. \A n \in Int : n < nextId => n < nextId'
    BY <1>1, <1>2
  <2>3. notes.anchor \in Int /\ \A k \in Compactors : compaction[k].anchor \in Int
    BY DEF ConvIInv, ConvTypes, Notes, Compactions
  <2>4. IdsAreIssued'
    BY <1>1, <1>2, <1>4, <1>7, <2>2, <2>3 DEF ConvIInv, IdsAreIssued
  <2>. QED  BY <2>1, <2>4
<1>11. Tree' /\ CalmTurnsContinueTheirBranch' /\ NotesAreCalm' /\ PageIsLinked'
  BY <1>1, <1>5, QuietReadsStay
<1>. QED  BY <1>8, <1>9, <1>10, <1>11 DEF ConvIInv

\* A step of a turn that changes rows from its own two messages on.
LEMMA StoringKeeps ==
  ASSUME ConvIInv, Tree', Grows, Settles, Remembers, NEW t \in Unsettled,
         UNCHANGED <<notes, compaction, page>>, \A h \in 0..turn[t].user - 1 : Old(h)
  PROVE  CalmTurnsContinueTheirBranch' /\ NotesAreCalm' /\ PageIsLinked'
<1>. USE ConversationAssumption
<1>1. t \in CTurns /\ turn[t].user \in Nat
  BY DEF ConvIInv, ConvTypes, Turns, Unsettled
<1>2. \A h \in Nat : turn[t].user > h => Old(h)
  BY <1>1
<1>3. \A u \in CTurns : turn[u].calm => Old(turn[u].parent)
  BY <1>2 DEF ConvIInv, ConvTypes, Turns, ReadsAreOlder
<1>4. notes.calm => Old(notes.anchor)
  BY <1>2 DEF ConvIInv, ConvTypes, Notes, ReadsAreOlder
<1>5. \A k \in Compactors : compaction[k].calm => Old(compaction[k].anchor)
  BY <1>2 DEF ConvIInv, ConvTypes, Compactions, ReadsAreOlder
<1>6. page.calm /\ page.got # <<>> => Old(page.got[1])
  <2>1. page.got # <<>> => page.got[1] \in DOMAIN rows
    BY EmptySeq, LenProperties, SeqEqual DEF ConvIInv, PageIsLinked, Linked
  <2>. QED  BY <1>2, <2>1 DEF ConvIInv, ReadsAreOlder, Tree, Ids
<1>. QED  BY <1>3, <1>4, <1>5, <1>6, TurnsStay, NotesStay, PageStays

LEMMA InsertsKeeps == ASSUME ConvIInv, NEW t \in CTurns, Inserts(t) PROVE ConvIInv'
<1>. USE ConversationAssumption
<1>1. PICK u : u = turn[t].user
  OBVIOUS
<1>2. PICK user, reply :
        /\ user = [parent |-> turn[t].parent, depth |-> turn[t].depth, role |-> "user",
                   text |-> "whole", settled |-> TRUE]
        /\ reply = [parent |-> u, depth |-> turn[t].depth + 1, role |-> "assistant",
                    text |-> "none", settled |-> FALSE]
  OBVIOUS
<1>3. /\ rows' = [m \in DOMAIN rows \cup {u, u + 1} |->
                   IF m = u THEN user ELSE IF m = u + 1 THEN reply ELSE rows[m]]
      /\ u \notin DOMAIN rows
      /\ UNCHANGED <<leaf, notes, running, turn, nextId, compaction, page>>
  BY <1>1, <1>2 DEF Inserts, Reply, Stored
<1>4. t \in Unsettled
  BY DEF Inserts, Unsettled
<1>5. /\ u \in Nat /\ u + 1 < nextId /\ nextId \in 1..MaxIds + 1 /\ turn[t].parent \in 0..MaxIds
      /\ turn[t].depth \in 0..MaxIds /\ turn[t].parent < u /\ turn[t].depth < u
      /\ u + 1 \notin DOMAIN rows
  BY <1>1, <1>3, <1>4 DEF ConvIInv, ConvTypes, Turns, TurnsAreApart, Reply
<1>6. user \in MessageRow /\ reply \in MessageRow
  BY <1>2, <1>5 DEF MessageRow
<1>7. /\ user.parent = turn[t].parent /\ user.depth = turn[t].depth
      /\ reply.parent = u /\ reply.depth = turn[t].depth + 1
  BY <1>2
<1>8. /\ DOMAIN rows' = DOMAIN rows \cup {u, u + 1}
      /\ \A m \in DOMAIN rows : rows'[m] = rows[m]
      /\ rows'[u] = user /\ rows'[u + 1] = reply
  BY <1>3, <1>5
<1>9. Tree'
  <2>1. DOMAIN rows' \subseteq Ids
    BY <1>5, <1>8 DEF ConvIInv, Tree, Ids
  <2>2. \A m \in DOMAIN rows' : rows'[m] \in MessageRow /\ rows'[m].parent < m /\ rows'[m].depth < m
    BY <1>5, <1>6, <1>7, <1>8 DEF ConvIInv, Tree
  <2>3. rows' \in [DOMAIN rows' -> MessageRow]
    BY <1>3, <2>2
  <2>. QED  BY <2>1, <2>2, <2>3 DEF Tree
<1>10. Grows
  BY <1>8 DEF Grows
<1>11. \A h \in 0..turn[t].user - 1 : Old(h)
  BY <1>1, <1>5, <1>8 DEF Old
<1>12. Settles /\ Remembers
  BY <1>3 DEF Settles, Remembers, Unsettled
<1>13. CalmTurnsContinueTheirBranch' /\ NotesAreCalm' /\ PageIsLinked'
  BY <1>3, <1>4, <1>9, <1>10, <1>11, <1>12, StoringKeeps
<1>14. ConvTypes'
  BY <1>3, <1>8 DEF ConvIInv, ConvTypes
<1>15. IdsAreIssued'
  BY <1>3, <1>5, <1>8 DEF ConvIInv, IdsAreIssued
<1>16. TurnsAreApart'
  <2>1. ASSUME NEW v \in Unsettled
        PROVE  turn[v].user \in DOMAIN rows' <=> turn[v].user + 1 \in DOMAIN rows'
    <3>1. v \in CTurns /\ turn[v].user \in Nat
          /\ (turn[v].user \in DOMAIN rows <=> turn[v].user + 1 \in DOMAIN rows)
      BY DEF ConvIInv, ConvTypes, Turns, TurnsAreApart, Reply, Unsettled
    <3>2. CASE v = t
      BY <1>1, <1>8, <3>2
    <3>3. CASE v # t
      <4>1. turn[v].user # u /\ turn[v].user + 1 # u /\ turn[v].user # u + 1
        BY <1>1, <1>4, <3>3 DEF ConvIInv, TurnsAreApart, Reply
      <4>. QED  BY <1>5, <1>8, <3>1, <4>1
    <3>. QED  BY <3>2, <3>3
  <2>. QED  BY <1>3, <2>1 DEF ConvIInv, TurnsAreApart, Reply, Unsettled
<1>17. ReadsAreOlder'
  BY <1>3 DEF ConvIInv, ReadsAreOlder, Unsettled
<1>. QED  BY <1>9, <1>13, <1>14, <1>15, <1>16, <1>17 DEF ConvIInv

\* Rewriting the text of one's own reply.
LEMMA ReplyChanges ==
  ASSUME ConvIInv, NEW t \in Unsettled, Reply(t) \in DOMAIN rows,
         NEW row \in MessageRow, row.parent = rows[Reply(t)].parent, row.depth = rows[Reply(t)].depth,
         rows' = [rows EXCEPT ![Reply(t)] = row]
  PROVE  /\ Tree' /\ Grows /\ DOMAIN rows' = DOMAIN rows
         /\ \A h \in 0..turn[t].user - 1 : Old(h)
<1>. USE ConversationAssumption
<1>1. t \in CTurns /\ turn[t].user \in Nat /\ Reply(t) = turn[t].user + 1
  BY DEF ConvIInv, ConvTypes, Turns, Unsettled, Reply
<1>2. /\ DOMAIN rows' = DOMAIN rows
      /\ \A m \in DOMAIN rows : rows'[m] = IF m = Reply(t) THEN row ELSE rows[m]
  OBVIOUS
<1>3. rows' \in [DOMAIN rows' -> MessageRow]
  BY <1>2 DEF ConvIInv, Tree
<1>4. Tree'
  BY <1>2, <1>3 DEF ConvIInv, Tree
<1>5. Grows
  BY <1>2 DEF Grows
<1>6. \A h \in 0..turn[t].user - 1 : Old(h)
  BY <1>1, <1>2 DEF Old
<1>. QED  BY <1>2, <1>4, <1>5, <1>6

LEMMA FlushesKeeps == ASSUME ConvIInv, NEW t \in CTurns, Flushes(t) PROVE ConvIInv'
<1>1. PICK row : row = [rows[Reply(t)] EXCEPT !.text = "part"]
  OBVIOUS
<1>2. /\ rows' = [rows EXCEPT ![Reply(t)] = row] /\ t \in Unsettled
      /\ UNCHANGED <<leaf, notes, running, turn, nextId, compaction, page>>
  BY <1>1 DEF Flushes, Unsettled
<1>3. Reply(t) \in DOMAIN rows
  BY <1>2 DEF ConvIInv, TurnsAreApart, Flushes, Stored
<1>4. row \in MessageRow /\ row.parent = rows[Reply(t)].parent /\ row.depth = rows[Reply(t)].depth
  BY <1>1, <1>3 DEF ConvIInv, Tree, MessageRow
<1>5. /\ Tree' /\ Grows /\ DOMAIN rows' = DOMAIN rows
      /\ \A h \in 0..turn[t].user - 1 : Old(h)
  BY <1>2, <1>3, <1>4, ReplyChanges
<1>6. Settles /\ Remembers
  BY <1>2 DEF Settles, Remembers, Unsettled
<1>7. CalmTurnsContinueTheirBranch' /\ NotesAreCalm' /\ PageIsLinked'
  BY <1>2, <1>5, <1>6, StoringKeeps
<1>8. TurnsAreApart' /\ ReadsAreOlder'
  BY <1>2, <1>5, <1>6, SettlingKeeps
<1>9. ConvTypes' /\ IdsAreIssued'
  BY <1>2, <1>5 DEF ConvIInv, ConvTypes, IdsAreIssued
<1>. QED  BY <1>5, <1>7, <1>8, <1>9 DEF ConvIInv

LEMMA FinalizesKeeps ==
  ASSUME ConvIInv, NEW t \in CTurns, NEW text \in {"none", "whole"}, Finalizes(t, text)
  PROVE  ConvIInv'
<1>1. PICK part : part = [rows[Reply(t)] EXCEPT !.text = text]
  OBVIOUS
<1>2. PICK row : row = [part EXCEPT !.settled = TRUE]
  OBVIOUS
<1>3. t \in Unsettled /\ Reply(t) \in DOMAIN rows
  BY DEF Finalizes, Unsettled, Stored, ConvIInv, TurnsAreApart
<1>4. part \in MessageRow /\ part.parent = rows[Reply(t)].parent /\ part.depth = rows[Reply(t)].depth
  BY <1>1, <1>3 DEF ConvIInv, Tree, MessageRow
<1>5. row \in MessageRow /\ row.parent = rows[Reply(t)].parent /\ row.depth = rows[Reply(t)].depth
  BY <1>2, <1>4 DEF MessageRow
<1>6. /\ rows' = [rows EXCEPT ![Reply(t)].text = text, ![Reply(t)].settled = TRUE]
      /\ leaf' = Reply(t) /\ turn' = [turn EXCEPT ![t] = OverTurn]
      /\ running' = (IF running = t THEN None ELSE running)
      /\ UNCHANGED <<notes, nextId, compaction, page>>
  BY DEF Finalizes, Over, OverTurn
<1>7. rows' = [rows EXCEPT ![Reply(t)] = row]
  <2>. DEFINE r == Reply(t)
  <2>1. r \in DOMAIN rows
    BY <1>3
  <2>2. PICK once : once = [rows EXCEPT ![r].text = text]
    OBVIOUS
  <2>3. once = [rows EXCEPT ![r] = part] /\ rows' = [once EXCEPT ![r].settled = TRUE]
    BY <1>1, <1>6, <2>2
  <2>. HIDE DEF r
  <2>4. once[r] = part /\ DOMAIN once = DOMAIN rows
    BY <2>1, <2>3
  <2>5. rows' = [once EXCEPT ![r] = row]
    BY <1>2, <2>3, <2>4
  <2>6. rows' = [rows EXCEPT ![r] = row]
    BY <2>3, <2>5
  <2>. QED  BY <2>6 DEF r
<1>8. /\ Tree' /\ Grows /\ DOMAIN rows' = DOMAIN rows
      /\ \A h \in 0..turn[t].user - 1 : Old(h)
  BY <1>3, <1>5, <1>7, ReplyChanges
<1>9. /\ turn' \in [CTurns -> Turns] /\ Settles /\ Remembers
      /\ \A u \in CTurns : turn'[u].parent < nextId /\ turn'[u].depth < nextId
  BY <1>6, OverKeeps
<1>10. CalmTurnsContinueTheirBranch' /\ NotesAreCalm' /\ PageIsLinked'
  BY <1>3, <1>6, <1>8, <1>9, StoringKeeps
<1>11. TurnsAreApart' /\ ReadsAreOlder'
  BY <1>6, <1>8, <1>9, SettlingKeeps
<1>12. ConvTypes'
  BY <1>3, <1>6, <1>8, <1>9 DEF ConvIInv, ConvTypes
<1>13. IdsAreIssued'
  BY <1>6, <1>8, <1>9 DEF ConvIInv, IdsAreIssued
<1>. QED  BY <1>8, <1>10, <1>11, <1>12, <1>13 DEF ConvIInv

\* What notes replace of a branch, they describe.
LEMMA FreshOrCovered ==
  ASSUME ConvIInv, NEW tip \in DOMAIN rows, NEW m \in Branch(tip), HasText(m),
         m \notin Fresh(Branch(tip))
  PROVE  NotesApply(Branch(tip)) /\ (notes.calm => m \in Replaced(notes))
<1>. DEFINE path == Branch(tip)
            a == notes.anchor
<1>1. NotesApply(path) /\ ~(m > a) /\ a \in path \cup {0}
  BY DEF Fresh, NotesApply
<1>2. path \subseteq DOMAIN rows /\ \A b \in path : Branch(b) = {o \in path : o <= b}
  BY BranchesNest DEF ConvIInv
<1>3. m \in Nat /\ m # 0 /\ a \in Nat
  BY <1>2, ConversationAssumption DEF ConvIInv, Tree, Ids, ConvTypes, Notes
<1>4. m <= a /\ a # 0 /\ a \in path
  BY <1>1, <1>3
<1>5. m \in Branch(a)
  BY <1>2, <1>4
<1>6. notes.calm => m \in Replaced(notes)
  BY <1>4, <1>5 DEF ConvIInv, NotesAreCalm, Covers
<1>. QED  BY <1>1, <1>6

LEMMA PrepareKeeps ==
  ASSUME ConvIInv, NEW t \in CTurns, NEW asked \in 0..nextId - 1, NEW fromRoot \in BOOLEAN,
         Prepare(t, asked, fromRoot)
  PROVE  ConvIInv'
<1>. USE ConversationAssumption
<1>1. PICK branch : branch = IF fromRoot THEN 0 ELSE IF asked # 0 THEN asked ELSE leaf
  OBVIOUS
<1>2. PICK tip : tip = IF fromRoot THEN 0 ELSE LoadActivePath(branch)
  OBVIOUS
<1>3. PICK plan : plan = Plan(Branch(tip))
  OBVIOUS
<1>25. PICK found : found = (fromRoot \/ branch \in DOMAIN rows \/ (branch = 0 /\ DOMAIN rows = {}))
  OBVIOUS
<1>4. PICK new : new = [stage |-> "ready", parent |-> branch,
           depth |-> IF tip = 0 THEN 0 ELSE rows[tip].depth + 1,
           sent |-> plan.sent, room |-> plan.room, given |-> plan.given,
           calm |-> Unsettled = {} /\ plan.calm, stray |-> ~found, user |-> 0]
  OBVIOUS
<1>5. /\ turn[t].stage = "idle" /\ turn' = [turn EXCEPT ![t] = new]
      /\ UNCHANGED <<rows, leaf, notes, running, nextId, compaction, page>>
  BY <1>1, <1>2, <1>3, <1>4, <1>25 DEF Prepare
<1>6. 0 \notin DOMAIN rows /\ DOMAIN rows \subseteq Ids /\ nextId \in 1..MaxIds + 1
      /\ \A m \in DOMAIN rows : m < nextId /\ rows[m].depth \in Nat /\ rows[m].depth < m
  BY DEF ConvIInv, Tree, Ids, IdsAreIssued, ConvTypes, MessageRow
<1>7. branch \in 0..MaxIds /\ branch < nextId
  BY <1>1, <1>6 DEF ConvIInv, ConvTypes, Ids
<1>8. (tip = 0 \/ tip \in DOMAIN rows) /\ (branch \in DOMAIN rows => tip = branch)
  BY <1>1, <1>2, <1>6, TipIsStored DEF ConvIInv
<1>. DEFINE path == Branch(tip)
            fresh == Fresh(path)
<1>9. path \subseteq DOMAIN rows
  <2>1. CASE tip = 0
    <3>1. path = {}
      BY <1>6, <2>1, BranchIs DEF ConvIInv, BranchesUnfold
    <3>. QED  BY <3>1
  <2>2. CASE tip \in DOMAIN rows
    BY <2>2, BranchesNest DEF ConvIInv
  <2>. QED  BY <1>8, <2>1, <2>2
<1>10. plan.sent \subseteq fresh /\ plan.room = (plan.sent = fresh)
       /\ plan.given = (IF NotesApply(path) THEN Replaced(notes) ELSE {})
       /\ plan.calm = (NotesApply(path) => notes.calm)
  <2>. DEFINE size == Max({1, Window - (IF NotesApply(path) THEN 1 ELSE 0)})
              kept == Newest(fresh, size)
  <2>1. plan = [sent |-> kept, room |-> kept = fresh,
                given |-> IF NotesApply(path) THEN Replaced(notes) ELSE {},
                calm |-> NotesApply(path) => notes.calm]
    BY <1>3 DEF Plan
  <2>2. kept \subseteq fresh
    BY DEF Newest
  <2>. HIDE DEF kept, fresh, path
  <2>. QED  BY <2>1, <2>2
<1>11. fresh \subseteq path
  BY DEF Fresh
<1>12. new \in Turns
  <2>1. plan.sent \subseteq Ids /\ plan.given \subseteq Ids /\ plan.room \in BOOLEAN /\ plan.calm \in BOOLEAN
    <3>1. Replaced(notes) \subseteq Ids /\ notes.calm \in BOOLEAN
      BY DEF ConvIInv, ConvTypes, Notes, Replaced
    <3>. HIDE DEF path, fresh
    <3>. QED  BY <1>6, <1>9, <1>10, <1>11, <3>1
  <2>2. (IF tip = 0 THEN 0 ELSE rows[tip].depth + 1) \in 0..MaxIds
    BY <1>6, <1>8 DEF Ids
  <2>3. (Unsettled = {} /\ plan.calm) \in BOOLEAN /\ (~found) \in BOOLEAN
    OBVIOUS
  <2>4. 0 \in 0..MaxIds
    OBVIOUS
  <2>. HIDE DEF path, fresh
  <2>. QED  BY <1>4, <1>7, <2>1, <2>2, <2>3, <2>4 DEF Turns
<1>13. turn' \in [CTurns -> Turns] /\ \A u \in CTurns : turn'[u] = IF u = t THEN new ELSE turn[u]
  BY <1>5, <1>12 DEF ConvIInv, ConvTypes
<1>14. new.stage = "ready" /\ new.parent = branch /\ new.depth = (IF tip = 0 THEN 0 ELSE rows[tip].depth + 1)
       /\ new.sent = plan.sent /\ new.room = plan.room /\ new.given = plan.given
       /\ new.calm = (Unsettled = {} /\ plan.calm) /\ new.stray = ~found
  BY <1>4
<1>15. new.depth < nextId
  BY <1>6, <1>8, <1>14 DEF Ids
<1>. HIDE DEF path, fresh
<1>16. ConvTypes' /\ IdsAreIssued'
  BY <1>5, <1>7, <1>13, <1>14, <1>15 DEF ConvIInv, ConvTypes, IdsAreIssued
<1>17. \A u \in CTurns : u \in Unsettled' => u # t /\ u \in Unsettled
  <2>1. \A u \in CTurns : turn'[u].stage \in {"running", "finalizing"}
          => u # t /\ turn[u].stage \in {"running", "finalizing"}
    BY <1>13, <1>14
  <2>. QED  BY <2>1 DEF Unsettled
<1>18. \A u \in Unsettled' : u \in CTurns /\ u \in Unsettled /\ turn'[u] = turn[u]
  BY <1>13, <1>17 DEF Unsettled
<1>19. TurnsAreApart'
  BY <1>5, <1>18 DEF ConvIInv, TurnsAreApart, Reply
<1>20. ReadsAreOlder'
  <2>1. new.calm => Unsettled' = {}
    BY <1>14, <1>18
  <2>. QED  BY <1>5, <1>13, <1>18, <2>1 DEF ConvIInv, ReadsAreOlder
<1>21. ASSUME new.calm, ~new.stray
       PROVE  /\ new.depth = IF branch \in DOMAIN rows THEN rows[branch].depth + 1 ELSE 0
              /\ new.sent \subseteq Branch(branch)
              /\ new.room => \A m \in Branch(branch) : HasText(m) => m \in new.sent \cup new.given
  <2>5. tip = branch
    <3>1. CASE fromRoot
      BY <1>1, <1>2, <3>1
    <3>2. CASE branch \in DOMAIN rows
      BY <1>8, <3>2
    <3>3. CASE ~fromRoot /\ branch = 0 /\ DOMAIN rows = {}
      BY <1>8, <3>3
    <3>. QED  BY <1>14, <1>21, <1>25, <3>1, <3>2, <3>3
  <2>1. tip = branch /\ path = Branch(branch)
    BY <2>5 DEF path
  <2>2. new.depth = IF branch \in DOMAIN rows THEN rows[branch].depth + 1 ELSE 0
    BY <1>6, <1>8, <1>14, <2>1
  <2>3. new.sent \subseteq Branch(branch)
    BY <1>10, <1>11, <1>14, <2>1
  <2>4. ASSUME new.room, NEW m \in Branch(branch), HasText(m) PROVE m \in new.sent \cup new.given
    <3>1. CASE m \in fresh
      BY <1>10, <1>14, <2>4, <3>1, ZenonT(60)
    <3>2. CASE m \notin fresh
      <4>0. tip \in DOMAIN rows
        <5>1. tip = 0 => Branch(tip) = {}
          BY <1>6, BranchIs DEF ConvIInv, BranchesUnfold
        <5>. QED  BY <1>8, <2>1, <2>4, <5>1
      <4>1. NotesApply(path) /\ (notes.calm => m \in Replaced(notes))
        BY <1>21, <2>1, <2>4, <3>2, <4>0, FreshOrCovered DEF fresh, path
      <4>2. notes.calm /\ new.given = Replaced(notes)
        BY <1>10, <1>14, <1>21, <4>1
      <4>. QED  BY <4>1, <4>2
    <3>. QED  BY <3>1, <3>2
  <2>. QED  BY <2>2, <2>3, <2>4
<1>22. UNCHANGED rows /\ \A h \in 0..MaxIds : Branch(h)' = Branch(h)
  BY <1>5, QuietReadsStay
<1>23. CalmTurnsContinueTheirBranch'
  <2>1. ASSUME NEW u \in CTurns, NEW p, p = turn'[u].parent, turn'[u].calm, ~turn'[u].stray
        PROVE  /\ turn'[u].depth = IF p \in DOMAIN rows THEN rows[p].depth + 1 ELSE 0
               /\ turn'[u].sent \subseteq Branch(p)
               /\ turn'[u].room => \A m \in Branch(p) : HasText(m) => m \in turn'[u].sent \cup turn'[u].given
    <3>1. CASE u = t
      BY <1>13, <1>14, <1>21, <2>1, <3>1
    <3>2. CASE u # t
      BY <1>13, <2>1, <3>2 DEF ConvIInv, CalmTurnsContinueTheirBranch, ContinuesItsBranch
    <3>. QED  BY <3>1, <3>2
  <2>2. \A m : HasText(m)' = HasText(m)
    BY <1>5 DEF HasText
  <2>3. ASSUME NEW u \in CTurns, turn'[u].calm, ~turn'[u].stray
        PROVE  ContinuesItsBranch(u)'
    <3>1. PICK p : p = turn'[u].parent
      OBVIOUS
    <3>2. Branch(turn[u].parent)' = Branch(p)'
      BY <3>1 DEF Branch
    <3>3. p \in 0..MaxIds
      BY <1>13, <3>1, <1>12 DEF Turns
    <3>4. Branch(p)' = Branch(p)
      BY <1>22, <3>3
    <3>. QED  BY <1>5, <2>1, <2>2, <2>3, <3>1, <3>2, <3>4 DEF ContinuesItsBranch
  <2>. QED  BY <2>3 DEF CalmTurnsContinueTheirBranch
<1>24. Tree' /\ NotesAreCalm' /\ PageIsLinked'
  BY <1>5, QuietReadsStay
<1>. QED  BY <1>16, <1>19, <1>20, <1>23, <1>24 DEF ConvIInv

-----------------------------------------------------------------------------
(* Notes and compactions *)

\* Turns and messages are left alone: what is left to show is what notes and compactions say.
LEMMA NotesKeep ==
  ASSUME ConvIInv, UNCHANGED <<rows, leaf, running, turn, nextId, page>>,
         notes' \in Notes, notes'.text \/ notes' = NoNotes, notes'.anchor < nextId,
         compaction' \in [Compactors -> Compactions],
         \A k \in Compactors : compaction'[k].anchor < nextId,
         NotesAreCalm',
         \A u \in Unsettled : /\ notes'.calm => turn[u].user > notes'.anchor
                              /\ \A k \in Compactors : compaction'[k].calm => turn[u].user > compaction'[k].anchor
  PROVE  ConvIInv'
<1>1. ConvTypes' /\ IdsAreIssued'
  BY DEF ConvIInv, ConvTypes, IdsAreIssued
<1>2. Unsettled' = Unsettled
  BY DEF Unsettled
<1>3. TurnsAreApart' /\ ReadsAreOlder'
  BY <1>2 DEF ConvIInv, TurnsAreApart, ReadsAreOlder, Reply
<1>4. Remembers
  BY DEF Remembers
<1>5. Tree' /\ CalmTurnsContinueTheirBranch' /\ PageIsLinked'
  BY <1>4, QuietReadsStay
<1>. QED  BY <1>1, <1>3, <1>5 DEF ConvIInv

\* What notes and compactions are known to be, in one place.
LEMMA NotesKnown ==
  ASSUME ConvIInv
  PROVE  /\ notes \in Notes /\ notes.anchor \in 0..MaxIds /\ notes.anchor < nextId /\ nextId \in 1..MaxIds + 1
         /\ (notes.text \/ notes = NoNotes)
         /\ compaction \in [Compactors -> Compactions]
         /\ \A k \in Compactors : /\ compaction[k].anchor < nextId /\ compaction[k].anchor \in 0..MaxIds
                                  /\ compaction[k].covers \subseteq Ids /\ compaction[k].calm \in BOOLEAN
                                  /\ compaction[k].omitted \subseteq Ids /\ Anchored(compaction[k])
         /\ notes.calm => Covers(notes.anchor, Replaced(notes))
         /\ \A k \in Compactors :
              compaction[k].calm => Covers(compaction[k].anchor, Replaced(compaction[k]))
         /\ \A u \in Unsettled :
              /\ turn[u].user \in Nat \ {0}
              /\ notes.calm => turn[u].user > notes.anchor
              /\ \A k \in Compactors : compaction[k].calm => turn[u].user > compaction[k].anchor
<1>1. \A u \in Unsettled : turn[u].user \in Nat /\ turn[u].user > turn[u].parent /\ turn[u].parent \in Nat
  BY ConversationAssumption DEF ConvIInv, ConvTypes, Turns, TurnsAreApart, Unsettled
<1>2. \A k \in Compactors : compaction[k] \in Compactions
  BY DEF ConvIInv, ConvTypes
<1>. QED  BY <1>1, <1>2 DEF ConvIInv, ConvTypes, Notes, Compactions, IdsAreIssued, ReadsAreOlder, NotesAreCalm

LEMMA FormerCoversStay ==
  ASSUME ConvIInv, UNCHANGED rows, NEW a \in 0..MaxIds, NEW covers, Covers(a, covers)
  PROVE  Covers(a, covers)'
BY QuietReadsStay

\* Covers depends on rows alone.
LEMMA CoversAre ==
  ASSUME ConvIInv, UNCHANGED rows, NEW n, n.calm => n.anchor \in 0..MaxIds /\ Covers(n.anchor, Replaced(n))
  PROVE  n.calm => Covers(n.anchor, Replaced(n))'
BY FormerCoversStay

LEMMA CalmNotesMake ==
  ASSUME ConvIInv, UNCHANGED rows,
         NEW n, notes' = n, n.calm => n.anchor \in 0..MaxIds /\ Covers(n.anchor, Replaced(n)),
         NEW c, compaction' = c,
         \A k \in Compactors : c[k].calm => c[k].anchor \in 0..MaxIds /\ Covers(c[k].anchor, Replaced(c[k]))
  PROVE  NotesAreCalm'
<1>1. n.calm => Covers(n.anchor, Replaced(n))'
  BY CoversAre
<1>2. \A k \in Compactors : c[k].calm => Covers(c[k].anchor, Replaced(c[k]))'
  BY FormerCoversStay
<1>3. notes'.calm => Covers(notes.anchor, Replaced(notes))'
  BY <1>1 DEF Covers, Branch, HasText, Replaced
<1>4. \A k \in Compactors : compaction'[k].calm => Covers(compaction[k].anchor, Replaced(compaction[k]))'
  BY <1>2 DEF Covers, Branch, HasText, Replaced
<1>. QED  BY <1>3, <1>4 DEF NotesAreCalm

LEMMA NoNotesAre == NoNotes \in Notes /\ NoNotes.anchor = 0
BY ConversationAssumption DEF NoNotes, Notes, Anchored

LEMMA RewritesKeeps == ASSUME ConvIInv, Rewrites PROVE ConvIInv'
<1>1. notes' = [notes EXCEPT !.text = TRUE] /\ UNCHANGED <<rows, leaf, running, turn, nextId, compaction, page>>
  BY DEF Rewrites
<1>2. PICK n : n = [notes EXCEPT !.text = TRUE]
  OBVIOUS
<1>3. n \in Notes /\ n.text /\ n.anchor = notes.anchor /\ Replaced(n) = Replaced(notes)
      /\ n.calm = notes.calm
  BY <1>2, NotesKnown DEF Notes, Replaced, Anchored
<1>4. NotesAreCalm'
  BY <1>1, <1>2, <1>3, NotesKnown, CalmNotesMake
<1>. QED  BY <1>1, <1>2, <1>3, <1>4, NotesKnown, NotesKeep

LEMMA ForgetsKeeps == ASSUME ConvIInv, Forgets PROVE ConvIInv'
<1>1. notes' = NoNotes /\ UNCHANGED <<rows, leaf, running, turn, nextId, compaction, page>>
  BY DEF Forgets
<1>. HIDE DEF NoNotes
<1>2. Covers(NoNotes.anchor, Replaced(NoNotes)) /\ 0 \in 0..MaxIds
  BY NoNotesAre, ConversationAssumption DEF Covers
<1>3. NotesAreCalm'
  BY <1>1, <1>2, NoNotesAre, NotesKnown, CalmNotesMake
<1>4. 0 < nextId /\ \A u \in Unsettled : turn[u].user > 0
  BY NotesKnown
<1>. QED  BY <1>1, <1>3, <1>4, NoNotesAre, NotesKnown, NotesKeep

\* Compactions that are over remember nothing.
OverCompaction == [NoCompaction EXCEPT !.stage = "over"]

LEMMA OverCompactionIs == OverCompaction \in Compactions /\ OverCompaction.anchor = 0
<1>1. NoCompaction \in Compactions /\ NoCompaction.anchor = 0
  BY ConversationAssumption DEF NoCompaction, Compactions, Anchored
<1>. HIDE DEF NoCompaction
<1>. QED  BY <1>1 DEF OverCompaction, Compactions, Anchored

\* One compaction changes to what is true of the branch it read.
LEMMA CompactionKeeps ==
  ASSUME ConvIInv, UNCHANGED <<rows, leaf, running, turn, nextId, page>>,
         NEW n \in Notes, notes' = n, n.text \/ n = NoNotes, n.anchor < nextId,
         n.calm => Covers(n.anchor, Replaced(n)) /\ \A u \in Unsettled : turn[u].user > n.anchor,
         NEW k \in Compactors, NEW c \in Compactions, compaction' = [compaction EXCEPT ![k] = c],
         c.anchor < nextId,
         c.calm => Covers(c.anchor, Replaced(c)) /\ \A u \in Unsettled : turn[u].user > c.anchor
  PROVE  ConvIInv'
<1>1. PICK cs : cs = [compaction EXCEPT ![k] = c]
  OBVIOUS
<1>2. cs \in [Compactors -> Compactions] /\ \A j \in Compactors : cs[j] = IF j = k THEN c ELSE compaction[j]
  BY <1>1, NotesKnown
<1>3. \A j \in Compactors :
        /\ cs[j].anchor < nextId /\ cs[j].anchor \in 0..MaxIds
        /\ cs[j].calm => Covers(cs[j].anchor, Replaced(cs[j]))
        /\ \A u \in Unsettled : cs[j].calm => turn[u].user > cs[j].anchor
  <2>1. c.anchor \in 0..MaxIds
    BY DEF Compactions
  <2>. QED  BY <1>2, <2>1, NotesKnown
<1>4. n.anchor \in 0..MaxIds
  BY DEF Notes
<1>5. NotesAreCalm'
  BY <1>1, <1>3, <1>4, CalmNotesMake
<1>. QED  BY <1>1, <1>2, <1>3, <1>5, NotesKeep

LEMMA CompactBeginsKeeps == ASSUME ConvIInv, NEW k \in Compactors, CompactBegins(k) PROVE ConvIInv'
<1>1. PICK c : c = [compaction[k] EXCEPT !.stage = "checked"]
  OBVIOUS
<1>2. compaction' = [compaction EXCEPT ![k] = c]
      /\ UNCHANGED <<rows, leaf, notes, running, turn, nextId, page>>
  BY <1>1 DEF CompactBegins
<1>3. c \in Compactions /\ c.anchor = compaction[k].anchor
      /\ Replaced(c) = Replaced(compaction[k]) /\ c.calm = compaction[k].calm
  BY <1>1, NotesKnown DEF Compactions, Replaced, Anchored
<1>. QED  BY <1>2, <1>3, NotesKnown, CompactionKeeps

LEMMA CompactWritesKeeps == ASSUME ConvIInv, NEW k \in Compactors, CompactWrites(k) PROVE ConvIInv'
<1>1. PICK n : n = IF deleted THEN notes
                   ELSE [text |-> TRUE, anchor |-> compaction[k].anchor,
                         covers |-> compaction[k].covers, omitted |-> compaction[k].omitted,
                         calm |-> compaction[k].calm]
  OBVIOUS
<1>2. notes' = n /\ compaction' = [compaction EXCEPT ![k] = OverCompaction]
      /\ UNCHANGED <<rows, leaf, running, turn, nextId, page>>
  BY <1>1 DEF CompactWrites, OverCompaction
<1>3. /\ n \in Notes /\ (n.text \/ n = NoNotes) /\ n.anchor < nextId
      /\ n.calm => Covers(n.anchor, Replaced(n)) /\ \A u \in Unsettled : turn[u].user > n.anchor
  <2>1. CASE deleted
    BY <1>1, <2>1, NotesKnown
  <2>2. CASE ~deleted
    <3>1. n = [text |-> TRUE, anchor |-> compaction[k].anchor,
               covers |-> compaction[k].covers, omitted |-> compaction[k].omitted,
                         calm |-> compaction[k].calm]
      BY <1>1, <2>2
    <3>2. n.text /\ n.anchor = compaction[k].anchor /\ Replaced(n) = Replaced(compaction[k])
          /\ n.calm = compaction[k].calm
      BY <3>1 DEF Replaced
    <3>3. n \in Notes
      BY <3>1, NotesKnown DEF Notes, Anchored
    <3>. QED  BY <3>2, <3>3, NotesKnown
  <2>. QED  BY <2>1, <2>2
<1>. HIDE DEF OverCompaction
<1>4. /\ Covers(OverCompaction.anchor, Replaced(OverCompaction)) /\ OverCompaction.anchor < nextId
      /\ \A u \in Unsettled : turn[u].user > OverCompaction.anchor
  BY OverCompactionIs, NotesKnown DEF Covers
<1>. QED  BY <1>2, <1>3, <1>4, OverCompactionIs, CompactionKeeps

LEMMA CompactFailsKeeps == ASSUME ConvIInv, NEW k \in Compactors, CompactFails(k) PROVE ConvIInv'
<1>1. compaction' = [compaction EXCEPT ![k] = OverCompaction]
      /\ UNCHANGED <<rows, leaf, notes, running, turn, nextId, page>>
  BY DEF CompactFails, OverCompaction
<1>. HIDE DEF OverCompaction
<1>2. /\ Covers(OverCompaction.anchor, Replaced(OverCompaction)) /\ OverCompaction.anchor < nextId
      /\ \A u \in Unsettled : turn[u].user > OverCompaction.anchor
  BY OverCompactionIs, NotesKnown DEF Covers
<1>. QED  BY <1>1, <1>2, OverCompactionIs, NotesKnown, CompactionKeeps

\* What a compaction reads: the summarised part of the branch ends at its anchor.
LEMMA CompactReadsKeeps ==
  ASSUME ConvIInv, NEW k \in Compactors, NEW keep \in 0..1, NEW fits \in 1..MaxIds,
         CompactReads(k, keep, fits)
  PROVE  ConvIInv'
<1>. USE ConversationAssumption
<1>1. PICK tip : tip = LoadActivePath(0)
  OBVIOUS
<1>. DEFINE path == Branch(tip)
            fresh == Fresh(path)
<1>2. PICK old : old = fresh \ Newest(fresh, keep)
  OBVIOUS
<1>. DEFINE live == NotesApply(path)
            read == Newest(old, fits)
<1>3. PICK covers, omitted : /\ covers = read \cup (IF live THEN notes.covers ELSE {})
                             /\ omitted = (old \ read) \cup (IF live THEN notes.omitted ELSE {})
  OBVIOUS
<1>4. PICK calm : calm = (Unsettled = {} /\ (NotesApply(path) => notes.calm))
  OBVIOUS
<1>5. PICK c : c = IF deleted \/ old = {} THEN OverCompaction
                   ELSE [stage |-> "writing", anchor |-> Max(old), covers |-> covers,
                         omitted |-> omitted, calm |-> calm]
  OBVIOUS
<1>6. compaction' = [compaction EXCEPT ![k] = c]
      /\ UNCHANGED <<rows, leaf, notes, running, turn, nextId, page>>
  <2>1. compaction' = [compaction EXCEPT ![k] =
          IF deleted \/ old = {} THEN OverCompaction
          ELSE [stage |-> "writing", anchor |-> Max(old),
                covers  |-> read \cup (IF live THEN notes.covers ELSE {}),
                omitted |-> (old \ read) \cup (IF live THEN notes.omitted ELSE {}),
                calm |-> Unsettled = {} /\ (NotesApply(path) => notes.calm)]]
        /\ UNCHANGED <<rows, leaf, notes, running, turn, nextId, page>>
    BY <1>1, <1>2 DEF CompactReads, OverCompaction
  <2>. QED  BY <2>1, <1>3, <1>4, <1>5
<1>7. /\ c \in Compactions /\ c.anchor < nextId
      /\ c.calm => Covers(c.anchor, Replaced(c)) /\ \A u \in Unsettled : turn[u].user > c.anchor
  <2>1. CASE deleted \/ old = {}
    <3>. HIDE DEF OverCompaction
    <3>1. c = OverCompaction
      BY <1>5, <2>1
    <3>2. /\ Covers(OverCompaction.anchor, Replaced(OverCompaction)) /\ OverCompaction.anchor < nextId
          /\ \A u \in Unsettled : turn[u].user > OverCompaction.anchor
      BY OverCompactionIs, NotesKnown DEF Covers
    <3>. QED  BY <3>1, <3>2, OverCompactionIs
  <2>2. CASE ~(deleted \/ old = {})
    <3>1. c = [stage |-> "writing", anchor |-> Max(old), covers |-> covers,
               omitted |-> omitted, calm |-> calm]
      BY <1>5, <2>2
    <3>2. c.anchor = Max(old) /\ Replaced(c) = covers \cup omitted /\ c.calm = calm
      BY <3>1 DEF Replaced
    <3>0. covers \cup omitted = old \cup (IF live THEN Replaced(notes) ELSE {})
          /\ (live => notes.covers \cup notes.omitted = Replaced(notes))
      BY <1>3 DEF Newest, Replaced
    <3>3. 0 \notin DOMAIN rows /\ DOMAIN rows \subseteq Ids
      BY DEF ConvIInv, Tree, Ids
    <3>4. fresh \subseteq path /\ old \subseteq fresh
      BY <1>2 DEF Fresh
    <3>5. tip \in DOMAIN rows
      <4>1. CASE tip = 0
        <5>1. path = {}
          BY <3>3, <4>1, BranchIs DEF ConvIInv, BranchesUnfold
        <5>. QED  BY <2>2, <3>4, <5>1
      <4>. QED  BY <1>1, <4>1, TipIsStored DEF ConvIInv
    <3>6. path \subseteq DOMAIN rows /\ \A a \in path : Branch(a) = {o \in path : o <= a}
      BY <3>5, BranchesNest DEF ConvIInv
    <3>. HIDE DEF path, fresh, live, read
    <3>7. old \subseteq 0..MaxIds /\ old # {} /\ fresh \in SUBSET Ids
      BY <2>2, <3>3, <3>4, <3>6 DEF Ids
    <3>8. Max(old) \in old /\ \A o \in old : o <= Max(old)
      BY <3>7, MaxOf
    <3>9. c \in Compactions
      <4>1. covers \cup omitted \subseteq Ids
        BY <3>0, <3>3, <3>4, <3>6, NotesKnown DEF Notes, Replaced
      <4>2. Max(old) \in 0..MaxIds
        BY <3>7, <3>8
      <4>3. calm \in BOOLEAN
        BY <1>4
      <4>4. Max(old) \in covers
        <5>1. Max(old) \in read
          <6>1. \A o \in old : o \in Nat
            BY <3>7
          <6>2. {o \in old : o > Max(old)} = {}
            BY <3>8, <6>1
          <6>3. Cardinality({o \in old : o > Max(old)}) < fits
            BY <6>2, FS_EmptySet
          <6>. QED  BY <3>8, <6>3 DEF read, Newest
        <5>. QED  BY <1>3, <5>1 DEF read
      <4>. QED  BY <3>1, <4>1, <4>2, <4>3, <4>4 DEF Compactions, Anchored
    <3>10. c.anchor < nextId
      BY <3>2, <3>4, <3>6, <3>8 DEF ConvIInv, IdsAreIssued
    <3>11. ASSUME calm PROVE Covers(Max(old), covers \cup omitted)
      <4>. SUFFICES ASSUME NEW m \in Branch(Max(old)), HasText(m) PROVE m \in covers \cup omitted
        BY DEF Covers
      <4>1. Max(old) \in path /\ m \in path /\ m <= Max(old)
        BY <3>4, <3>6, <3>8
      <4>2. CASE m \notin fresh
        <5>1. live /\ (notes.calm => m \in Replaced(notes))
          BY <3>5, <4>1, <4>2, FreshOrCovered DEF path, fresh, live
        <5>. QED  BY <1>4, <3>0, <3>11, <5>1 DEF live
      <4>3. CASE m \in fresh
        <5>1. Max(old) \in fresh /\ Max(old) \notin Newest(fresh, keep)
          BY <1>2, <3>8
        <5>2. ASSUME m \in Newest(fresh, keep) PROVE FALSE
          <6>1. keep \in Nat /\ Max(old) \in fresh /\ m <= Max(old)
            BY <4>1, <5>1
          <6>2. Max(old) \in Newest(fresh, keep)
            BY <3>7, <5>2, <6>1, NewestAreAbove
          <6>. QED  BY <5>1, <6>2
        <5>. QED  BY <1>2, <3>0, <4>3, <5>2
      <4>. QED  BY <4>2, <4>3
    <3>12. calm => Unsettled = {}
      BY <1>4
    <3>. QED  BY <3>2, <3>9, <3>10, <3>11, <3>12
  <2>. QED  BY <2>1, <2>2
<1>. QED  BY <1>6, <1>7, NotesKnown, CompactionKeeps

-----------------------------------------------------------------------------
(* Pages *)

\* A page is linked up, ends in the message it was asked for, and names what goes on above it.
LEMMA PageOf ==
  ASSUME Tree, NEW start \in DOMAIN rows, NEW p, p = PathPage(start, PageLimit)
  PROVE  /\ Linked(p.got) /\ Len(p.got) \in Nat \ {0} /\ p.got[Len(p.got)] = start
         /\ p.got[1] \in DOMAIN rows /\ p.got[1] <= start
         /\ IF p.next = 0 THEN rows[p.got[1]].parent \notin DOMAIN rows
            ELSE p.next \in DOMAIN rows /\ p.next = rows[p.got[1]].parent
<1>. USE ConversationAssumption
<1>. DEFINE chain == Chain[start]
            n == Len(chain)
<1>1. /\ chain \in Seq(DOMAIN rows) /\ n \in Nat \ {0} /\ chain[n] = start
      /\ rows[chain[1]].parent \notin DOMAIN rows
      /\ \A i \in 1..n - 1 : chain[i] = rows[chain[i + 1]].parent
  BY ChainLinked DEF Linked
<1>2. PICK first : first = IF n > PageLimit THEN n - PageLimit + 1 ELSE 1
  OBVIOUS
<1>3. first \in 1..n
  BY <1>1, <1>2
<1>4. p.got = SubSeq(chain, first, n) /\ p.next = IF first > 1 THEN chain[first - 1] ELSE 0
  BY <1>2 DEF PathPage
<1>5. \A i \in 1..n : chain[i] \in DOMAIN rows /\ chain[i] \in Branch(start)
  <2>1. DOMAIN chain = 1..n /\ \A i \in 1..n : chain[i] \in DOMAIN rows
    BY <1>1, LenProperties
  <2>. QED  BY <2>1 DEF Branch
<1>. HIDE DEF chain, n
<1>6. /\ p.got \in Seq(DOMAIN rows) /\ Len(p.got) = n - first + 1
      /\ \A i \in 1..n - first + 1 : p.got[i] = chain[first + i - 1]
  <2>1. /\ first \in Int /\ n \in Int /\ first <= n + 1
        /\ \A i \in first..n : chain[i] \in DOMAIN rows
    BY <1>1, <1>3, <1>5
  <2>. DEFINE part == SubSeq(chain, first, n)
  <2>2. /\ part \in Seq(DOMAIN rows)
        /\ Len(part) = IF first <= n THEN n - first + 1 ELSE 0
        /\ \A i \in 1..n - first + 1 : part[i] = chain[first + i - 1]
    BY <2>1, SubSeqProperties
  <2>. HIDE DEF part
  <2>3. p.got = part
    BY <1>4 DEF part
  <2>. QED  BY <1>1, <1>3, <2>2, <2>3
<1>7. Len(p.got) \in Nat \ {0}
  BY <1>1, <1>3, <1>6
<1>8. p.got[1] = chain[first]
  <2>1. 1 \in 1..n - first + 1 /\ first + 1 - 1 = first
    BY <1>1, <1>3
  <2>. QED  BY <1>6, <2>1
<1>9. p.got[Len(p.got)] = start
  <2>1. Len(p.got) \in 1..n - first + 1 /\ first + Len(p.got) - 1 = n
    BY <1>1, <1>3, <1>6
  <2>. QED  BY <1>1, <1>6, <2>1
<1>10. Linked(p.got)
  <2>1. ASSUME NEW i \in 1..Len(p.got) - 1 PROVE p.got[i] = rows[p.got[i + 1]].parent
    <3>1. /\ i \in 1..n - first + 1 /\ i + 1 \in 1..n - first + 1
          /\ first + i - 1 \in 1..n - 1 /\ first + (i + 1) - 1 = (first + i - 1) + 1
      BY <1>1, <1>3, <1>6
    <3>2. PICK k : k = first + i - 1
      OBVIOUS
    <3>3. p.got[i] = chain[k] /\ p.got[i + 1] = chain[k + 1] /\ k \in 1..n - 1
      BY <1>6, <3>1, <3>2
    <3>4. chain[k] = rows[chain[k + 1]].parent
      BY <1>1, <3>3
    <3>. QED  BY <3>3, <3>4
  <2>. QED  BY <1>6, <2>1 DEF Linked
<1>11. p.got[1] \in DOMAIN rows /\ p.got[1] <= start
  BY <1>3, <1>5, <1>8, BranchesNest
<1>12. IF p.next = 0 THEN rows[p.got[1]].parent \notin DOMAIN rows
       ELSE p.next \in DOMAIN rows /\ p.next = rows[p.got[1]].parent
  <2>0. 0 \notin DOMAIN rows
    BY DEF Tree, Ids
  <2>1. CASE first = 1
    BY <1>1, <1>4, <1>8, <2>1
  <2>2. CASE first > 1
    <3>1. first - 1 \in 1..n - 1 /\ first - 1 \in 1..n /\ (first - 1) + 1 = first
      BY <1>1, <1>3, <2>2
    <3>2. p.next = chain[first - 1] /\ chain[first - 1] = rows[chain[first]].parent
          /\ chain[first - 1] \in DOMAIN rows
      BY <1>1, <1>4, <1>5, <2>2, <3>1
    <3>. QED  BY <1>8, <2>0, <3>2
  <2>. QED  BY <1>3, <2>1, <2>2
<1>. QED  BY <1>7, <1>9, <1>10, <1>11, <1>12

\* Only the client's page changes, to one that is linked up.
LEMMA PagesKeep ==
  ASSUME ConvIInv, UNCHANGED <<rows, leaf, notes, running, turn, nextId, compaction>>,
         NEW p \in Pages, page' = p, Linked(p.got),
         IF p.next = 0 THEN p.got # <<>> => rows[p.got[1]].parent \notin DOMAIN rows
         ELSE p.got # <<>> /\ p.next \in DOMAIN rows /\ p.next = rows[p.got[1]].parent,
         \A u \in Unsettled : p.calm /\ p.got # <<>> => turn[u].user > p.got[1]
  PROVE  ConvIInv'
<1>1. Remembers
  BY DEF Remembers
<1>2. Tree' /\ CalmTurnsContinueTheirBranch' /\ NotesAreCalm'
  BY <1>1, QuietReadsStay
<1>3. ConvTypes' /\ IdsAreIssued'
  BY DEF ConvIInv, ConvTypes, IdsAreIssued
<1>4. Unsettled' = Unsettled
  BY DEF Unsettled
<1>5. TurnsAreApart'
  BY <1>4 DEF ConvIInv, TurnsAreApart, Reply
<1>6. ReadsAreOlder'
  BY <1>4 DEF ConvIInv, ReadsAreOlder
<1>7. PageIsLinked'
  <2>1. p.calm \in BOOLEAN
    BY DEF Pages
  <2>2. Linked(page.got)'
    BY DEF Linked
  <2>. QED  BY <2>1, <2>2 DEF PageIsLinked
<1>. QED  BY <1>2, <1>3, <1>5, <1>6, <1>7 DEF ConvIInv

LEMMA LinkedPages ==
  ASSUME Tree, NEW got, NEW next \in {0} \cup DOMAIN rows, NEW calm \in BOOLEAN, Linked(got)
  PROVE  [got |-> got, next |-> next, calm |-> calm] \in Pages
<1>1. got \in Seq(DOMAIN rows) /\ DOMAIN rows \subseteq Ids
  BY DEF Linked, Tree
<1>2. got \in Seq(Ids)
  BY <1>1, SeqMonotonic
<1>3. next \in 0..MaxIds
  BY ConversationAssumption DEF Tree, Ids
<1>. QED  BY <1>2, <1>3 DEF Pages

LEMMA OpensChatKeeps ==
  ASSUME ConvIInv, NEW branch \in {0} \cup DOMAIN rows, OpensChat(branch) PROVE ConvIInv'
<1>. USE ConversationAssumption
<1>1. PICK start : start = IF branch # 0 THEN branch ELSE TipOf
  OBVIOUS
<1>2. PICK new : new = PathPage(start, PageLimit)
  OBVIOUS
<1>3. PICK p : p = [got |-> new.got, next |-> new.next, calm |-> Unsettled = {}]
  OBVIOUS
<1>4. page' = p /\ UNCHANGED <<rows, leaf, notes, running, turn, nextId, compaction>>
  BY <1>1, <1>2, <1>3 DEF OpensChat
<1>5. p.got = new.got /\ p.next = new.next /\ p.calm = (Unsettled = {})
  BY <1>3
<1>6. start = 0 \/ start \in DOMAIN rows
  BY <1>1, DeepestIsStored DEF TipOf, ConvIInv, ConvTypes
<1>7. CASE start \in DOMAIN rows
  <2>1. Linked(p.got) /\ Len(p.got) \in Nat \ {0}
        /\ IF p.next = 0 THEN rows[p.got[1]].parent \notin DOMAIN rows
           ELSE p.next \in DOMAIN rows /\ p.next = rows[p.got[1]].parent
    BY <1>2, <1>5, <1>7, PageOf DEF ConvIInv
  <2>2. p.got # <<>>
    BY <2>1, EmptySeq
  <2>3. \A u \in Unsettled : ~p.calm
    BY <1>5
  <2>4. p \in Pages
    BY <1>3, <1>5, <2>1, LinkedPages DEF ConvIInv
  <2>. QED  BY <1>4, <2>1, <2>2, <2>3, <2>4, PagesKeep
<1>8. CASE start = 0
  <2>1. Chain[0] = <<>>
    <3>1. 0 \notin DOMAIN rows
      BY DEF ConvIInv, Tree, Ids
    <3>. QED  BY <3>1, ChainIs DEF ConvIInv
  <2>2. new.got = SubSeq(<<>>, 1, 0) /\ new.next = 0
    <3>1. PathPage(0, PageLimit) = [got |-> SubSeq(<<>>, 1, 0), next |-> 0]
      BY <2>1 DEF PathPage
    <3>. QED  BY <1>2, <1>8, <3>1
  <2>3. new.got = <<>>
    BY <2>2
  <2>4. Linked(p.got)
    BY <1>5, <2>3, EmptySeq DEF Linked
  <2>5. p \in Pages
    BY <1>3, <1>5, <2>2, <2>4, LinkedPages DEF ConvIInv
  <2>. QED  BY <1>4, <1>5, <2>2, <2>3, <2>4, <2>5, PagesKeep
<1>. QED  BY <1>6, <1>7, <1>8

LEMMA OlderPageKeeps == ASSUME ConvIInv, OlderPage PROVE ConvIInv'
<1>. USE ConversationAssumption
<1>1. PICK old : old = page
  OBVIOUS
<1>2. PICK new : new = PathPage(old.next, PageLimit)
  OBVIOUS
<1>3. PICK p : p = [page EXCEPT !.got = new.got \o @, !.next = new.next]
  OBVIOUS
<1>4. page' = p /\ UNCHANGED <<rows, leaf, notes, running, turn, nextId, compaction>>
  BY <1>1, <1>2, <1>3 DEF OlderPage
<1>5. /\ Linked(old.got) /\ old.got # <<>> /\ old.next \in DOMAIN rows /\ old.next = rows[old.got[1]].parent
      /\ old.calm \in BOOLEAN
  BY <1>1 DEF OlderPage, ConvIInv, PageIsLinked
<1>6. p.got = new.got \o old.got /\ p.next = new.next /\ p.calm = old.calm
  BY <1>1, <1>3 DEF ConvIInv, PageIsLinked, Pages
<1>7. /\ Linked(new.got) /\ Len(new.got) \in Nat \ {0} /\ new.got[Len(new.got)] = old.next
      /\ new.got[1] \in DOMAIN rows /\ new.got[1] <= old.next
      /\ IF new.next = 0 THEN rows[new.got[1]].parent \notin DOMAIN rows
         ELSE new.next \in DOMAIN rows /\ new.next = rows[new.got[1]].parent
  BY <1>2, <1>5, PageOf DEF ConvIInv
<1>. DEFINE a == new.got
            b == old.got
            j == a \o b
<1>8. a \in Seq(DOMAIN rows) /\ b \in Seq(DOMAIN rows) /\ Len(b) \in Nat \ {0}
      /\ (\A i \in 1..Len(a) - 1 : a[i] = rows[a[i + 1]].parent)
      /\ (\A i \in 1..Len(b) - 1 : b[i] = rows[b[i + 1]].parent)
  <2>1. b \in Seq(DOMAIN rows) /\ b # <<>>
    BY <1>5 DEF Linked
  <2>2. Len(b) \in Nat \ {0}
    BY <2>1, EmptySeq, LenProperties
  <2>. QED  BY <1>5, <1>7, <2>1, <2>2 DEF Linked
<1>. HIDE DEF a, b
<1>9. /\ j \in Seq(DOMAIN rows) /\ Len(j) = Len(a) + Len(b) /\ Len(a) \in Nat \ {0}
      /\ \A i \in 1..Len(j) : j[i] = IF i <= Len(a) THEN a[i] ELSE b[i - Len(a)]
  <2>1. Len(a) \in Nat \ {0}
    BY <1>7 DEF a
  <2>. QED  BY <1>8, <2>1, ConcatProperties
<1>. HIDE DEF j
<1>10. a[Len(a)] = rows[b[1]].parent /\ b[1] \in DOMAIN rows
  BY <1>5, <1>7, <1>8, LenProperties DEF a, b
<1>11. ASSUME NEW i \in 1..Len(j) - 1 PROVE j[i] = rows[j[i + 1]].parent
  <2>1. i \in 1..Len(j) /\ i + 1 \in 1..Len(j)
    BY <1>8, <1>9
  <2>2. CASE i < Len(a)
    <3>1. i \in 1..Len(a) - 1 /\ i <= Len(a) /\ i + 1 <= Len(a)
      BY <1>9, <2>2
    <3>. QED  BY <1>8, <1>9, <2>1, <3>1
  <2>3. CASE i = Len(a)
    <3>1. j[i] = a[Len(a)] /\ j[i + 1] = b[1]
      <4>1. ~(i + 1 <= Len(a)) /\ (i + 1) - Len(a) = 1 /\ i <= Len(a)
        BY <1>9, <2>3
      <4>. QED  BY <1>9, <2>1, <2>3, <4>1
    <3>. QED  BY <1>10, <3>1
  <2>4. CASE i > Len(a)
    <3>1. /\ i - Len(a) \in 1..Len(b) - 1 /\ (i - Len(a)) + 1 = (i + 1) - Len(a)
          /\ ~(i <= Len(a)) /\ ~(i + 1 <= Len(a))
      BY <1>8, <1>9, <2>4
    <3>2. j[i] = b[i - Len(a)] /\ j[i + 1] = b[(i + 1) - Len(a)]
      BY <1>9, <2>1, <3>1
    <3>3. b[i - Len(a)] = rows[b[(i - Len(a)) + 1]].parent
      BY <1>8, <3>1
    <3>. QED  BY <3>1, <3>2, <3>3
  <2>. QED  BY <1>9, <2>2, <2>3, <2>4
<1>12. Linked(p.got)
  BY <1>6, <1>9, <1>11 DEF Linked, j, a, b
<1>13. p.got # <<>> /\ p.got[1] = new.got[1]
  <2>0. p.got = j
    BY <1>6 DEF j, a, b
  <2>1. p.got = j /\ Len(j) # 0 /\ 1 \in 1..Len(j) /\ 1 <= Len(a)
    BY <1>8, <1>9, <2>0
  <2>2. j[1] = a[1]
    BY <1>9, <2>1
  <2>. QED  BY <2>1, <2>2, EmptySeq DEF a
<1>14. \A u \in Unsettled : p.calm => turn[u].user > new.got[1]
  <2>1. old.next < old.got[1] /\ old.next \in Nat /\ new.got[1] \in Nat /\ old.got[1] \in Nat
    BY <1>5, <1>7, <1>10 DEF b, ConvIInv, Tree, Ids
  <2>2. \A u \in Unsettled : old.calm => turn[u].user > old.got[1]
    BY <1>1, <1>5 DEF ConvIInv, ReadsAreOlder
  <2>3. \A u \in Unsettled : turn[u].user \in Nat
    BY NotesKnown
  <2>. QED  BY <1>6, <1>7, <2>1, <2>2, <2>3
<1>15. p \in Pages
  <2>1. Linked(p.got) /\ p.next \in {0} \cup DOMAIN rows /\ p.calm \in BOOLEAN
    BY <1>5, <1>6, <1>7, <1>12
  <2>2. p = [got |-> p.got, next |-> p.next, calm |-> p.calm]
    BY <1>1, <1>3 DEF ConvIInv, PageIsLinked, Pages
  <2>. QED  BY <2>1, <2>2, LinkedPages DEF ConvIInv
<1>. QED  BY <1>4, <1>5, <1>6, <1>7, <1>12, <1>13, <1>14, <1>15, PagesKeep

LEMMA DeletesKeeps == ASSUME ConvIInv, Deletes PROVE ConvIInv'
<1>1. UNCHANGED <<rows, leaf, notes, running, turn, nextId, compaction, page>>
  BY DEF Deletes
<1>2. Settles /\ Remembers
  BY <1>1 DEF Settles, Remembers, Unsettled
<1>3. TurnsAreApart' /\ ReadsAreOlder'
  BY <1>1, <1>2, SettlingKeeps
<1>4. ConvTypes' /\ IdsAreIssued'
  BY <1>1 DEF ConvIInv, ConvTypes, IdsAreIssued
<1>5. Tree' /\ CalmTurnsContinueTheirBranch' /\ NotesAreCalm' /\ PageIsLinked'
  BY <1>1, <1>2, QuietReadsStay
<1>. QED  BY <1>3, <1>4, <1>5 DEF ConvIInv

LEMMA ConvStays == ASSUME ConvIInv, UNCHANGED convVars PROVE ConvIInv'
<1>1. UNCHANGED <<rows, leaf, notes, running, turn, nextId, compaction, page>>
  BY DEF convVars
<1>2. Settles /\ Remembers
  BY <1>1 DEF Settles, Remembers, Unsettled
<1>3. TurnsAreApart' /\ ReadsAreOlder'
  BY <1>1, <1>2, SettlingKeeps
<1>4. ConvTypes' /\ IdsAreIssued'
  BY <1>1 DEF ConvIInv, ConvTypes, IdsAreIssued
<1>5. Tree' /\ CalmTurnsContinueTheirBranch' /\ NotesAreCalm' /\ PageIsLinked'
  BY <1>1, <1>2, QuietReadsStay
<1>. QED  BY <1>3, <1>4, <1>5 DEF ConvIInv

LEMMA ConvInductive == ASSUME ConvIInv, [ConvNext]_convVars PROVE ConvIInv'
<1>1. ASSUME NEW t \in CTurns, TurnSteps(t) PROVE ConvIInv'
  <2>1. ASSUME NEW asked \in 0..nextId - 1, Prepare(t, asked, FALSE) PROVE ConvIInv'
    BY <2>1, PrepareKeeps
  <2>2. ASSUME Prepare(t, 0, TRUE) PROVE ConvIInv'
    <3>1. 0 \in 0..nextId - 1
      BY DEF ConvIInv, ConvTypes
    <3>. QED  BY <2>2, <3>1, PrepareKeeps
  <2>3. ASSUME NEW text \in {"none", "whole"}, Finalizes(t, text) PROVE ConvIInv'
    BY <2>3, FinalizesKeeps
  <2>. QED  BY <1>1, <2>1, <2>2, <2>3, RefusedKeeps, BeginsKeeps, InsertsKeeps, FlushesKeeps,
               EndsKeeps, EndsEarlyKeeps, FinalizeFailsKeeps DEF TurnSteps
<1>2. ASSUME NEW k \in Compactors, CompactSteps(k) PROVE ConvIInv'
  BY <1>2, CompactBeginsKeeps, CompactReadsKeeps, CompactWritesKeeps, CompactFailsKeeps DEF CompactSteps
<1>3. ASSUME NEW branch \in {0} \cup DOMAIN rows, OpensChat(branch) PROVE ConvIInv'
  BY <1>3, OpensChatKeeps
<1>. QED  BY <1>1, <1>2, <1>3, RewritesKeeps, ForgetsKeeps, OlderPageKeeps, DeletesKeeps, ConvStays
          DEF ConvNext

LEMMA ConvIInvHolds == ConvSpec => []ConvIInv
<1>1. ConvIInv /\ [ConvNext]_convVars => ConvIInv'
  BY ConvInductive
<1>. QED  BY <1>1, ConvInitially, PTL DEF ConvSpec

\* Whatever turns are prepared, finish and fail, and whatever is edited in a chat while compactions
\* read and write it, and however late each uses what it read: notes made while no turn was
\* unsettled describe the newest message they replace, and every older one with text is described
\* by them or among those counted as omitted when they were made (services/memory.py).
THEOREM ConversationHolds == ConvSpec => []ConvInv
<1>1. ConvIInv => ConvInv
  BY ConvIInvImplies
<1>. QED  BY <1>1, ConvIInvHolds, PTL

\* A turn prepared while no other was unsettled, whose branch point is a stored message or which
\* starts a branch, is stored one below the message it answers and is sent that message's branch:
\* every message with text, or notes that replace it, unless there was no room (services/chat.py).
THEOREM CalmTurnsContinue == ConvSpec => []CalmTurnsContinueTheirBranch
<1>1. ConvIInv => CalmTurnsContinueTheirBranch
  BY ConvIInvImplies
<1>. QED  BY <1>1, ConvIInvHolds, PTL

\* The pages of a branch, read one below another as the tree grows, join without a gap or a message
\* twice (load_path_page).
THEOREM PagesAlwaysJoin == ConvSpec => []PagesJoin
<1>1. ConvIInv => PagesJoin
  BY ConvIInvImplies
<1>. QED  BY <1>1, ConvIInvHolds, PTL
==============================================================================
