------------------------- MODULE UserAccountsProofs -------------------------
(***************************************************************************)
(* Theorems about UserAccounts for any sets of requests, users, agents and *)
(* keys: its types with the addresses' uniqueness, that no request changes *)
(* what it was not asked for, and what a replacement of grants leaves.     *)
(***************************************************************************)
EXTENDS UserAccounts, TLAPS

Columns == {"email", "role", "active", "password"}

\* A row, a change and the fields of one another.
LEMMA ColumnsOf ==
    /\ \A row \in User : DOMAIN row = Columns
    /\ \A change \in UserChange : DOMAIN change = Columns
BY DEF User, UserChange, Columns

\* What is asked of a row, reduced to what differs from it, is a change.
LEMMA ModifiedTyped ==
    ASSUME NEW asked \in UserChange, NEW row \in User
    PROVE  [column \in DOMAIN asked |-> Modified(asked[column], row[column])] \in UserChange
BY DEF User, UserChange, Modified

\* A change written to a row gives a row.
LEMMA WrittenTyped ==
    ASSUME NEW write \in UserChange, NEW row \in User
    PROVE  [column \in DOMAIN write |-> Written(row[column], write[column])] \in User
BY DEF User, UserChange, Written

\* What a request knows has its type.
LEMMA RequestFields ==
    ASSUME AccountsTypeOK, NEW r \in Requests
    PROVE  /\ request[r].pc = "create" =>
                request[r].email \in Emails /\ request[r].role \in Roles
                    /\ request[r].agents \in SUBSET AgentIds
           /\ request[r].pc \in {"dup", "commit"} =>
                /\ request[r] \in [pc: {"dup", "commit"}, user: UserIds, asked: UserChange,
                                   write: UserChange]
                /\ request[r].user \in UserIds /\ request[r].asked \in UserChange
                /\ request[r].write \in UserChange
           /\ request[r].pc \in {"clear", "grant"} =>
                request[r].scope \in SUBSET Pairs /\ request[r].grants \in SUBSET Pairs
                    /\ request[r].since \in SUBSET Pairs
           /\ request[r].pc = "clear" => request[r].seen \in SUBSET Pairs
           /\ request[r].pc = "grant" => request[r].gone \in SUBSET Pairs
           /\ request[r].pc = "key" => request[r].key \in KeyIds /\ request[r].write \in KeyChange
BY DEF AccountsTypeOK, Request

LEMMA AccountsTypeInit == AccountsInit => AccountsTypeOK
BY DEF AccountsInit, AccountsTypeOK, Request, Exists

\* Everything but the tables of users, which three actions leave alone.
OthersTyped ==
    /\ access \in SUBSET Pairs
    /\ keys \in [KeyIds -> Key \cup {NoRow}]
    /\ request \in [Requests -> Request]
    /\ desk \in Desks

OneAddressEach == \A u \in UserIds : Exists(u) => ~Taken(users[u].email, u)

UsersTyped == users \in [UserIds -> User \cup {NoRow}] /\ OneAddressEach

LEMMA TypedInParts ==
    /\ AccountsTypeOK <=> UsersTyped /\ OthersTyped
    /\ AccountsTypeOK' <=> UsersTyped' /\ OthersTyped'
BY DEF AccountsTypeOK, UsersTyped, OthersTyped, OneAddressEach

LEMMA UsersAlone ==
    ASSUME UsersTyped, UNCHANGED users
    PROVE  UsersTyped'
BY DEF UsersTyped, OneAddressEach, Exists, Taken

LEMMA BecomesTyped ==
    ASSUME AccountsTypeOK, NEW r \in Requests, NEW next \in Request, Becomes(r, next)
    PROVE  request' \in [Requests -> Request]
BY DEF AccountsTypeOK, Becomes

LEMMA RespondsTyped ==
    ASSUME AccountsTypeOK, NEW r \in Requests, NEW how \in {"done", "failed"}, Responds(r, how)
    PROVE  request' \in [Requests -> Request]
<1>1. [pc |-> how] \in Request
  BY DEF Request
<1> QED BY <1>1, BecomesTyped DEF Responds

LEMMA GrantedTyped ==
    ASSUME AccountsTypeOK, NEW r \in Requests, NEW pairs \in SUBSET Pairs, Granted(r, pairs)
    PROVE  request' \in [Requests -> Request]
<1> SUFFICES ASSUME NEW q \in Requests PROVE request'[q] \in Request
  BY DEF Granted
<1>1. CASE q = r
  BY <1>1 DEF Granted, Request
<1>2. CASE q # r /\ request[q].pc = "clear"
  <2>1. request[q] \in [pc: {"clear"}, scope: SUBSET Pairs, grants: SUBSET Pairs,
                        since: SUBSET Pairs, seen: SUBSET Pairs]
    BY <1>2 DEF AccountsTypeOK, Request
  <2>2. request'[q] = [request[q] EXCEPT !.since = @ \cup (pairs \cap request[q].scope)]
    BY <1>2 DEF Granted
  <2> QED BY <2>1, <2>2 DEF Request
<1>3. CASE q # r /\ request[q].pc = "grant"
  <2>1. request[q] \in [pc: {"grant"}, scope: SUBSET Pairs, grants: SUBSET Pairs,
                        since: SUBSET Pairs, gone: SUBSET Pairs]
    BY <1>3 DEF AccountsTypeOK, Request
  <2>2. request'[q] = [request[q] EXCEPT !.since = @ \cup (pairs \cap request[q].scope)]
    BY <1>3 DEF Granted
  <2> QED BY <2>1, <2>2 DEF Request
<1>4. CASE q # r /\ request[q].pc \notin {"clear", "grant"}
  BY <1>4 DEF Granted, AccountsTypeOK
<1> QED BY <1>1, <1>2, <1>3, <1>4

LEMMA LoadUserTyped ==
    ASSUME AccountsTypeOK, NEW r \in Requests, NEW u \in UserIds, NEW asked \in UserChange,
           LoadUser(r, u, asked)
    PROVE  AccountsTypeOK'
<1>1. users[u] \in User
  BY DEF LoadUser, Exists, AccountsTypeOK
<1> DEFINE write == [column \in DOMAIN asked |-> Modified(asked[column], users[u][column])]
<1>2. write \in UserChange
  BY <1>1, ModifiedTyped
<1> HIDE DEF write
<1>3. \A pc \in {"dup", "commit"} :
        [pc |-> pc, user |-> u, asked |-> asked, write |-> write] \in Request
  BY <1>2 DEF Request
<1>4. \E next \in Request : Becomes(r, next)
  BY <1>3 DEF LoadUser, write
<1> QED BY <1>4, BecomesTyped, UsersAlone, TypedInParts DEF LoadUser, OthersTyped

LEMMA CreateUserTyped ==
    ASSUME AccountsTypeOK, NEW r \in Requests, CreateUser(r)
    PROVE  AccountsTypeOK'
<1>1. CASE Responds(r, "failed") /\ UNCHANGED <<users, access>>
  BY <1>1, RespondsTyped, UsersAlone, TypedInParts DEF CreateUser, OthersTyped
<1>2. ASSUME NEW u \in UserIds, NEW password \in Passwords,
             \A v \in UserIds : ~Taken(request[r].email, v),
             ~Exists(u),
             users' = [users EXCEPT ![u] =
                 [email |-> request[r].email, role |-> request[r].role,
                  active |-> TRUE, password |-> password]],
             access' = access \cup ({u} \X request[r].agents),
             Granted(r, {u} \X request[r].agents)
      PROVE  AccountsTypeOK'
  <2> DEFINE new == [email |-> request[r].email, role |-> request[r].role,
                     active |-> TRUE, password |-> password]
  <2>1. new \in User /\ request[r].agents \in SUBSET AgentIds
    BY RequestFields DEF CreateUser, User
  <2>2. ({u} \X request[r].agents) \in SUBSET Pairs
    BY <2>1 DEF Pairs
  <2>3. request' \in [Requests -> Request]
    BY <1>2, <2>2, GrantedTyped
  <2>4. users' = [users EXCEPT ![u] = new] /\ new.email = request[r].email
    BY <1>2
  <2> HIDE DEF new
  <2>5. users' \in [UserIds -> User \cup {NoRow}]
    BY <2>1, <2>4 DEF AccountsTypeOK
  <2>6. ASSUME NEW v \in UserIds, NEW w \in UserIds \ {v}, users'[v] # NoRow, users'[w] # NoRow,
               users'[w].email = users'[v].email
        PROVE  FALSE
    <3>1. \A x \in UserIds : x # u => users'[x] = users[x]
      BY <2>4 DEF AccountsTypeOK
    <3>2. users'[u] = new
      BY <2>4 DEF AccountsTypeOK
    <3>3. \A x \in UserIds : x # u /\ users[x] # NoRow => users[x].email # new.email
      BY <1>2, <2>4 DEF Taken, Exists
    <3>4. CASE v # u /\ w # u
      BY <2>6, <3>1, <3>4 DEF AccountsTypeOK, Exists, Taken
    <3> QED BY <2>6, <3>1, <3>2, <3>3, <3>4
  <2>7. UsersTyped'
    BY <2>5, <2>6 DEF UsersTyped, OneAddressEach, Exists, Taken
  <2> QED BY <1>2, <2>2, <2>3, <2>7, TypedInParts DEF CreateUser, OthersTyped
<1> QED BY <1>1, <1>2 DEF CreateUser

\* The rows that a request has loaded stay: none is ever removed.
RowsThere ==
    \A r \in Requests :
        /\ request[r].pc \in {"dup", "commit"} => users[request[r].user] # NoRow
        /\ request[r].pc = "key" => keys[request[r].key] # NoRow

LEMMA CommitUserTyped ==
    ASSUME AccountsTypeOK, RowsThere, NEW r \in Requests, CommitUser(r)
    PROVE  AccountsTypeOK'
<1> DEFINE u == request[r].user
           write == request[r].write
           new == [column \in DOMAIN write |-> Written(users[u][column], write[column])]
<1>1. u \in UserIds /\ write \in UserChange
  BY RequestFields DEF CommitUser
<1>2. CASE Taken(write.email, u)
  BY <1>2, RespondsTyped, UsersAlone, TypedInParts DEF CommitUser, OthersTyped
<1>3. CASE ~Taken(write.email, u)
  <2>1. users' = [users EXCEPT ![u] = new] /\ Responds(r, "done") /\ UNCHANGED <<access, keys, desk>>
    BY <1>3 DEF CommitUser
  <2>2. request' \in [Requests -> Request]
    BY <2>1, RespondsTyped
  <2>3. users[u] \in User
    BY <1>1 DEF CommitUser, AccountsTypeOK, RowsThere
  <2>4. new \in User
    BY <1>1, <2>3, WrittenTyped
  <2>5. users' \in [UserIds -> User \cup {NoRow}]
    BY <2>1, <2>4 DEF AccountsTypeOK
  <2>6. new.email = Written(users[u].email, write.email)
    BY <1>1, ColumnsOf DEF Columns
  <2> HIDE DEF new
  <2>7. ASSUME NEW v \in UserIds, NEW w \in UserIds \ {v}, users'[v] # NoRow, users'[w] # NoRow,
               users'[w].email = users'[v].email
        PROVE  FALSE
    <3>1. /\ \A x \in UserIds : x # u => users'[x] = users[x]
          /\ users'[u] = new
      BY <1>1, <2>1 DEF AccountsTypeOK
    <3>2. \A x \in UserIds : x # u /\ users[x] # NoRow =>
            users[x].email # users[u].email /\ users[x].email # write.email
      BY <1>1, <1>3, <2>3, AccountsAssumption DEF AccountsTypeOK, Exists, Taken
    <3>3. \A x \in UserIds : x # u /\ users[x] # NoRow => users[x].email # new.email
      BY <2>6, <3>2 DEF Written
    <3>4. CASE v # u /\ w # u
      BY <2>7, <3>1, <3>4 DEF AccountsTypeOK, Exists, Taken
    <3> QED BY <2>7, <3>1, <3>3, <3>4
  <2>8. UsersTyped'
    BY <2>5, <2>7 DEF UsersTyped, OneAddressEach, Exists, Taken
  <2> QED BY <2>1, <2>2, <2>8, TypedInParts DEF OthersTyped
<1> QED BY <1>2, <1>3

\* No other action touches the users.
LEMMA OtherStepsTyped ==
    ASSUME AccountsTypeOK, NEW r \in Requests,
           \/ CheckNew(r) \/ CheckEmail(r) \/ Clear(r) \/ Grant(r)
           \/ \E u \in UserIds : SetUserAgents(r, u)
           \/ \E a \in AgentIds : ForgetAgent(r, a)
    PROVE  AccountsTypeOK'
<1>1. CASE CheckNew(r)
  <2>1. PICK email \in Emails, role \in Roles, agents \in SUBSET AgentIds :
            Becomes(r, [pc |-> "create", email |-> email, role |-> role, agents |-> agents])
    BY <1>1 DEF CheckNew
  <2>2. [pc |-> "create", email |-> email, role |-> role, agents |-> agents] \in Request
    BY DEF Request
  <2> QED BY <1>1, <2>1, <2>2, BecomesTyped, UsersAlone, TypedInParts DEF CheckNew, OthersTyped
<1>2. CASE CheckEmail(r)
  <2>1. request[r] \in [pc: {"dup", "commit"}, user: UserIds, asked: UserChange,
                        write: UserChange]
    BY <1>2, RequestFields DEF CheckEmail
  <2>2. [request[r] EXCEPT !.pc = "commit"] \in Request
    BY <2>1 DEF Request
  <2>3. request' \in [Requests -> Request]
    BY <1>2, <2>2, BecomesTyped, RespondsTyped DEF CheckEmail
  <2> QED BY <1>2, <2>3, UsersAlone, TypedInParts DEF CheckEmail, OthersTyped
<1>3. ASSUME NEW scope \in SUBSET Pairs, NEW grants \in SUBSET Pairs, Replace(r, scope, grants)
      PROVE  AccountsTypeOK'
  <2>1. access \cap scope \in SUBSET Pairs
    OBVIOUS
  <2>2. [pc |-> "clear", scope |-> scope, grants |-> grants, since |-> {},
         seen |-> access \cap scope] \in Request
    BY <2>1 DEF Request
  <2> QED BY <1>3, <2>2, BecomesTyped, UsersAlone, TypedInParts DEF Replace, OthersTyped
<1>4. ASSUME NEW u \in UserIds, SetUserAgents(r, u) PROVE AccountsTypeOK'
  <2>1. PICK agents \in SUBSET AgentIds : Replace(r, {u} \X AgentIds, {u} \X agents)
    BY <1>4 DEF SetUserAgents
  <2>2. ({u} \X AgentIds) \in SUBSET Pairs /\ ({u} \X agents) \in SUBSET Pairs
    BY DEF Pairs
  <2> QED BY <1>3, <2>1, <2>2
<1>5. ASSUME NEW a \in AgentIds, ForgetAgent(r, a) PROVE AccountsTypeOK'
  <2>1. (UserIds \X {a}) \in SUBSET Pairs /\ {} \in SUBSET Pairs
    BY DEF Pairs
  <2> QED BY <1>3, <1>5, <2>1 DEF ForgetAgent
<1>6. CASE Clear(r)
  <2>1. (request[r].seen \cap access) \ request[r].since \in SUBSET Pairs
    BY <1>6, RequestFields DEF Clear
  <2>2. [pc |-> "grant", scope |-> request[r].scope, grants |-> request[r].grants,
         since |-> request[r].since, gone |-> (request[r].seen \cap access) \ request[r].since] \in Request
    BY <1>6, <2>1, RequestFields DEF Clear, Request
  <2> QED BY <1>6, <2>2, BecomesTyped, UsersAlone, TypedInParts DEF Clear, OthersTyped
<1>7. CASE Grant(r)
  <2>1. request[r].grants \in SUBSET Pairs
    BY <1>7, RequestFields DEF Grant
  <2>2. request' \in [Requests -> Request]
    BY <1>7, <2>1, RespondsTyped, GrantedTyped DEF Grant
  <2>3. access' \in SUBSET Pairs
    BY <1>7, <2>1 DEF Grant, AccountsTypeOK
  <2> QED BY <1>7, <2>2, <2>3, UsersAlone, TypedInParts DEF Grant, OthersTyped
<1> QED BY <1>1, <1>2, <1>4, <1>5, <1>6, <1>7

LEMMA LoadKeyTyped ==
    ASSUME AccountsTypeOK, NEW r \in Requests, NEW k \in KeyIds, NEW asked \in KeyChange,
           LoadKey(r, k, asked)
    PROVE  AccountsTypeOK'
<1>1. [column \in DOMAIN asked |-> Modified(asked[column], keys[k][column])] \in KeyChange
  BY DEF KeyChange, Modified
<1>2. [pc |-> "key", key |-> k,
       write |-> [column \in DOMAIN asked |-> Modified(asked[column], keys[k][column])]] \in Request
  BY <1>1 DEF Request
<1> QED BY <1>2, BecomesTyped, UsersAlone, TypedInParts DEF LoadKey, OthersTyped

LEMMA KeyStepsTyped ==
    ASSUME AccountsTypeOK, RowsThere,
           \/ \E r \in Requests : CommitKey(r)
           \/ \E r \in Requests, k \in KeyIds : UseKey(r, k) \/ RevokeKey(r, k)
           \/ \E a \in AgentIds : CreateKey(a)
           \/ \E k \in KeyIds : KeyExpires(k)
    PROVE  AccountsTypeOK'
<1>1. ASSUME NEW r \in Requests, CommitKey(r) PROVE AccountsTypeOK'
  <2>1. request[r].key \in KeyIds /\ request[r].write \in KeyChange
    BY <1>1, RequestFields DEF CommitKey
  <2>2. keys[request[r].key] \in Key
    BY <1>1, <2>1 DEF CommitKey, RowsThere, AccountsTypeOK
  <2>3. keys' \in [KeyIds -> Key \cup {NoRow}]
    BY <1>1, <2>1, <2>2 DEF CommitKey, AccountsTypeOK, Key, KeyChange, Written
  <2> QED BY <1>1, <2>3, RespondsTyped, UsersAlone, TypedInParts DEF CommitKey, OthersTyped
<1>2. ASSUME NEW r \in Requests, NEW k \in KeyIds, UseKey(r, k) \/ RevokeKey(r, k)
      PROVE  AccountsTypeOK'
  <2>1. [active |-> Keep, used |-> TRUE] \in KeyChange /\ [active |-> FALSE, used |-> Keep] \in KeyChange
    BY DEF KeyChange
  <2> QED BY <1>2, <2>1, LoadKeyTyped DEF UseKey, RevokeKey
<1>3. ASSUME NEW a \in AgentIds, CreateKey(a) PROVE AccountsTypeOK'
  <2>1. keys' \in [KeyIds -> Key \cup {NoRow}]
    BY <1>3 DEF CreateKey, Key, AccountsTypeOK
  <2> QED BY <1>3, <2>1, UsersAlone, TypedInParts DEF CreateKey, OthersTyped
<1>4. ASSUME NEW k \in KeyIds, KeyExpires(k) PROVE AccountsTypeOK'
  <2>1. keys[k] \in Key
    BY <1>4 DEF KeyExpires, AccountsTypeOK
  <2>2. keys' \in [KeyIds -> Key \cup {NoRow}]
    BY <1>4, <2>1 DEF KeyExpires, Key, AccountsTypeOK
  <2> QED BY <1>4, <2>2, UsersAlone, TypedInParts DEF KeyExpires, OthersTyped
<1> QED BY <1>1, <1>2, <1>3, <1>4
-----------------------------------------------------------------------------
OnlyAskedFor(change) ==
    \A column \in Columns :
        change.write[column] # Keep => change.write[column] = change.asked[column]

\* A commit writes what was asked for, or nothing.
WritesAsked ==
    \A r \in Requests :
        /\ request[r].pc \in {"dup", "commit"} => OnlyAskedFor(request[r])
        /\ request[r].pc = "key" => request[r].write.active \in {Keep, FALSE}

\* Whatever a request goes on to, a row that it has loaded is there.
GoesOn(r) ==
    \/ request'[r] = request[r]
    \/ request'[r].pc \notin {"dup", "commit", "key"}
    \/ /\ request'[r].pc \in {"dup", "commit"}
       /\ users[request'[r].user] # NoRow
       /\ OnlyAskedFor(request'[r])
    \/ /\ request'[r].pc = "key"
       /\ keys[request'[r].key] # NoRow
       /\ request'[r].write.active \in {Keep, FALSE}

LEMMA BecomesGoesOn ==
    ASSUME AccountsTypeOK, NEW r \in Requests, NEW next, Becomes(r, next),
           \/ next.pc \notin {"dup", "commit", "key"}
           \/ /\ next.pc \in {"dup", "commit"}
              /\ users[next.user] # NoRow
              /\ OnlyAskedFor(next)
           \/ next.pc = "key" /\ keys[next.key] # NoRow /\ next.write.active \in {Keep, FALSE}
    PROVE  \A q \in Requests : GoesOn(q)
<1>1. request'[r] = next /\ \A q \in Requests : q # r => request'[q] = request[q]
  BY DEF AccountsTypeOK, Becomes
<1> QED BY <1>1 DEF GoesOn

LEMMA RespondsGoesOn ==
    ASSUME AccountsTypeOK, NEW r \in Requests, NEW how \in {"done", "failed"}, Responds(r, how)
    PROVE  \A q \in Requests : GoesOn(q)
BY BecomesGoesOn DEF Responds

LEMMA GrantedGoesOn ==
    ASSUME AccountsTypeOK, NEW r \in Requests, NEW pairs, Granted(r, pairs)
    PROVE  \A q \in Requests : GoesOn(q)
<1> SUFFICES ASSUME NEW q \in Requests PROVE GoesOn(q)
  OBVIOUS
<1>1. CASE q = r
  BY <1>1 DEF Granted, GoesOn
<1>2. CASE q # r /\ request[q].pc \in {"clear", "grant"}
  <2>1. request'[q] = [request[q] EXCEPT !.since = @ \cup (pairs \cap request[q].scope)]
    BY <1>2 DEF Granted
  <2>2. request'[q].pc = request[q].pc
    BY <1>2, <2>1 DEF AccountsTypeOK, Request
  <2> QED BY <1>2, <2>2 DEF GoesOn
<1>3. CASE q # r /\ request[q].pc \notin {"clear", "grant"}
  BY <1>3 DEF Granted, GoesOn
<1> QED BY <1>1, <1>2, <1>3

LEMMA LoadUserGoesOn ==
    ASSUME AccountsTypeOK, NEW r \in Requests, NEW u \in UserIds, NEW asked \in UserChange,
           LoadUser(r, u, asked)
    PROVE  \A q \in Requests : GoesOn(q)
<1> DEFINE write == [column \in DOMAIN asked |-> Modified(asked[column], users[u][column])]
           next == [pc |-> IF asked.email = Keep THEN "commit" ELSE "dup", user |-> u,
                    asked |-> asked, write |-> write]
<1>1. \A column \in Columns : write[column] # Keep => write[column] = asked[column]
  BY ColumnsOf DEF Modified
<1>2. Becomes(r, next) /\ users[u] # NoRow
  BY DEF LoadUser, Exists
<1>3. next.write = write /\ next.asked = asked /\ next.user = u /\ next.pc \in {"dup", "commit"}
  OBVIOUS
<1> HIDE DEF next, write
<1> QED BY <1>1, <1>2, <1>3, BecomesGoesOn DEF OnlyAskedFor

LEMMA LoadKeyGoesOn ==
    ASSUME AccountsTypeOK, NEW r \in Requests, NEW k \in KeyIds, NEW asked \in KeyChange,
           asked.active \in {Keep, FALSE}, keys[k] # NoRow, LoadKey(r, k, asked)
    PROVE  \A q \in Requests : GoesOn(q)
<1> DEFINE write == [column \in DOMAIN asked |-> Modified(asked[column], keys[k][column])]
           next == [pc |-> "key", key |-> k, write |-> write]
<1>1. write.active \in {Keep, FALSE}
  BY DEF KeyChange, Modified
<1>2. Becomes(r, next)
  BY DEF LoadKey
<1>3. next.write = write /\ next.key = k /\ next.pc = "key"
  OBVIOUS
<1> HIDE DEF next, write
<1> QED BY <1>1, <1>2, <1>3, BecomesGoesOn

LEMMA AllGoOn ==
    ASSUME AccountsTypeOK, RowsThere, WritesAsked, AccountsNext
    PROVE  \A q \in Requests : GoesOn(q)
<1>1. ASSUME NEW r \in Requests, CheckNew(r) PROVE \A q \in Requests : GoesOn(q)
  BY <1>1, BecomesGoesOn DEF CheckNew
<1>2. ASSUME NEW r \in Requests, CreateUser(r) PROVE \A q \in Requests : GoesOn(q)
  BY <1>2, RespondsGoesOn, GrantedGoesOn DEF CreateUser
<1>3. ASSUME NEW r \in Requests, CheckEmail(r) PROVE \A q \in Requests : GoesOn(q)
  <2>1. CASE Responds(r, "failed")
    BY <2>1, RespondsGoesOn
  <2>2. CASE Becomes(r, [request[r] EXCEPT !.pc = "commit"])
    <3>1. request[r] \in [pc: {"dup", "commit"}, user: UserIds, asked: UserChange,
                          write: UserChange]
      BY <1>3, RequestFields DEF CheckEmail
    <3> DEFINE next == [request[r] EXCEPT !.pc = "commit"]
    <3>2. /\ next.pc = "commit" /\ next.user = request[r].user
          /\ next.asked = request[r].asked /\ next.write = request[r].write
      BY <3>1
    <3>3. Becomes(r, next)
      BY <2>2
    <3> HIDE DEF next
    <3>4. users[next.user] # NoRow /\ OnlyAskedFor(next)
      BY <1>3, <3>2 DEF CheckEmail, RowsThere, WritesAsked, OnlyAskedFor
    <3> QED BY <3>2, <3>3, <3>4, BecomesGoesOn
  <2> QED BY <1>3, <2>1, <2>2 DEF CheckEmail
<1>4. ASSUME NEW r \in Requests, CommitUser(r) PROVE \A q \in Requests : GoesOn(q)
  BY <1>4, RespondsGoesOn DEF CommitUser
<1>5. ASSUME NEW r \in Requests, NEW u \in UserIds,
             UpdateUser(r, u) \/ DeleteUser(r, u) \/ ResetPassword(r, u)
      PROVE  \A q \in Requests : GoesOn(q)
  <2>1. [Nothing EXCEPT !.active = FALSE] \in UserChange
    BY DEF Nothing, UserChange
  <2>2. \A new \in Passwords : [Nothing EXCEPT !.password = new] \in UserChange
    BY DEF Nothing, UserChange
  <2> QED BY <1>5, <2>1, <2>2, LoadUserGoesOn, AccountsAssumption
          DEF UpdateUser, DeleteUser, ResetPassword
<1>6. ASSUME NEW r \in Requests, NEW scope, NEW grants, Replace(r, scope, grants)
      PROVE  \A q \in Requests : GoesOn(q)
  BY <1>6, BecomesGoesOn DEF Replace
<1>7. ASSUME NEW r \in Requests, Clear(r) PROVE \A q \in Requests : GoesOn(q)
  BY <1>7, BecomesGoesOn DEF Clear
<1>8. ASSUME NEW r \in Requests, Grant(r) PROVE \A q \in Requests : GoesOn(q)
  BY <1>8, RespondsGoesOn, GrantedGoesOn DEF Grant
<1>9. ASSUME NEW r \in Requests, CommitKey(r) PROVE \A q \in Requests : GoesOn(q)
  BY <1>9, RespondsGoesOn DEF CommitKey
<1>10. ASSUME NEW r \in Requests, NEW k \in KeyIds, UseKey(r, k) \/ RevokeKey(r, k)
       PROVE  \A q \in Requests : GoesOn(q)
  <2>1. [active |-> Keep, used |-> TRUE] \in KeyChange /\ [active |-> FALSE, used |-> Keep] \in KeyChange
    BY DEF KeyChange
  <2> QED BY <1>10, <2>1, LoadKeyGoesOn DEF UseKey, RevokeKey
<1>11. CASE \/ \E a \in AgentIds : CreateKey(a)
            \/ \E k \in KeyIds : KeyExpires(k)
  BY <1>11 DEF CreateKey, KeyExpires, GoesOn
<1>12. CASE AccountsRestart
  BY <1>12 DEF AccountsRestart, GoesOn
<1> QED BY <1>1, <1>2, <1>3, <1>4, <1>5, <1>6, <1>7, <1>8, <1>9, <1>10, <1>11, <1>12
        DEF AccountsNext, SetUserAgents, ForgetAgent
-----------------------------------------------------------------------------
\* No row is ever removed, and a row changes only as a commit was asked to.
UserKept(u) ==
    users[u] # NoRow =>
        /\ users'[u] # NoRow
        /\ \A column \in Columns : users'[u][column] # users[u][column] =>
            \E r \in Requests :
                /\ request[r].pc = "commit" /\ request[r].user = u
                /\ request[r].asked[column] = users'[u][column]

KeyKept(k) ==
    keys[k] # NoRow => keys'[k] # NoRow /\ (~keys[k].active => ~keys'[k].active)

LEMMA UsersKept ==
    ASSUME AccountsTypeOK, RowsThere, WritesAsked, AccountsNext, NEW u \in UserIds
    PROVE  UserKept(u)
<1>1. CASE UNCHANGED users
  BY <1>1 DEF UserKept
<1>2. ASSUME NEW r \in Requests, CreateUser(r) PROVE UserKept(u)
  <2>1. users[u] # NoRow => users'[u] = users[u]
    BY <1>2 DEF CreateUser, AccountsTypeOK, Exists
  <2> QED BY <2>1 DEF UserKept
<1>3. ASSUME NEW r \in Requests, CommitUser(r) PROVE UserKept(u)
  <2> DEFINE v == request[r].user
             write == request[r].write
             new == [column \in DOMAIN write |-> Written(users[v][column], write[column])]
  <2>1. v \in UserIds /\ write \in UserChange /\ request[r].pc = "commit"
    BY <1>3, RequestFields DEF CommitUser
  <2>2. CASE u # v \/ UNCHANGED users
    BY <1>3, <2>1, <2>2 DEF CommitUser, UserKept, AccountsTypeOK
  <2>3. CASE u = v /\ ~UNCHANGED users
    <3>1. users[u] \in User
      BY <2>1, <2>3 DEF AccountsTypeOK, RowsThere
    <3>2. users'[u] = new
      BY <1>3, <2>1, <2>3 DEF CommitUser, AccountsTypeOK
    <3>3. new \in User
      BY <2>1, <2>3, <3>1, WrittenTyped
    <3>4. \A column \in Columns : new[column] = Written(users[u][column], write[column])
      BY <2>1, <2>3, ColumnsOf
    <3> HIDE DEF new
    <3>5. \A column \in Columns : users'[u][column] # users[u][column] =>
            request[r].asked[column] = users'[u][column]
      BY <2>1, <3>2, <3>4 DEF Written, WritesAsked, OnlyAskedFor
    <3> QED BY <2>1, <2>3, <3>2, <3>3, <3>5, AccountsAssumption DEF UserKept
  <2> QED BY <2>2, <2>3
<1> QED BY <1>1, <1>2, <1>3
        DEF AccountsNext, CheckNew, CheckEmail, UpdateUser, DeleteUser, ResetPassword, LoadUser,
            SetUserAgents, ForgetAgent, Replace, Clear, Grant, CommitKey, UseKey, RevokeKey,
            LoadKey, CreateKey, KeyExpires, AccountsRestart

LEMMA KeysKept ==
    ASSUME AccountsTypeOK, RowsThere, WritesAsked, AccountsNext, NEW k \in KeyIds
    PROVE  KeyKept(k)
<1>1. CASE UNCHANGED keys
  BY <1>1 DEF KeyKept
<1>2. ASSUME NEW r \in Requests, CommitKey(r) PROVE KeyKept(k)
  <2>1. request[r].key \in KeyIds /\ request[r].write.active \in {Keep, FALSE}
    BY <1>2, RequestFields DEF CommitKey, WritesAsked
  <2>2. keys[request[r].key] \in Key
    BY <1>2, <2>1 DEF CommitKey, RowsThere, AccountsTypeOK
  <2>3. CASE k = request[r].key
    <3>1. keys'[k] \in Key
      BY <1>2, <2>1, <2>2, <2>3, RequestFields DEF CommitKey, AccountsTypeOK, Key, KeyChange, Written
    <3>2. keys'[k].active = Written(keys[k].active, request[r].write.active)
      BY <1>2, <2>1, <2>2, <2>3 DEF CommitKey, AccountsTypeOK, Key
    <3> QED BY <2>1, <2>2, <2>3, <3>1, <3>2, AccountsAssumption DEF KeyKept, Written
  <2>4. CASE k # request[r].key
    BY <1>2, <2>1, <2>4 DEF CommitKey, AccountsTypeOK, KeyKept
  <2> QED BY <2>3, <2>4
<1>3. ASSUME NEW a \in AgentIds, CreateKey(a) PROVE KeyKept(k)
  <2>1. keys[k] # NoRow => keys'[k] = keys[k]
    BY <1>3 DEF CreateKey, AccountsTypeOK
  <2> QED BY <2>1 DEF KeyKept
<1>4. ASSUME NEW l \in KeyIds, KeyExpires(l) PROVE KeyKept(k)
  <2>1. keys[l] \in Key
    BY <1>4 DEF KeyExpires, AccountsTypeOK
  <2>2. keys[k] # NoRow => keys'[k] \in Key /\ keys'[k].active = keys[k].active
    BY <1>4, <2>1 DEF KeyExpires, AccountsTypeOK, Key
  <2> QED BY <2>2, AccountsAssumption DEF KeyKept
<1> QED BY <1>1, <1>2, <1>3, <1>4
        DEF AccountsNext, CheckNew, CreateUser, CheckEmail, CommitUser, UpdateUser, DeleteUser,
            ResetPassword, LoadUser, SetUserAgents, ForgetAgent, Replace, Clear, Grant, UseKey,
            RevokeKey, LoadKey, AccountsRestart

\* The inductive invariant: types, with what is known of the rows on the way.
AccountsInv == AccountsTypeOK /\ RowsThere /\ WritesAsked

LEMMA AccountsInvInit == AccountsInit => AccountsInv
<1> SUFFICES ASSUME AccountsInit PROVE RowsThere /\ WritesAsked
  BY AccountsTypeInit DEF AccountsInv
<1> QED BY DEF AccountsInit, RowsThere, WritesAsked

LEMMA AccountsStepTyped ==
    ASSUME AccountsTypeOK, RowsThere, AccountsNext
    PROVE  AccountsTypeOK'
<1>1. ASSUME NEW r \in Requests, NEW u \in UserIds,
             UpdateUser(r, u) \/ DeleteUser(r, u) \/ ResetPassword(r, u)
      PROVE  AccountsTypeOK'
  <2>1. [Nothing EXCEPT !.active = FALSE] \in UserChange
    BY DEF Nothing, UserChange
  <2>2. \A new \in Passwords : [Nothing EXCEPT !.password = new] \in UserChange
    BY DEF Nothing, UserChange
  <2> QED BY <1>1, <2>1, <2>2, LoadUserTyped, AccountsAssumption
          DEF UpdateUser, DeleteUser, ResetPassword
<1>2. CASE AccountsRestart
  <2>1. request' \in [Requests -> Request]
    BY <1>2 DEF AccountsRestart, Request
  <2> QED BY <1>2, <2>1, UsersAlone, TypedInParts DEF AccountsRestart, OthersTyped
<1> QED BY <1>1, <1>2, CreateUserTyped, CommitUserTyped, OtherStepsTyped, KeyStepsTyped
        DEF AccountsNext

LEMMA AccountsInvStep == AccountsInv /\ [AccountsNext]_accountVars => AccountsInv'
<1> SUFFICES ASSUME AccountsInv, [AccountsNext]_accountVars PROVE AccountsInv'
  OBVIOUS
<1>1. CASE AccountsNext
  <2>1. AccountsTypeOK'
    BY <1>1, AccountsStepTyped DEF AccountsInv
  <2>2. ASSUME NEW q \in Requests
        PROVE  /\ request'[q].pc \in {"dup", "commit"} =>
                    users[request'[q].user] # NoRow /\ OnlyAskedFor(request'[q])
               /\ request'[q].pc = "key" =>
                    keys[request'[q].key] # NoRow /\ request'[q].write.active \in {Keep, FALSE}
    BY <1>1, AllGoOn DEF AccountsInv, GoesOn, RowsThere, WritesAsked
  <2>3. ASSUME NEW q \in Requests
        PROVE  /\ request'[q].pc \in {"dup", "commit"} => request'[q].user \in UserIds
               /\ request'[q].pc = "key" => request'[q].key \in KeyIds
    BY <2>1 DEF AccountsTypeOK, Request
  <2>4. RowsThere'
    BY <1>1, <2>2, <2>3, UsersKept, KeysKept DEF AccountsInv, RowsThere, UserKept, KeyKept
  <2>5. WritesAsked'
    BY <2>2 DEF WritesAsked, OnlyAskedFor
  <2> QED BY <2>1, <2>4, <2>5 DEF AccountsInv
<1>2. CASE UNCHANGED accountVars
  BY <1>2, UsersAlone, TypedInParts
     DEF accountVars, AccountsInv, OthersTyped, RowsThere, WritesAsked
<1> QED BY <1>1, <1>2
-----------------------------------------------------------------------------
\* The accounts of api/auth.py keep their types, and however requests overlap
\* no two of them ever have one address.
THEOREM AccountsTypeCorrect == AccountsSpec => []AccountsTypeOK
<1>1. AccountsInv => AccountsTypeOK
  BY DEF AccountsInv
<1> QED BY <1>1, AccountsInvInit, AccountsInvStep, PTL DEF AccountsSpec

\* No request of api/auth.py brings back what another has changed: a column of
\* a user changes only to what the committing request was asked for, no row is
\* removed and a revoked key stays revoked.
THEOREM NeverUndone == AccountsSpec => NothingUndone
<1> DEFINE Step ==
      /\ \A u \in UserIds : Exists(u) =>
            /\ users'[u] # NoRow
            /\ \A column \in DOMAIN users[u] : users'[u][column] # users[u][column] =>
                \E r \in Requests :
                    /\ request[r].pc = "commit" /\ request[r].user = u
                    /\ request[r].asked[column] = users'[u][column]
      /\ \A k \in KeyIds : keys[k] # NoRow => keys'[k] # NoRow
            /\ (~keys[k].active => ~keys'[k].active)
<1>1. AccountsInv /\ [AccountsNext]_accountVars => [Step]_accountVars
  <2> SUFFICES ASSUME AccountsInv, AccountsNext PROVE Step
    OBVIOUS
  <2>1. \A u \in UserIds : Exists(u) => DOMAIN users[u] = Columns
    BY ColumnsOf DEF AccountsInv, AccountsTypeOK, Exists
  <2> QED BY <2>1, UsersKept, KeysKept DEF AccountsInv, UserKept, KeyKept, Exists
<1>2. NothingUndone <=> [][Step]_accountVars
  BY PTL DEF NothingUndone
<1> QED BY <1>1, <1>2, AccountsInvInit, AccountsInvStep, PTL DEF AccountsSpec
-----------------------------------------------------------------------------
\* What is there of the rows a request replaces, it has found or was told of.
Found(r) ==
    /\ request[r].pc = "clear" =>
        access \cap request[r].scope \subseteq request[r].seen \cup request[r].since
    /\ request[r].pc = "grant" =>
        access \cap request[r].scope \subseteq request[r].gone \cup request[r].since

AllFound == \A r \in Requests : Found(r)

\* A step that only takes rows away, and lets r be, keeps what r has found.
LEMMA FoundStays ==
    ASSUME NEW r \in Requests, Found(r), access' \subseteq access, request'[r] = request[r]
    PROVE  Found(r)'
BY DEF Found

LEMMA BecomesFound ==
    ASSUME AccountsTypeOK, AllFound, UNCHANGED access, NEW r \in Requests, NEW next,
           Becomes(r, next),
           /\ next.pc = "clear" => access \cap next.scope \subseteq next.seen \cup next.since
           /\ next.pc = "grant" => access \cap next.scope \subseteq next.gone \cup next.since
    PROVE  AllFound'
<1>1. request'[r] = next /\ \A q \in Requests : q # r => request'[q] = request[q]
  BY DEF AccountsTypeOK, Becomes
<1> QED BY <1>1, FoundStays DEF AllFound, Found

LEMMA RespondsFound ==
    ASSUME AccountsTypeOK, AllFound, UNCHANGED access, NEW r \in Requests,
           NEW how \in {"done", "failed"}, Responds(r, how)
    PROVE  AllFound'
BY BecomesFound DEF Responds

LEMMA GrantedFound ==
    ASSUME AccountsTypeOK, AllFound, NEW r \in Requests, NEW pairs \in SUBSET Pairs,
           Granted(r, pairs), access' \subseteq access \cup pairs
    PROVE  AllFound'
<1> SUFFICES ASSUME NEW q \in Requests PROVE Found(q)'
  BY DEF AllFound
<1>1. CASE q = r
  BY <1>1 DEF Granted, Found
<1>2. CASE q # r /\ request[q].pc \notin {"clear", "grant"}
  BY <1>2 DEF Granted, Found
<1>3. CASE q # r /\ request[q].pc = "clear"
  <2>1. request[q] \in [pc: {"clear"}, scope: SUBSET Pairs, grants: SUBSET Pairs,
                        since: SUBSET Pairs, seen: SUBSET Pairs]
    BY <1>3 DEF AccountsTypeOK, Request
  <2>2. request'[q] = [request[q] EXCEPT !.since = @ \cup (pairs \cap request[q].scope)]
    BY <1>3 DEF Granted
  <2>3. /\ request'[q].pc = "clear" /\ request'[q].scope = request[q].scope
        /\ request'[q].seen = request[q].seen
        /\ request'[q].since = request[q].since \cup (pairs \cap request[q].scope)
    BY <2>1, <2>2
  <2> QED BY <1>3, <2>3 DEF AllFound, Found
<1>4. CASE q # r /\ request[q].pc = "grant"
  <2>1. request[q] \in [pc: {"grant"}, scope: SUBSET Pairs, grants: SUBSET Pairs,
                        since: SUBSET Pairs, gone: SUBSET Pairs]
    BY <1>4 DEF AccountsTypeOK, Request
  <2>2. request'[q] = [request[q] EXCEPT !.since = @ \cup (pairs \cap request[q].scope)]
    BY <1>4 DEF Granted
  <2>3. /\ request'[q].pc = "grant" /\ request'[q].scope = request[q].scope
        /\ request'[q].gone = request[q].gone
        /\ request'[q].since = request[q].since \cup (pairs \cap request[q].scope)
    BY <2>1, <2>2
  <2> QED BY <1>4, <2>3 DEF AllFound, Found
<1> QED BY <1>1, <1>2, <1>3, <1>4

LEMMA FoundStep ==
    ASSUME AccountsInv, AllFound, [AccountsNext]_accountVars
    PROVE  AllFound'
<1> USE DEF AccountsInv
<1>1. ASSUME NEW r \in Requests, CheckNew(r) PROVE AllFound'
  BY <1>1, BecomesFound DEF CheckNew
<1>2. ASSUME NEW r \in Requests, CreateUser(r) PROVE AllFound'
  <2>1. \A u \in UserIds : ({u} \X request[r].agents) \in SUBSET Pairs
    BY <1>2, RequestFields DEF CreateUser, Pairs
  <2> QED BY <1>2, <2>1, RespondsFound, GrantedFound DEF CreateUser
<1>3. ASSUME NEW r \in Requests, CheckEmail(r) PROVE AllFound'
  <2>1. request[r] \in [pc: {"dup", "commit"}, user: UserIds, asked: UserChange,
                        write: UserChange]
    BY <1>3, RequestFields DEF CheckEmail
  <2>2. [request[r] EXCEPT !.pc = "commit"].pc = "commit"
    BY <2>1
  <2> QED BY <1>3, <2>2, RespondsFound, BecomesFound DEF CheckEmail
<1>4. ASSUME NEW r \in Requests, CommitUser(r) PROVE AllFound'
  BY <1>4, RespondsFound DEF CommitUser
<1>5. ASSUME NEW r \in Requests, NEW u \in UserIds,
             UpdateUser(r, u) \/ DeleteUser(r, u) \/ ResetPassword(r, u)
      PROVE  AllFound'
  <2>1. ASSUME NEW asked, LoadUser(r, u, asked) PROVE AllFound'
    BY <2>1, BecomesFound DEF LoadUser
  <2> QED BY <1>5, <2>1 DEF UpdateUser, DeleteUser, ResetPassword
<1>6. ASSUME NEW r \in Requests, NEW scope, NEW grants, Replace(r, scope, grants)
      PROVE  AllFound'
  BY <1>6, BecomesFound DEF Replace
<1>7. ASSUME NEW r \in Requests, Clear(r) PROVE AllFound'
  <2>1. access \cap request[r].scope
            \subseteq ((request[r].seen \cap access) \ request[r].since) \cup request[r].since
    BY <1>7 DEF Clear, AllFound, Found
  <2> QED BY <1>7, <2>1, BecomesFound DEF Clear
<1>8. ASSUME NEW r \in Requests, Grant(r) PROVE AllFound'
  <2>1. request[r].grants \in SUBSET Pairs
    BY <1>8, RequestFields DEF Grant
  <2> QED BY <1>8, <2>1, RespondsFound, GrantedFound DEF Grant
<1>9. ASSUME NEW r \in Requests, CommitKey(r) PROVE AllFound'
  BY <1>9, RespondsFound DEF CommitKey
<1>10. ASSUME NEW r \in Requests, NEW k \in KeyIds, UseKey(r, k) \/ RevokeKey(r, k)
       PROVE  AllFound'
  <2>1. ASSUME NEW asked, LoadKey(r, k, asked) PROVE AllFound'
    BY <2>1, BecomesFound DEF LoadKey
  <2> QED BY <1>10, <2>1 DEF UseKey, RevokeKey
<1>11. CASE \/ \E a \in AgentIds : CreateKey(a)
            \/ \E k \in KeyIds : KeyExpires(k)
            \/ UNCHANGED accountVars
  BY <1>11, FoundStays DEF CreateKey, KeyExpires, accountVars, AllFound
<1>12. CASE AccountsRestart
  BY <1>12 DEF AccountsRestart, AllFound, Found
<1> QED BY <1>1, <1>2, <1>3, <1>4, <1>5, <1>6, <1>7, <1>8, <1>9, <1>10, <1>11, <1>12
        DEF AccountsNext, SetUserAgents, ForgetAgent

\* A request that was to grant and is done has granted.
LEMMA OnlyGrants ==
    ASSUME AccountsTypeOK, AccountsNext, NEW r \in Requests,
           request[r].pc = "grant", request'[r].pc = "done"
    PROVE  Grant(r)
<1>1. ASSUME NEW q \in Requests, NEW next, Becomes(q, next), request[q].pc # "grant"
      PROVE  FALSE
  BY <1>1 DEF Becomes, AccountsTypeOK
<1>2. ASSUME NEW q \in Requests, NEW how, Responds(q, how), q # r
      PROVE  FALSE
  BY <1>2 DEF Responds, Becomes, AccountsTypeOK
<1>3. ASSUME NEW q \in Requests, NEW pairs, Granted(q, pairs), q # r
      PROVE  FALSE
  <2>1. request[r] \in [pc: {"grant"}, scope: SUBSET Pairs, grants: SUBSET Pairs,
                        since: SUBSET Pairs, gone: SUBSET Pairs]
    BY DEF AccountsTypeOK, Request
  <2>2. request'[r] = [request[r] EXCEPT !.since = @ \cup (pairs \cap request[r].scope)]
    BY <1>3 DEF Granted
  <2>3. request'[r].pc = "grant"
    BY <2>1, <2>2
  <2> QED BY <2>3
<1>4. ASSUME NEW q \in Requests, Grant(q)
      PROVE  Grant(r)
  BY <1>2, <1>3, <1>4 DEF Grant
<1>5. ASSUME NEW q \in Requests, CreateUser(q)
      PROVE  FALSE
  <2>1. q # r
    BY <1>5 DEF CreateUser
  <2> QED BY <1>2, <1>3, <1>5, <2>1 DEF CreateUser
<1>6. ASSUME NEW q \in Requests, CheckEmail(q) \/ CommitUser(q) \/ CommitKey(q)
      PROVE  FALSE
  BY <1>1, <1>6 DEF CheckEmail, CommitUser, CommitKey, Responds
<1>7. ASSUME NEW q \in Requests, NEW u \in UserIds,
             UpdateUser(q, u) \/ DeleteUser(q, u) \/ ResetPassword(q, u)
      PROVE  FALSE
  BY <1>1, <1>7 DEF UpdateUser, DeleteUser, ResetPassword, LoadUser, Ready
<1>8. ASSUME NEW q \in Requests, NEW scope, NEW grants, Replace(q, scope, grants)
      PROVE  FALSE
  BY <1>1, <1>8 DEF Replace, Ready
<1>9. ASSUME NEW q \in Requests, CheckNew(q) \/ Clear(q)
      PROVE  FALSE
  BY <1>1, <1>9 DEF CheckNew, Clear, Ready
<1>10. ASSUME NEW q \in Requests, NEW k \in KeyIds, UseKey(q, k) \/ RevokeKey(q, k)
       PROVE  FALSE
  BY <1>1, <1>10 DEF UseKey, RevokeKey, LoadKey, Ready
<1>11. CASE \/ \E a \in AgentIds : CreateKey(a)
            \/ \E k \in KeyIds : KeyExpires(k)
            \/ AccountsRestart
  BY <1>11 DEF CreateKey, KeyExpires, AccountsRestart
<1> QED BY <1>4, <1>5, <1>6, <1>7, <1>8, <1>9, <1>10, <1>11
        DEF AccountsNext, SetUserAgents, ForgetAgent

\* However requests overlap, one of api/auth.py that replaces a user's agents,
\* or clears an agent's users, leaves of these rows what it was asked for and
\* what others granted while it went on.
THEOREM GrantedAsAsked == AccountsSpec => GrantsAsAsked
<1> DEFINE Left(r) ==
      request[r].pc = "grant" /\ request'[r].pc = "done" =>
        /\ request[r].grants \subseteq access'
        /\ access' \cap request[r].scope \subseteq request[r].grants \cup request[r].since
<1>1. AccountsInit => AllFound
  BY DEF AccountsInit, AllFound, Found
<1>2. ASSUME AccountsInv, AllFound, AccountsNext, NEW r \in Requests
      PROVE  Left(r)
  <2> SUFFICES ASSUME request[r].pc = "grant", request'[r].pc = "done"
               PROVE  /\ request[r].grants \subseteq access'
                      /\ access' \cap request[r].scope \subseteq request[r].grants \cup request[r].since
    OBVIOUS
  <2>1. Grant(r)
    BY <1>2, OnlyGrants DEF AccountsInv
  <2>2. ~Responds(r, "failed")
    BY <1>2 DEF Responds, Becomes, AccountsInv, AccountsTypeOK
  <2>3. access' = (access \ request[r].gone) \cup request[r].grants
    BY <2>1, <2>2 DEF Grant
  <2>4. access \cap request[r].scope \subseteq request[r].gone \cup request[r].since
    BY <1>2 DEF AllFound, Found
  <2> QED BY <2>3, <2>4
<1>3. AccountsInv /\ AllFound /\ [AccountsNext]_accountVars
        => [\A r \in Requests : Left(r)]_accountVars
  BY <1>2
<1>4. AccountsInv /\ AllFound /\ [AccountsNext]_accountVars => AllFound'
  BY FoundStep
<1>5. GrantsAsAsked <=> [][\A r \in Requests : Left(r)]_accountVars
  BY PTL DEF GrantsAsAsked
<1> QED BY <1>1, <1>3, <1>4, <1>5, AccountsInvInit, AccountsInvStep, PTL DEF AccountsSpec
=============================================================================
