---------------------------- MODULE UserAccounts ----------------------------
(***************************************************************************)
(* api/auth.py: the accounts of the dashboard, which agents they see, and  *)
(* the keys of agents.  Every endpoint is a plain function, run in a       *)
(* thread with a session of its own: requests overlap between the query    *)
(* and the commit.  The database is at READ COMMITTED.                     *)
(***************************************************************************)
EXTENDS FiniteSets

CONSTANTS Requests,   \* in progress at once
          UserIds, Emails, Roles, Passwords, AgentIds, KeyIds,
          NoRow,
          Keep,       \* a column that is not asked for, or not written
          Asks,       \* bound: what updates of a user ask for
          Desks       \* which of "users", "grants" and "keys" is asked for

VARIABLES users,   \* users
          access,  \* user_agent_access
          keys,    \* api_keys
          request, \* what each request is going through
          desk     \* what is asked for in this behaviour

accountVars == <<users, access, keys, request, desk>>

User == [email: Emails, role: Roles, active: BOOLEAN, password: Passwords]
UserChange == [email: Emails \cup {Keep}, role: Roles \cup {Keep},
               active: BOOLEAN \cup {Keep}, password: Passwords \cup {Keep}]
Key == [agent: AgentIds, active: BOOLEAN, used: BOOLEAN, expires: {"never", "ahead", "past"}]
KeyChange == [active: BOOLEAN \cup {Keep}, used: BOOLEAN \cup {Keep}]
Pairs == UserIds \X AgentIds

ASSUME AccountsAssumption ==
    /\ Keep \notin Emails \cup Roles \cup Passwords \cup BOOLEAN
    /\ NoRow \notin User \cup Key
    /\ Asks \subseteq {change \in UserChange : change.password = Keep}

\* scope: the rows a request replaces; since: of these, granted by others
\* while it goes on; seen: those its DELETE finds; gone: those it has locked.
Request ==
    [pc: {"done", "failed"}]
    \cup [pc: {"create"}, email: Emails, role: Roles, agents: SUBSET AgentIds]
    \cup [pc: {"dup", "commit"}, user: UserIds, asked: UserChange, write: UserChange]
    \cup [pc: {"clear"}, scope: SUBSET Pairs, grants: SUBSET Pairs, since: SUBSET Pairs,
          seen: SUBSET Pairs]
    \cup [pc: {"grant"}, scope: SUBSET Pairs, grants: SUBSET Pairs, since: SUBSET Pairs,
          gone: SUBSET Pairs]
    \cup [pc: {"key"}, key: KeyIds, write: KeyChange]

Exists(u) == users[u] # NoRow
Taken(email, u) == \E v \in UserIds \ {u} : Exists(v) /\ users[v].email = email

\* No two accounts have one address, active or not.
AccountsTypeOK ==
    /\ users \in [UserIds -> User \cup {NoRow}]
    /\ access \in SUBSET Pairs
    /\ keys \in [KeyIds -> Key \cup {NoRow}]
    /\ request \in [Requests -> Request]
    /\ desk \in Desks
    /\ \A u \in UserIds : Exists(u) => ~Taken(users[u].email, u)

AccountsInit ==
    /\ users = [u \in UserIds |-> NoRow]
    /\ access = {}
    /\ keys = [k \in KeyIds |-> NoRow]
    /\ request = [r \in Requests |-> [pc |-> "done"]]
    /\ desk \in Desks

Ready(r, kind) == request[r].pc \in {"done", "failed"} /\ kind \in desk
Becomes(r, next) == request' = [request EXCEPT ![r] = next]
Responds(r, how) == Becomes(r, [pc |-> how])

\* Mutant: every column is written, as loaded where nothing is asked.
ModifiedOrLoaded(new, loaded) == IF new = Keep THEN loaded ELSE new

\* The commit writes the columns whose new value differs from the loaded one.
Modified(new, loaded) == IF new = loaded THEN Keep ELSE new

Written(old, new) == IF new = Keep THEN old ELSE new
---------------------------------------------------------------------------
(* Users *)

\* What others replace is told what is granted meanwhile.
Granted(r, pairs) ==
    request' = [q \in Requests |->
        IF q = r THEN [pc |-> "done"]
        ELSE IF request[q].pc \in {"clear", "grant"}
             THEN [request[q] EXCEPT !.since = @ \cup (pairs \cap request[q].scope)]
             ELSE request[q]]

CheckNew(r) ==
    /\ \E kind \in {"users", "grants"} : Ready(r, kind)
    /\ \E email \in Emails, role \in Roles, agents \in SUBSET AgentIds :
        /\ agents = {} \/ "grants" \in desk
        /\ \A u \in UserIds : ~Taken(email, u)
        /\ Becomes(r, [pc |-> "create", email |-> email, role |-> role, agents |-> agents])
    /\ UNCHANGED <<users, access, keys, desk>>

\* Mutant: the address is not unique in the table.
CreateUserAnyway(r) ==
    /\ request[r].pc = "create"
    /\ \E u \in UserIds, password \in Passwords :
        /\ ~Exists(u)
        /\ users' = [users EXCEPT ![u] =
               [email |-> request[r].email, role |-> request[r].role,
                active |-> TRUE, password |-> password]]
        /\ access' = access \cup ({u} \X request[r].agents)
        /\ Granted(r, {u} \X request[r].agents)
    /\ UNCHANGED <<keys, desk>>

\* The address may be taken since: the INSERT raises.
CreateUser(r) ==
    /\ request[r].pc = "create"
    /\ \/ /\ \E u \in UserIds : Taken(request[r].email, u)
          /\ Responds(r, "failed")
          /\ UNCHANGED <<users, access>>
       \/ \E u \in UserIds, password \in Passwords :
          /\ \A v \in UserIds : ~Taken(request[r].email, v)
          /\ ~Exists(u)
          /\ users' = [users EXCEPT ![u] =
                 [email |-> request[r].email, role |-> request[r].role,
                  active |-> TRUE, password |-> password]]
          /\ access' = access \cup ({u} \X request[r].agents)
          /\ Granted(r, {u} \X request[r].agents)
    /\ UNCHANGED <<keys, desk>>

Nothing == [email |-> Keep, role |-> Keep, active |-> Keep, password |-> Keep]

LoadUser(r, u, asked) ==
    /\ Ready(r, "users") /\ Exists(u)
    /\ Becomes(r, [pc |-> IF asked.email = Keep THEN "commit" ELSE "dup", user |-> u,
                   asked |-> asked,
                   write |-> [column \in DOMAIN asked |->
                                 Modified(asked[column], users[u][column])]])
    /\ UNCHANGED <<users, access, keys, desk>>

UpdateUser(r, u) == \E asked \in Asks : LoadUser(r, u, asked)

\* The row stays, and so does what it could see.
DeleteUser(r, u) == LoadUser(r, u, [Nothing EXCEPT !.active = FALSE])

ResetPassword(r, u) ==
    \E new \in Passwords :
        /\ Exists(u) => users[u].password # new
        /\ LoadUser(r, u, [Nothing EXCEPT !.password = new])

CheckEmail(r) ==
    /\ request[r].pc = "dup"
    /\ IF Taken(request[r].asked.email, request[r].user)
       THEN Responds(r, "failed")
       ELSE Becomes(r, [request[r] EXCEPT !.pc = "commit"])
    /\ UNCHANGED <<users, access, keys, desk>>

CommitUser(r) ==
    /\ request[r].pc = "commit"
    /\ LET u == request[r].user
           write == request[r].write
       IN IF Taken(write.email, u)
          THEN Responds(r, "failed") /\ UNCHANGED users
          ELSE /\ users' = [users EXCEPT ![u] =
                      [column \in DOMAIN write |-> Written(users[u][column], write[column])]]
               /\ Responds(r, "done")
    /\ UNCHANGED <<access, keys, desk>>
---------------------------------------------------------------------------
(* Which agents a user sees: replaced for a user, cleared for an agent *)

Replace(r, scope, grants) ==
    /\ Ready(r, "grants")
    /\ Becomes(r, [pc |-> "clear", scope |-> scope, grants |-> grants, since |-> {},
                   seen |-> access \cap scope])
    /\ UNCHANGED <<users, access, keys, desk>>

SetUserAgents(r, u) ==
    /\ Exists(u)
    /\ \E agents \in SUBSET AgentIds : Replace(r, {u} \X AgentIds, {u} \X agents)

\* AgentManager.permanently_delete_agent; no endpoint asks for the agent's row.
ForgetAgent(r, a) == Replace(r, UserIds \X {a}, {})

\* Mutant: nothing is cleared.
ClearNothing(r) ==
    /\ request[r].pc = "clear"
    /\ Becomes(r, [pc |-> "grant", scope |-> request[r].scope, grants |-> request[r].grants,
                   since |-> request[r].since, gone |-> {}])
    /\ UNCHANGED <<users, access, keys, desk>>

\* The DELETE takes the rows that were there when it began.  It waits for the
\* transactions that have them locked, and passes over those gone by then; one
\* granted again is another row, which it does not see.
Clear(r) ==
    /\ request[r].pc = "clear"
    /\ \A q \in Requests : request[q].pc = "grant" => request[q].gone \cap request[r].seen = {}
    /\ Becomes(r, [pc |-> "grant", scope |-> request[r].scope, grants |-> request[r].grants,
                   since |-> request[r].since,
                   gone |-> (request[r].seen \cap access) \ request[r].since])
    /\ UNCHANGED <<users, access, keys, desk>>

\* A row that another request granted meanwhile makes the INSERT raise.
Grant(r) ==
    /\ request[r].pc = "grant"
    /\ \A q \in Requests \ {r} : request[q].pc = "grant" =>
            request[q].gone \cap request[r].grants = {}
    /\ IF (access \ request[r].gone) \cap request[r].grants # {}
       THEN Responds(r, "failed") /\ UNCHANGED access
       ELSE /\ access' = (access \ request[r].gone) \cup request[r].grants
            /\ Granted(r, request[r].grants)
    /\ UNCHANGED <<users, keys, desk>>
---------------------------------------------------------------------------
(* Keys *)

CreateKey(a) ==
    /\ "keys" \in desk
    /\ \E k \in KeyIds, expires \in {"never", "ahead", "past"} :
        /\ keys[k] = NoRow
        /\ keys' = [keys EXCEPT ![k] =
               [agent |-> a, active |-> TRUE, used |-> FALSE, expires |-> expires]]
    /\ UNCHANGED <<users, access, request, desk>>

LoadKey(r, k, asked) ==
    /\ Ready(r, "keys")
    /\ Becomes(r, [pc |-> "key", key |-> k,
                   write |-> [column \in DOMAIN asked |->
                                 Modified(asked[column], keys[k][column])]])
    /\ UNCHANGED <<users, access, keys, desk>>

UseKey(r, k) ==
    /\ keys[k] # NoRow /\ keys[k].active /\ keys[k].expires # "past"
    /\ LoadKey(r, k, [active |-> Keep, used |-> TRUE])

RevokeKey(r, k) ==
    /\ keys[k] # NoRow
    /\ LoadKey(r, k, [active |-> FALSE, used |-> Keep])

CommitKey(r) ==
    /\ request[r].pc = "key"
    /\ LET k == request[r].key IN
        keys' = [keys EXCEPT ![k].active = Written(@, request[r].write.active),
                             ![k].used = Written(@, request[r].write.used)]
    /\ Responds(r, "done")
    /\ UNCHANGED <<users, access, desk>>

KeyExpires(k) ==
    /\ keys[k] # NoRow /\ keys[k].expires = "ahead"
    /\ keys' = [keys EXCEPT ![k].expires = "past"]
    /\ UNCHANGED <<users, access, request, desk>>

\* What was not committed is rolled back.
AccountsRestart ==
    /\ request' = [r \in Requests |-> [pc |-> "failed"]]
    /\ UNCHANGED <<users, access, keys, desk>>

AccountsNext ==
    \/ \E r \in Requests :
        \/ CheckNew(r) \/ CreateUser(r) \/ CheckEmail(r) \/ CommitUser(r)
        \/ \E u \in UserIds :
            UpdateUser(r, u) \/ DeleteUser(r, u) \/ ResetPassword(r, u) \/ SetUserAgents(r, u)
        \/ \E a \in AgentIds : ForgetAgent(r, a)
        \/ Clear(r) \/ Grant(r) \/ CommitKey(r)
        \/ \E k \in KeyIds : UseKey(r, k) \/ RevokeKey(r, k)
    \/ \E a \in AgentIds : CreateKey(a)
    \/ \E k \in KeyIds : KeyExpires(k)
    \/ AccountsRestart

AccountsSpec == AccountsInit /\ [][AccountsNext]_accountVars
---------------------------------------------------------------------------
(* Properties *)

\* However requests overlap, a column of a user changes only to what the
\* request that commits was asked for: an update loaded before a deactivation
\* or a new password commits does not bring the old one back.  Nor does a use
\* of a key, which writes its row, bring a revoked key back.
NothingUndone ==
    [][/\ \A u \in UserIds : Exists(u) =>
            /\ users'[u] # NoRow
            /\ \A column \in DOMAIN users[u] : users'[u][column] # users[u][column] =>
                \E r \in Requests :
                    /\ request[r].pc = "commit" /\ request[r].user = u
                    /\ request[r].asked[column] = users'[u][column]
       /\ \A k \in KeyIds : keys[k] # NoRow => keys'[k] # NoRow
            /\ (~keys[k].active => ~keys'[k].active)]_accountVars

\* A request that succeeds leaves, of the rows that it replaces, those it was
\* asked for and nothing else but what others granted while it went on: no old
\* grant outlives it, though its DELETE passes over rows another has deleted.
GrantsAsAsked ==
    [][\A r \in Requests : request[r].pc = "grant" /\ request'[r].pc = "done" =>
        /\ request[r].grants \subseteq access'
        /\ access' \cap request[r].scope \subseteq request[r].grants \cup request[r].since
      ]_accountVars
=============================================================================
