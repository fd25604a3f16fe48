-------------------------- MODULE DashboardProofs --------------------------
(***************************************************************************)
(* Theorems about Dashboard for any finite number of chats, any number of  *)
(* renames, threads and users, and any budget: its types, how far chats in *)
(* progress together overshoot the budget, that the cache lists every row  *)
(* and that a row's owner stays.                                           *)
(***************************************************************************)
EXTENDS Dashboard, FiniteSetTheorems, TLAPS

DashCalls == DashChats \cup DashRenames
DashCallType == {DashIdle} \cup DashTalking \cup DashSaving

\* What a request knows has its type.
LEMMA CallFields ==
    ASSUME DashTypeOK, NEW c \in DashCalls
    PROVE  /\ dashCall[c].pc = "chat" => dashCall[c] \in DashTalking
           /\ Saving(c) => dashCall[c] \in DashSaving
           /\ dashCall[c] = DashIdle => dashCall[c].pc = "idle"
BY DEF DashTypeOK, DashCalls, Saving, DashIdle, DashTalking, DashSaving

\* A table with one more row is a table.
LEMMA PutTyped ==
    ASSUME NEW table \in Table, NEW t \in Threads, NEW meta \in Meta
    PROVE  /\ Put(table, t, meta) \in Table
           /\ DOMAIN Put(table, t, meta) = DOMAIN table \cup {t}
<1>1. PICK T \in SUBSET Threads : table \in [T -> Meta]
  BY DEF Table
<1>2. Put(table, t, meta) \in [T \cup {t} -> Meta]
  BY <1>1 DEF Put
<1>3. T \cup {t} \in SUBSET Threads
  OBVIOUS
<1> QED BY <1>1, <1>2, <1>3 DEF Table, Put

\* The rows of a table are threads' rows.
LEMMA TableFields ==
    ASSUME NEW table \in Table
    PROVE  /\ DOMAIN table \subseteq Threads
           /\ \A t \in DOMAIN table : table[t] \in Meta
           /\ table = [t \in DOMAIN table |-> table[t]]
BY DEF Table

LEMMA EmptyTable == [t \in {} |-> {}] \in Table
<1>1. [t \in {} |-> {}] \in [{} -> Meta]
  OBVIOUS
<1> QED BY <1>1 DEF Table

\* How a request moves: one call changes, and the cache at most by one row.
Moves(c) ==
    /\ \E call \in DashCallType : dashCall' = [dashCall EXCEPT ![c] = call]
    /\ \/ cache' = cache
       \/ \E t \in Threads, meta \in Meta : cache' = Put(cache, t, meta)
    /\ dashCall'[c].pc \in {"query", "insert", "update"} => dashCall'[c].thread \in DOMAIN cache'
    /\ DOMAIN cache \subseteq DOMAIN cache'

LEMMA SaveMetaMoves ==
    ASSUME DashTypeOK, NEW c \in DashCalls, NEW t \in Threads, NEW meta \in Meta, SaveMeta(c, t, meta)
    PROVE  Moves(c) /\ dashCall'[c].pc = "query"
<1>1. [pc |-> "query", thread |-> t, meta |-> meta] \in DashCallType
  BY DEF DashCallType, DashSaving
<1>2. dashCall'[c] = [pc |-> "query", thread |-> t, meta |-> meta]
  BY DEF SaveMeta, DashStep, DashTypeOK, DashCalls
<1>3. t \in DOMAIN cache' /\ DOMAIN cache \subseteq DOMAIN cache'
  <2>1. cache \in Table
    BY DEF DashTypeOK
  <2>2. DOMAIN Put(cache, t, meta) = DOMAIN cache \cup {t}
    BY <2>1, PutTyped
  <2>3. cache' = Put(cache, t, meta)
    BY DEF SaveMeta
  <2>4. DOMAIN cache' = DOMAIN cache \cup {t}
    BY <2>2, <2>3
  <2> QED BY <2>4
<1>4. /\ dashCall' = [dashCall EXCEPT ![c] = [pc |-> "query", thread |-> t, meta |-> meta]]
      /\ cache' = Put(cache, t, meta)
  BY DEF SaveMeta, DashStep
<1>5. dashCall'[c].pc = "query" /\ dashCall'[c].thread = t
  BY <1>2
<1> QED BY <1>1, <1>3, <1>4, <1>5 DEF Moves

\* A move that leaves the cache alone.
LEMMA CallMoves ==
    ASSUME DashTypeOK, NEW c \in DashCalls, NEW call \in DashCallType,
           call.pc \notin {"query", "insert", "update"},
           DashStep(c, call), cache' = cache
    PROVE  Moves(c) /\ dashCall'[c] = call
<1>1. dashCall' = [dashCall EXCEPT ![c] = call]
  BY DEF DashStep
<1>2. dashCall'[c] = call
  BY <1>1 DEF DashTypeOK, DashCalls
<1>3. \E d \in DashCallType : dashCall' = [dashCall EXCEPT ![c] = d]
  BY <1>1
<1>4. DOMAIN cache \subseteq DOMAIN cache'
  OBVIOUS
<1> QED BY <1>2, <1>3, <1>4 DEF Moves

LEMMA IdleCall == DashIdle \in DashCallType /\ DashIdle.pc = "idle"
BY DEF DashIdle, DashCallType

LEMMA ConcludeMoves ==
    ASSUME DashTypeOK, NEW c \in DashCalls, NEW user \in Users, NEW t \in Threads,
           NEW new \in BOOLEAN, Conclude(c, user, t, new)
    PROVE  Moves(c) /\ dashCall'[c].pc # "chat"
<1>1. CASE new
  <2>1. PICK title \in Titles : SaveMeta(c, t, [title |-> title, owner |-> user])
    BY <1>1 DEF Conclude
  <2>2. [title |-> title, owner |-> user] \in Meta
    BY DEF Meta
  <2> QED BY <2>1, <2>2, SaveMetaMoves
<1>2. CASE ~new
  <2>1. DashStep(c, DashIdle) /\ cache' = cache
    BY <1>2 DEF Conclude
  <2> QED BY <2>1, IdleCall, CallMoves
<1> QED BY <1>1, <1>2

\* Only an Ask within the budget begins to talk.
LEMMA AskMoves ==
    ASSUME DashTypeOK, NEW c \in DashCalls, NEW user \in Users, NEW t \in Threads,
           NEW new \in BOOLEAN, NEW stream \in BOOLEAN, Ask(c, user, t, new, stream)
    PROVE  Moves(c) /\ (dashCall'[c].pc = "chat" => UnderBudget)
<1>1. CASE UnderBudget
  <2> DEFINE call == [pc |-> "chat", user |-> user, thread |-> t, new |-> new, stream |-> stream]
  <2>1. DashStep(c, call) /\ cache' = cache
    BY <1>1 DEF Ask
  <2>2. call \in DashCallType /\ call.pc \notin {"query", "insert", "update"}
    BY DEF DashCallType, DashTalking
  <2> QED BY <1>1, <2>1, <2>2, CallMoves
<1>2. CASE ~UnderBudget
  BY <1>2, ConcludeMoves DEF Ask
<1> QED BY <1>1, <1>2

LEMMA MovesTyped ==
    ASSUME DashTypeOK, NEW c \in DashCalls, Moves(c)
    PROVE  cache' \in Table /\ dashCall' \in [DashCalls -> DashCallType]
<1>1. cache' \in Table
  <2>1. cache \in Table
    BY DEF DashTypeOK
  <2>2. \A t \in Threads, meta \in Meta : Put(cache, t, meta) \in Table
    BY <2>1, PutTyped
  <2> QED BY <2>1, <2>2 DEF Moves
<1>2. dashCall' \in [DashCalls -> DashCallType]
  BY DEF Moves, DashTypeOK, DashCalls, DashCallType
<1> QED BY <1>1, <1>2

\* Every step of a request on the loop is a move.
LEMMA ChatMoves ==
    ASSUME DashTypeOK, NEW c \in DashChats, Chat(c) \/ ChatAnswered(c) \/ ChatFails(c)
    PROVE  /\ Moves(c) /\ rows' = rows /\ loaded' = loaded
           /\ dashCall'[c].pc = "chat" => UnderBudget /\ UNCHANGED <<spent, actions>>
<1> USE DEF DashCalls
<1>1. CASE Chat(c)
  <2>1. PICK user \in Users, t \in Unheard \cup DOMAIN cache, new \in BOOLEAN :
          Ask(c, user, t, new, c \in DashStreams)
    BY <1>1 DEF Chat
  <2>2. t \in Threads
    BY <2>1, TableFields DEF Unheard, DashTypeOK
  <2>3. rows' = rows /\ loaded' = loaded /\ UNCHANGED <<spent, actions>>
    BY <1>1 DEF Chat
  <2>4. (c \in DashStreams) \in BOOLEAN /\ c \in DashCalls
    OBVIOUS
  <2>5. Moves(c) /\ (dashCall'[c].pc = "chat" => UnderBudget)
    BY <2>1, <2>2, <2>4, AskMoves
  <2> QED BY <2>3, <2>5
<1>2. CASE ChatAnswered(c)
  <2>1. dashCall[c] \in DashTalking
    BY <1>2, CallFields DEF ChatAnswered
  <2> QED BY <1>2, <2>1, ConcludeMoves DEF ChatAnswered, DashTalking
<1>3. CASE ChatFails(c)
  <2>1. dashCall[c] \in DashTalking
    BY <1>3, CallFields DEF ChatFails
  <2>2. CASE DashStep(c, DashIdle) /\ cache' = cache
    <3>1. Moves(c) /\ dashCall'[c].pc = "idle"
      BY <2>2, IdleCall, CallMoves
    <3> QED BY <1>3, <3>1 DEF ChatFails
  <2>3. CASE Ask(c, dashCall[c].user, dashCall[c].thread, dashCall[c].new, FALSE)
    BY <1>3, <2>1, <2>3, AskMoves DEF ChatFails, DashTalking
  <2> QED BY <1>3, <2>2, <2>3 DEF ChatFails
<1> QED BY <1>1, <1>2, <1>3

LEMMA RenameMoves ==
    ASSUME DashTypeOK, NEW c \in DashRenames, Rename(c)
    PROVE  Moves(c) /\ dashCall'[c].pc = "query"
<1>1. PICK t \in Threads, title \in Titles :
        SaveMeta(c, t, [title |-> title, owner |-> NoUser])
  BY DEF Rename
<1>2. [title |-> title, owner |-> NoUser] \in Meta
  BY DEF Meta
<1> QED BY <1>1, <1>2, SaveMetaMoves DEF DashCalls

\* Every step of a saving is a move that leaves the cache alone.
LEMMA SavingMoves ==
    ASSUME DashTypeOK, NEW c \in DashCalls,
           SaveQuery(c) \/ SaveUpdate(c) \/ SaveInsert(c) \/ SaveFails(c)
    PROVE  /\ \E call \in DashCallType : dashCall' = [dashCall EXCEPT ![c] = call]
           /\ cache' = cache /\ Saving(c) /\ dashCall[c] \in DashSaving
           /\ dashCall'[c].pc \in {"query", "insert", "update"} =>
                dashCall'[c].thread = dashCall[c].thread
           /\ dashCall'[c].pc # "chat"
<1>1. Saving(c) /\ dashCall[c] \in DashSaving
  BY CallFields DEF SaveQuery, SaveUpdate, SaveInsert, SaveFails, Saving
<1>2. CASE SaveQuery(c)
  <2> DEFINE call == [dashCall[c] EXCEPT
                 !.pc = IF dashCall[c].thread \in DOMAIN rows THEN "update" ELSE "insert"]
  <2>1. call \in DashSaving /\ call.thread = dashCall[c].thread
    BY <1>1 DEF DashSaving
  <2>2. dashCall' = [dashCall EXCEPT ![c] = call]
    BY <1>2 DEF SaveQuery, DashStep
  <2>3. dashCall'[c] = call
    BY <2>2 DEF DashTypeOK, DashCalls
  <2> QED BY <1>1, <1>2, <2>1, <2>2, <2>3 DEF SaveQuery, DashCallType, DashSaving
<1>3. CASE SaveUpdate(c) \/ SaveInsert(c) \/ SaveFails(c)
  <2>1. dashCall' = [dashCall EXCEPT ![c] = DashIdle] /\ cache' = cache
    BY <1>3 DEF SaveUpdate, SaveInsert, SaveFails, DashStep
  <2>2. dashCall'[c] = DashIdle
    BY <2>1 DEF DashTypeOK, DashCalls
  <2> QED BY <1>1, <2>1, <2>2, IdleCall
<1> QED BY <1>2, <1>3

\* Rows are inserted and their titles changed, nothing else; the row inserted
\* is that of the request.
LEMMA SavingRows ==
    ASSUME DashTypeOK, NEW c \in DashCalls,
           SaveQuery(c) \/ SaveUpdate(c) \/ SaveInsert(c) \/ SaveFails(c)
    PROVE  /\ rows' \in Table
           /\ DOMAIN rows \subseteq DOMAIN rows'
           /\ DOMAIN rows' \subseteq DOMAIN rows \cup {dashCall[c].thread}
           /\ \A t \in DOMAIN rows : rows'[t].owner = rows[t].owner
<1>1. dashCall[c] \in DashSaving /\ rows \in Table
  BY SavingMoves DEF DashTypeOK
<1> DEFINE t == dashCall[c].thread
           meta == dashCall[c].meta
<1>2. t \in Threads /\ meta \in Meta /\ meta.title \in Titles
  BY <1>1 DEF DashSaving, Meta
<1>3. CASE SaveUpdate(c)
  <2>1. rows' = [rows EXCEPT ![t].title = meta.title]
    BY <1>3 DEF SaveUpdate
  <2>2. PICK T \in SUBSET Threads : rows \in [T -> Meta]
    BY <1>1 DEF Table
  <2>3. \A u \in T : rows'[u] = IF u = t THEN [rows[u] EXCEPT !.title = meta.title] ELSE rows[u]
    BY <2>1, <2>2
  <2>4. \A u \in T : rows'[u] \in Meta /\ rows'[u].owner = rows[u].owner
    BY <2>2, <2>3, <1>2 DEF Meta
  <2>5. rows' \in [T -> Meta]
    BY <2>1, <2>2, <2>4
  <2> QED BY <2>2, <2>4, <2>5 DEF Table
<1>4. CASE SaveInsert(c) /\ t \notin DOMAIN rows
  <2>1. rows' = Put(rows, t, meta)
    BY <1>4 DEF SaveInsert
  <2>2. \A u \in DOMAIN rows : rows'[u] = rows[u]
    BY <2>1, <1>4 DEF Put
  <2>3. Put(rows, t, meta) \in Table /\ DOMAIN Put(rows, t, meta) = DOMAIN rows \cup {t}
    BY <1>1, <1>2, PutTyped
  <2>4. rows' \in Table /\ DOMAIN rows' = DOMAIN rows \cup {t}
    BY <2>1, <2>3
  <2> QED BY <2>2, <2>4
<1>5. CASE SaveQuery(c) \/ SaveFails(c) \/ (SaveInsert(c) /\ t \in DOMAIN rows)
  BY <1>1, <1>5 DEF SaveQuery, SaveFails, SaveInsert
<1> QED BY <1>3, <1>4, <1>5
-----------------------------------------------------------------------------
LEMMA DashTypeInit == DashInit => DashTypeOK
BY EmptyTable DEF DashInit, DashTypeOK

LEMMA DashTypeStep == DashTypeOK /\ [DashNext]_dashVars => DashTypeOK'
<1> SUFFICES ASSUME DashTypeOK, [DashNext]_dashVars PROVE DashTypeOK'
  OBVIOUS
<1> USE DEF DashCalls, DashCallType
<1>1. ASSUME NEW c \in DashChats, Chat(c) \/ ChatAnswered(c) \/ ChatFails(c) PROVE DashTypeOK'
  <2>1. cache' \in Table /\ dashCall' \in [DashCalls -> DashCallType]
    BY <1>1, ChatMoves, MovesTyped
  <2>2. rows' = rows /\ loaded' = loaded
    BY <1>1, ChatMoves
  <2>3. spent' \in Nat /\ actions' \in Nat
    <3>1. spent \in Nat /\ actions \in Nat /\ \A cost \in 0..MaxCost : cost \in Nat
      BY DashboardAssumption DEF DashTypeOK
    <3>2. UNCHANGED <<spent, actions>> \/ StoreTokenUsage
      BY <1>1 DEF Chat, ChatAnswered, ChatFails
    <3> QED BY <3>1, <3>2 DEF StoreTokenUsage
  <2> QED BY <2>1, <2>2, <2>3 DEF DashTypeOK
<1>2. ASSUME NEW c \in DashRenames, Rename(c) PROVE DashTypeOK'
  <2>1. cache' \in Table /\ dashCall' \in [DashCalls -> DashCallType]
    BY <1>2, RenameMoves, MovesTyped
  <2> QED BY <1>2, <2>1 DEF Rename, DashTypeOK
<1>3. ASSUME NEW c \in DashCalls,
             SaveQuery(c) \/ SaveUpdate(c) \/ SaveInsert(c) \/ SaveFails(c)
      PROVE  DashTypeOK'
  <2>1. dashCall' \in [DashCalls -> DashCallType] /\ cache' = cache
    BY <1>3, SavingMoves DEF DashTypeOK
  <2>2. rows' \in Table
    BY <1>3, SavingRows
  <2> QED BY <1>3, <2>1, <2>2 DEF DashTypeOK, SaveQuery, SaveUpdate, SaveInsert, SaveFails
<1>4. CASE Midnight
  BY <1>4 DEF Midnight, DashTypeOK
<1>5. CASE HourPasses
  BY <1>5 DEF HourPasses, DashTypeOK
<1>6. CASE DashRestart
  BY <1>6, EmptyTable DEF DashRestart, DashTypeOK
<1>7. CASE UNCHANGED dashVars
  BY <1>7 DEF dashVars, DashTypeOK
<1> QED BY <1>1, <1>2, <1>3, <1>4, <1>5, <1>6, <1>7 DEF DashNext

\* The cache, the table, the sums and the requests keep their types.
THEOREM DashTypeCorrect == DashSpec => []DashTypeOK
<1> QED BY DashTypeInit, DashTypeStep, PTL DEF DashSpec
-----------------------------------------------------------------------------
(* The budget: each chat in progress was let in below the budget, and the   *)
(* others have paid already.                                                *)

Talking == {c \in DashChats : dashCall[c].pc = "chat"}

\* What is spent, and what so many chats in progress may yet spend.
Covers(cost, records, n) ==
    /\ cost + n * MaxCost <= Budget - 1 + Cardinality(DashChats) * MaxCost
    /\ records + n <= RateLimit - 1 + Cardinality(DashChats)

Covered == Covers(spent, actions, Cardinality(Talking))

\* Fewer chats cost less.
LEMMA Fewer ==
    ASSUME NEW S, IsFiniteSet(S), NEW T, T \subseteq S
    PROVE  /\ IsFiniteSet(T)
           /\ Cardinality(S) \in Nat /\ Cardinality(T) \in Nat
           /\ Cardinality(T) <= Cardinality(S)
           /\ \A x \in S \ T : Cardinality(T) + 1 <= Cardinality(S)
<1>1. IsFiniteSet(T) /\ Cardinality(T) <= Cardinality(S)
  BY FS_Subset
<1>2. Cardinality(S) \in Nat /\ Cardinality(T) \in Nat
  BY <1>1, FS_CardinalityType
<1>3. ASSUME NEW x \in S \ T PROVE Cardinality(T) + 1 <= Cardinality(S)
  <2>1. Cardinality(T \cup {x}) = Cardinality(T) + 1
    BY <1>1, <1>3, FS_AddElement
  <2>2. T \cup {x} \in SUBSET S
    BY <1>3
  <2>3. Cardinality(T \cup {x}) <= Cardinality(S)
    BY <2>2, FS_Subset
  <2> QED BY <2>1, <2>3
<1> QED BY <1>1, <1>2, <1>3

LEMMA Costs ==
    ASSUME NEW m \in Nat, NEW n \in Nat, m <= n
    PROVE  /\ m * MaxCost \in Nat /\ n * MaxCost \in Nat
           /\ m * MaxCost <= n * MaxCost
           /\ (m + 1) * MaxCost = m * MaxCost + MaxCost
BY DashboardAssumption

LEMMA Counts ==
    /\ IsFiniteSet(Talking) /\ Cardinality(Talking) \in Nat
    /\ Cardinality(DashChats) \in Nat /\ Cardinality(Talking) <= Cardinality(DashChats)
<1>1. Talking \subseteq DashChats /\ IsFiniteSet(DashChats)
  BY DashboardAssumption DEF Talking
<1> QED BY <1>1, Fewer

\* Below the budget any number of chats is covered.
LEMMA CoversBelow ==
    ASSUME NEW cost \in Nat, NEW records \in Nat, cost < Budget, records < RateLimit,
           NEW n \in Nat, n <= Cardinality(DashChats)
    PROVE  Covers(cost, records, n)
<1> DEFINE r == Cardinality(DashChats)
<1>1. r \in Nat
  BY Counts
<1>2. n * MaxCost <= r * MaxCost /\ n * MaxCost \in Nat /\ r * MaxCost \in Nat
  BY <1>1, Costs
<1>3. Budget \in Nat /\ RateLimit \in Nat
  BY DashboardAssumption
<1> QED BY <1>1, <1>2, <1>3 DEF Covers

\* Nothing more is spent, or a chat that ends spends what was kept for it.
LEMMA CoversLess ==
    ASSUME NEW cost \in Nat, NEW records \in Nat, NEW n \in Nat, Covers(cost, records, n),
           NEW less \in Nat, NEW fewer \in Nat, NEW m \in Nat,
           \/ m <= n /\ less <= cost /\ fewer <= records
           \/ m + 1 <= n /\ less <= cost + MaxCost /\ fewer <= records + 1
    PROVE  Covers(less, fewer, m)
<1> DEFINE r == Cardinality(DashChats)
<1>1. r \in Nat /\ r * MaxCost \in Nat
  BY Counts, Costs
<1>2. Budget \in Nat /\ RateLimit \in Nat /\ MaxCost \in Nat
  BY DashboardAssumption
<1>3. CASE m <= n /\ less <= cost /\ fewer <= records
  <2>1. m * MaxCost <= n * MaxCost /\ m * MaxCost \in Nat /\ n * MaxCost \in Nat
    BY <1>3, Costs
  <2> QED BY <1>1, <1>2, <1>3, <2>1 DEF Covers
<1>4. CASE m + 1 <= n /\ less <= cost + MaxCost /\ fewer <= records + 1
  <2>1. /\ (m + 1) * MaxCost <= n * MaxCost
        /\ m * MaxCost \in Nat /\ n * MaxCost \in Nat
        /\ (m + 1) * MaxCost = m * MaxCost + MaxCost
    BY <1>4, Costs
  <2> QED BY <1>1, <1>2, <1>4, <2>1 DEF Covers
<1> QED BY <1>3, <1>4

LEMMA CoveredInit == DashInit => Covered
<1> SUFFICES ASSUME DashInit PROVE Covered
  OBVIOUS
<1>1. 0 < Budget /\ 0 < RateLimit
  BY DashboardAssumption
<1>2. spent = 0 /\ actions = 0
  BY DEF DashInit
<1> QED BY <1>1, <1>2, Counts, CoversBelow DEF Covered

\* One chat's step: it begins below the budget, goes on, or ends.
LEMMA CoveredChat ==
    ASSUME DashTypeOK, DashTypeOK', Covered, NEW c \in DashChats,
           Chat(c) \/ ChatAnswered(c) \/ ChatFails(c)
    PROVE  Covered'
<1> DEFINE k == Cardinality(Talking)
           l == Cardinality(Talking')
<1>1. \A d \in DashChats : d # c => dashCall'[d] = dashCall[d]
  BY ChatMoves DEF Moves, DashTypeOK, DashCalls
<1>2. /\ IsFiniteSet(Talking) /\ k \in Nat
      /\ spent \in Nat /\ actions \in Nat /\ spent' \in Nat /\ actions' \in Nat
  BY Counts DEF DashTypeOK
<1>3. CASE dashCall'[c].pc = "chat"
  <2>1. UnderBudget /\ spent' = spent /\ actions' = actions
    BY <1>3, ChatMoves
  <2>2. Talking' \subseteq DashChats /\ IsFiniteSet(DashChats)
    BY DashboardAssumption DEF Talking
  <2>3. l \in Nat /\ l <= Cardinality(DashChats)
    BY <2>2, Fewer
  <2>4. Covers(spent', actions', l)
    BY <1>2, <2>1, <2>3, CoversBelow DEF UnderBudget
  <2> QED BY <2>4 DEF Covered, Covers
<1>4. CASE dashCall'[c].pc # "chat"
  <2>1. Talking' \subseteq Talking /\ c \notin Talking'
    BY <1>1, <1>4 DEF Talking
  <2>2. l \in Nat /\ l <= k /\ (c \in Talking => l + 1 <= k)
    BY <1>2, <2>1, Fewer
  <2>3. CASE UNCHANGED <<spent, actions>>
    <3>1. Covers(spent', actions', l)
      BY <1>2, <2>2, <2>3, CoversLess DEF Covered
    <3> QED BY <3>1 DEF Covered, Covers
  <2>4. CASE ChatAnswered(c) /\ StoreTokenUsage
    <3>1. c \in Talking
      BY <2>4 DEF ChatAnswered, Talking
    <3>2. MaxCost \in Nat
      BY DashboardAssumption
    <3>3. spent' <= spent + MaxCost /\ actions' <= actions + 1
      BY <1>2, <2>4, <3>2 DEF StoreTokenUsage
    <3>4. Covers(spent', actions', l)
      BY <1>2, <2>2, <3>1, <3>3, CoversLess DEF Covered
    <3> QED BY <3>4 DEF Covered, Covers
  <2> QED BY <2>3, <2>4 DEF Chat, ChatAnswered, ChatFails
<1> QED BY <1>3, <1>4

LEMMA CoveredStep ==
    ASSUME DashTypeOK, DashTypeOK', Covered, [DashNext]_dashVars
    PROVE  Covered'
<1> DEFINE k == Cardinality(Talking)
           l == Cardinality(Talking')
<1>1. ASSUME NEW c \in DashChats, Chat(c) \/ ChatAnswered(c) \/ ChatFails(c) PROVE Covered'
  BY <1>1, CoveredChat
<1>2. ASSUME Talking' \subseteq Talking, spent' <= spent, actions' <= actions PROVE Covered'
  <2>1. /\ IsFiniteSet(Talking) /\ k \in Nat
        /\ spent \in Nat /\ actions \in Nat /\ spent' \in Nat /\ actions' \in Nat
    BY Counts DEF DashTypeOK
  <2>2. l \in Nat /\ l <= k
    BY <1>2, <2>1, Fewer
  <2>3. Covers(spent', actions', l)
    BY <1>2, <2>1, <2>2, CoversLess DEF Covered
  <2> QED BY <2>3 DEF Covered, Covers
<1>3. spent \in Nat /\ actions \in Nat
  BY DEF DashTypeOK
<1>4. ASSUME NEW c \in DashRenames, Rename(c) PROVE Covered'
  <2>1. c \notin DashChats /\ c \in DashCalls
    BY DashboardAssumption DEF DashCalls
  <2>2. \A d \in DashChats : dashCall'[d] = dashCall[d]
    BY <1>4, <2>1, RenameMoves DEF Moves, DashTypeOK, DashCalls
  <2>3. Talking' \subseteq Talking
    BY <2>2 DEF Talking
  <2> QED BY <1>2, <1>3, <1>4, <2>3 DEF Rename
<1>5. ASSUME NEW c \in DashCalls,
             SaveQuery(c) \/ SaveUpdate(c) \/ SaveInsert(c) \/ SaveFails(c)
      PROVE  Covered'
  <2>1. dashCall'[c].pc # "chat" /\ \A d \in DashCalls : d # c => dashCall'[d] = dashCall[d]
    BY <1>5, SavingMoves DEF DashTypeOK, DashCalls
  <2>2. Talking' \subseteq Talking
    BY <2>1 DEF Talking, DashCalls
  <2> QED BY <1>2, <1>3, <1>5, <2>2 DEF SaveQuery, SaveUpdate, SaveInsert, SaveFails
<1>6. CASE Midnight
  BY <1>2, <1>3, <1>6 DEF Midnight, Talking
<1>7. CASE HourPasses
  BY <1>2, <1>3, <1>7 DEF HourPasses, Talking
<1>8. CASE DashRestart
  <2>1. \A d \in DashChats : dashCall'[d] = DashIdle
    BY <1>8 DEF DashRestart
  <2>2. Talking' \subseteq Talking
    BY <2>1, IdleCall DEF Talking
  <2> QED BY <1>2, <1>3, <1>8, <2>2 DEF DashRestart
<1>9. CASE UNCHANGED dashVars
  BY <1>2, <1>3, <1>9 DEF dashVars, Talking
<1> QED BY <1>1, <1>4, <1>5, <1>6, <1>7, <1>8, <1>9 DEF DashNext, DashCalls

\* The invariant gives the bound, with no chat in progress or with many.
LEMMA CoveredBounds == DashTypeOK /\ Covered => BudgetBound
<1> SUFFICES ASSUME DashTypeOK, Covered PROVE BudgetBound
  OBVIOUS
<1> DEFINE k == Cardinality(Talking)
           r == Cardinality(DashChats)
<1>1. k \in Nat /\ r \in Nat /\ spent \in Nat /\ actions \in Nat
  BY Counts DEF DashTypeOK
<1>2. k * MaxCost \in Nat /\ r * MaxCost \in Nat
  BY <1>1, Costs
<1>3. Budget \in Nat /\ RateLimit \in Nat
  BY DashboardAssumption
<1> QED BY <1>1, <1>2, <1>3 DEF Covered, Covers, BudgetBound

\* Chats in progress together overshoot the budget of a day and the rate of an
\* hour by no more than what each of them costs.
THEOREM BudgetBounded == DashSpec => []BudgetBound
<1>1. DashTypeOK /\ Covered /\ [DashNext]_dashVars => (DashTypeOK /\ Covered)'
  BY DashTypeStep, CoveredStep
<1> QED BY <1>1, DashTypeInit, CoveredInit, CoveredBounds, PTL DEF DashSpec
-----------------------------------------------------------------------------
(* The tables *)

\* What a request is saving is in the cache already.
SavedCached ==
    loaded =>
        /\ DOMAIN rows \subseteq DOMAIN cache
        /\ \A c \in DashCalls : Saving(c) => dashCall[c].thread \in DOMAIN cache

LEMMA SavedCachedStep ==
    ASSUME DashTypeOK, SavedCached, [DashNext]_dashVars
    PROVE  SavedCached'
<1>1. ASSUME NEW c \in DashCalls, Moves(c), rows' = rows, loaded' = loaded PROVE SavedCached'
  <2>1. \A d \in DashCalls : d # c => dashCall'[d] = dashCall[d]
    BY <1>1 DEF Moves, DashTypeOK, DashCalls
  <2> QED BY <1>1, <2>1 DEF SavedCached, Moves, Saving
<1>2. ASSUME NEW c \in DashChats, Chat(c) \/ ChatAnswered(c) \/ ChatFails(c) PROVE SavedCached'
  BY <1>1, <1>2, ChatMoves DEF DashCalls
<1>3. ASSUME NEW c \in DashRenames, Rename(c) PROVE SavedCached'
  BY <1>1, <1>3, RenameMoves DEF DashCalls, Rename
<1>4. ASSUME NEW c \in DashCalls,
             SaveQuery(c) \/ SaveUpdate(c) \/ SaveInsert(c) \/ SaveFails(c)
      PROVE  SavedCached'
  <2>1. \A d \in DashCalls : d # c => dashCall'[d] = dashCall[d]
    BY <1>4, SavingMoves DEF DashTypeOK, DashCalls
  <2>2. /\ cache' = cache /\ Saving(c)
        /\ Saving(c)' => dashCall'[c].thread = dashCall[c].thread
    BY <1>4, SavingMoves DEF Saving
  <2>3. DOMAIN rows' \subseteq DOMAIN rows \cup {dashCall[c].thread}
    BY <1>4, SavingRows
  <2>4. loaded' = loaded
    BY <1>4 DEF SaveQuery, SaveUpdate, SaveInsert, SaveFails
  <2> QED BY <2>1, <2>2, <2>3, <2>4 DEF SavedCached, Saving
<1>5. CASE Midnight \/ HourPasses \/ UNCHANGED dashVars
  BY <1>5 DEF Midnight, HourPasses, dashVars, SavedCached, Saving
<1>6. CASE DashRestart
  <2>1. \A d \in DashCalls : dashCall'[d] = DashIdle
    BY <1>6 DEF DashRestart, DashCalls
  <2>2. \A d \in DashCalls : ~Saving(d)'
    BY <2>1, IdleCall DEF Saving
  <2> QED BY <1>6, <2>2 DEF DashRestart, SavedCached
<1> QED BY <1>2, <1>3, <1>4, <1>5, <1>6 DEF DashNext, DashCalls

\* Every thread that has a row is listed, unless start-up has failed to read
\* the table.
THEOREM RowsAlwaysCached == DashSpec => []RowsCached
<1>1. DashInit => SavedCached
  BY IdleCall DEF DashInit, SavedCached, Saving, DashCalls
<1>2. DashTypeOK /\ SavedCached /\ [DashNext]_dashVars => SavedCached'
  BY SavedCachedStep
<1>3. SavedCached => RowsCached
  BY DEF SavedCached, RowsCached
<1> QED BY <1>1, <1>2, <1>3, DashTypeInit, DashTypeStep, PTL DEF DashSpec

LEMMA OwnersStep ==
    ASSUME DashTypeOK, [DashNext]_dashVars
    PROVE  \A t \in DOMAIN rows : t \in DOMAIN rows' /\ rows'[t].owner = rows[t].owner
<1>1. ASSUME NEW c \in DashCalls,
             SaveQuery(c) \/ SaveUpdate(c) \/ SaveInsert(c) \/ SaveFails(c)
      PROVE  \A t \in DOMAIN rows : t \in DOMAIN rows' /\ rows'[t].owner = rows[t].owner
  <2>1. DOMAIN rows \subseteq DOMAIN rows' /\ \A t \in DOMAIN rows : rows'[t].owner = rows[t].owner
    BY <1>1, SavingRows
  <2> QED BY <2>1
<1>2. CASE rows' = rows
  BY <1>2
<1>3. \A c \in DashChats : Chat(c) \/ ChatAnswered(c) \/ ChatFails(c) => rows' = rows
  BY DEF Chat, ChatAnswered, ChatFails
<1>4. \A c \in DashRenames : Rename(c) => rows' = rows
  BY DEF Rename
<1>5. Midnight \/ HourPasses \/ DashRestart \/ UNCHANGED dashVars => rows' = rows
  BY DEF Midnight, HourPasses, DashRestart, dashVars
<1> QED BY <1>1, <1>2, <1>3, <1>4, <1>5 DEF DashNext, DashCalls

\* No rename, failure or restart changes the owner a row was given.
THEOREM OwnersKept == DashSpec => RowOwnerKept
<1>1. DashTypeOK /\ [DashNext]_dashVars =>
        [\A t \in DOMAIN rows : t \in DOMAIN rows' /\ rows'[t].owner = rows[t].owner]_dashVars
  BY OwnersStep
<1> QED BY <1>1, DashTypeInit, DashTypeStep, PTL DEF DashSpec, RowOwnerKept
=============================================================================
