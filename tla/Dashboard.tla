----------------------------- MODULE Dashboard -----------------------------
(***************************************************************************)
(* api/dashboard.py and core/cost_guard.py: the chats and the renames of   *)
(* the dashboard.  Threads' titles and owners live twice, in the cache     *)
(* _thread_meta and in the table thread_meta; token_usage records what the *)
(* cost guard later counts.                                                *)
(*                                                                         *)
(* Chats are coroutines and end without an await, so their savings exclude *)
(* each other; renames run in threads of their own.                        *)
(***************************************************************************)
EXTENDS Naturals, FiniteSets

CONSTANTS DashChats,    \* chats of the dashboard in progress at once
          DashStreams,  \* those of the streaming endpoint
          DashRenames,  \* renames in progress at once
          Threads, Users, Titles,
          NoUser,       \* the owner that is not recorded
          Budget,       \* daily_cost_budget_usd, positive
          RateLimit,    \* max_actions_per_hour, positive
          MaxCost,      \* of one chat
          MaxActions    \* bound: recorded chats in an hour

ASSUME DashboardAssumption ==
    /\ IsFiniteSet(DashChats) /\ DashStreams \subseteq DashChats
    /\ DashChats \cap DashRenames = {}
    /\ NoUser \notin Users
    /\ Budget \in Nat \ {0} /\ RateLimit \in Nat \ {0}
    /\ MaxCost \in Nat /\ MaxActions \in Nat

VARIABLES cache,    \* _thread_meta
          rows,     \* thread_meta
          loaded,   \* whether the cache was read at start-up
          spent,    \* today's cost in token_usage
          actions,  \* records of token_usage in the last hour
          dashCall  \* what each request is doing

dashVars == <<cache, rows, loaded, spent, actions, dashCall>>

Meta == [title: Titles, owner: Users \cup {NoUser}]
Table == UNION {[T -> Meta] : T \in SUBSET Threads}

DashIdle == [pc |-> "idle"]
DashTalking == [pc: {"chat"}, user: Users, thread: Threads, new: BOOLEAN, stream: BOOLEAN]
DashSaving == [pc: {"query", "insert", "update"}, thread: Threads, meta: Meta]

DashTypeOK ==
    /\ cache \in Table /\ rows \in Table
    /\ loaded \in BOOLEAN
    /\ spent \in Nat /\ actions \in Nat
    /\ dashCall \in [DashChats \cup DashRenames -> {DashIdle} \cup DashTalking \cup DashSaving]

DashInit ==
    /\ cache = [t \in {} |-> {}] /\ rows = [t \in {} |-> {}]
    /\ loaded = TRUE
    /\ spent = 0 /\ actions = 0
    /\ dashCall = [c \in DashChats \cup DashRenames |-> DashIdle]

DashStep(c, next) == dashCall' = [dashCall EXCEPT ![c] = next]

Put(table, t, meta) == [u \in DOMAIN table \cup {t} |-> IF u = t THEN meta ELSE table[u]]

Saving(c) == dashCall[c].pc \in {"query", "insert", "update"}
LoopFree == \A c \in DashChats : ~Saving(c)
-----------------------------------------------------------------------------
(* The cost guard *)

\* Mutant: the limit is passed before it refuses.
UnderBudgetLate == spent <= Budget /\ actions < RateLimit

UnderBudget == spent < Budget /\ actions < RateLimit

\* _save_thread_meta: the cache comes first.
SaveMeta(c, t, meta) ==
    /\ cache' = Put(cache, t, meta)
    /\ DashStep(c, [pc |-> "query", thread |-> t, meta |-> meta])

\* The end of both endpoints: a new thread gets a title and an owner.
Conclude(c, user, t, new) ==
    IF new
    THEN \E title \in Titles : SaveMeta(c, t, [title |-> title, owner |-> user])
    ELSE DashStep(c, DashIdle) /\ UNCHANGED cache

\* A refusal is an answer too, which costs nothing.
Ask(c, user, t, new, stream) ==
    IF UnderBudget
    THEN /\ DashStep(c, [pc |-> "chat", user |-> user, thread |-> t, new |-> new,
                         stream |-> stream])
         /\ UNCHANGED cache
    ELSE Conclude(c, user, t, new)

\* uuid4
Unheard == {t \in Threads \ (DOMAIN cache \cup DOMAIN rows) :
                \A c \in DashChats \cup DashRenames :
                    dashCall[c] = DashIdle \/ dashCall[c].thread # t}

Chat(c) ==
    /\ LoopFree
    /\ dashCall[c] = DashIdle
    /\ \/ \E user \in Users, t \in Unheard : Ask(c, user, t, TRUE, c \in DashStreams)
       \/ \E user \in Users, t \in DOMAIN cache : Ask(c, user, t, FALSE, c \in DashStreams)
    /\ UNCHANGED <<rows, loaded, spent, actions>>

\* An answer without tokens leaves no record.
StoreTokenUsage ==
    \/ UNCHANGED <<spent, actions>>
    \/ /\ actions < MaxActions
       /\ \E cost \in 0..MaxCost : spent' = spent + cost
       /\ actions' = actions + 1

\* The record, the title and the cache, without an await.
ChatAnswered(c) ==
    /\ LoopFree
    /\ dashCall[c].pc = "chat"
    /\ StoreTokenUsage
    /\ Conclude(c, dashCall[c].user, dashCall[c].thread, dashCall[c].new)
    /\ UNCHANGED <<rows, loaded>>

\* The LLM or the database fails, or the client of a stream is gone.
\* chat_stream falls back to chat, which asks the guard again; otherwise a new
\* thread keeps neither title nor owner.
ChatFails(c) ==
    /\ LoopFree
    /\ dashCall[c].pc = "chat"
    /\ \/ DashStep(c, DashIdle) /\ UNCHANGED cache
       \/ dashCall[c].stream
          /\ Ask(c, dashCall[c].user, dashCall[c].thread, dashCall[c].new, FALSE)
    /\ UNCHANGED <<rows, loaded, spent, actions>>
-----------------------------------------------------------------------------
(* Threads *)

\* update_thread_title takes any id, and does not pass the owner on.
Rename(c) ==
    /\ dashCall[c] = DashIdle
    /\ \E t \in Threads, title \in Titles :
        SaveMeta(c, t, [title |-> title, owner |-> NoUser])
    /\ UNCHANGED <<rows, loaded, spent, actions>>

SaveQuery(c) ==
    /\ dashCall[c].pc = "query"
    /\ DashStep(c, [dashCall[c] EXCEPT
           !.pc = IF dashCall[c].thread \in DOMAIN rows THEN "update" ELSE "insert"])
    /\ UNCHANGED <<cache, rows, loaded, spent, actions>>

\* Mutant: an update writes the owner it was given.
SaveUpdateAll(c) ==
    /\ dashCall[c].pc = "update"
    /\ rows' = [rows EXCEPT ![dashCall[c].thread] = dashCall[c].meta]
    /\ DashStep(c, DashIdle)
    /\ UNCHANGED <<cache, loaded, spent, actions>>

SaveUpdate(c) ==
    /\ dashCall[c].pc = "update"
    /\ rows' = [rows EXCEPT ![dashCall[c].thread].title = dashCall[c].meta.title]
    /\ DashStep(c, DashIdle)
    /\ UNCHANGED <<cache, loaded, spent, actions>>

\* A row that another request has inserted meanwhile has the key.
SaveInsert(c) ==
    /\ dashCall[c].pc = "insert"
    /\ rows' = IF dashCall[c].thread \in DOMAIN rows THEN rows
               ELSE Put(rows, dashCall[c].thread, dashCall[c].meta)
    /\ DashStep(c, DashIdle)
    /\ UNCHANGED <<cache, loaded, spent, actions>>

\* The database fails: the cache keeps what the table lacks.
SaveFails(c) ==
    /\ Saving(c)
    /\ DashStep(c, DashIdle)
    /\ UNCHANGED <<cache, rows, loaded, spent, actions>>
-----------------------------------------------------------------------------
(* Time, and the process *)

\* get_daily_spend counts from midnight UTC, get_hourly_action_count one hour
\* back.
Midnight ==
    /\ spent' = 0
    /\ UNCHANGED <<cache, rows, loaded, actions, dashCall>>

\* Mutant: what is out of the hour is counted down once more.
HourPassesOnce ==
    /\ actions' = actions - 1
    /\ UNCHANGED <<cache, rows, loaded, spent, dashCall>>

HourPasses ==
    /\ actions > 0
    /\ actions' = actions - 1
    /\ UNCHANGED <<cache, rows, loaded, spent, dashCall>>

\* Mutant: only the threads that have an owner are loaded.
DashRestartOwned ==
    /\ dashCall' = [c \in DashChats \cup DashRenames |-> DashIdle]
    /\ \/ loaded' = TRUE /\ cache' = [t \in {u \in DOMAIN rows : rows[u].owner # NoUser} |-> rows[t]]
       \/ loaded' = FALSE /\ cache' = [t \in {} |-> {}]
    /\ UNCHANGED <<rows, spent, actions>>

\* A crash, and _load_thread_meta, whose failures are swallowed.
DashRestart ==
    /\ dashCall' = [c \in DashChats \cup DashRenames |-> DashIdle]
    /\ \/ loaded' = TRUE /\ cache' = rows
       \/ loaded' = FALSE /\ cache' = [t \in {} |-> {}]
    /\ UNCHANGED <<rows, spent, actions>>

DashNext ==
    \/ \E c \in DashChats : Chat(c) \/ ChatAnswered(c) \/ ChatFails(c)
    \/ \E c \in DashRenames : Rename(c)
    \/ \E c \in DashChats \cup DashRenames :
        SaveQuery(c) \/ SaveUpdate(c) \/ SaveInsert(c) \/ SaveFails(c)
    \/ Midnight \/ HourPasses \/ DashRestart

DashSpec == DashInit /\ [][DashNext]_dashVars
-----------------------------------------------------------------------------
(* Properties *)

\* The guard looks before a chat and the record comes after it, so chats in
\* progress together overshoot; by no more than what each of them costs.
BudgetBound ==
    /\ spent <= Budget - 1 + Cardinality(DashChats) * MaxCost
    /\ actions <= RateLimit - 1 + Cardinality(DashChats)

\* Unless start-up failed to read the table, every thread that has a row is
\* listed from the cache.
RowsCached == loaded => DOMAIN rows \subseteq DOMAIN cache

\* Whoever renames, fails or restarts, in whatever order, the owner that a row
\* was given stays, though the cache forgets it.
RowOwnerKept ==
    [][\A t \in DOMAIN rows : t \in DOMAIN rows' /\ rows'[t].owner = rows[t].owner]_dashVars
=============================================================================
