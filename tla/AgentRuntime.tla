---------------------------- MODULE AgentRuntime ----------------------------
(***************************************************************************)
(* core/manager.py with core/heartbeat.py and the start-up in server.py:   *)
(* the agents table, the objects built from its rows, and the heartbeats   *)
(* that hold such objects.  create_agent, update_agent, the reload and the *)
(* new system key are coroutines of the loop and interleave where they     *)
(* await initialize_async; the two deletes are plain endpoints, so they    *)
(* run in threads of the pool and interleave with everything else.         *)
(***************************************************************************)
EXTENDS Naturals

CONSTANTS Agents,       \* agent ids
          Configs,      \* what an object is built from
          Proactive,    \* the configurations with heartbeats enabled
          OwnKey,       \* those with an LLM key of their own
          Keys,         \* values of the setting default_llm_api_key
          NoKey,        \* no such setting
          Tasks,        \* requests that the loop serves at once
          Threads,      \* requests that delete agents at once
          None,
          Keep,         \* a field absent from the update
          MaxFailures,  \* MAX_CONSECUTIVE_FAILURES
          Faults        \* which of "build" and "init" may raise

ASSUME RuntimeAssumption ==
    /\ Proactive \subseteq Configs /\ OwnKey \subseteq Configs
    /\ NoKey \notin Keys
    /\ None \notin Tasks \cup {"ready", "broken"}
    /\ Keep \notin Configs \cup BOOLEAN
    /\ MaxFailures \in Nat \ {0}
    /\ Faults \subseteq {"build", "init"}
    /\ {"ready", "broken"} \cap Tasks = {}

VARIABLES row,     \* the agents table
          key,     \* the setting default_llm_api_key
          agents,  \* _agents: the object registered for each id
          failed,  \* agents whose last build was logged as failed
          heart,   \* agents registered with the HeartbeatRunner
          fails,   \* _failure_counts
          beat,    \* agents with a heartbeat in progress
          task,    \* where each coroutine is
          thread   \* where each delete is

beats == <<heart, fails, beat>>
vars == <<row, key, agents, failed, beats, task, thread>>

NoAgentRow == [cfg |-> None]
Row == [cfg: Configs, active: BOOLEAN]

\* An object: what it was built from, and the coroutine that initialises it
\* or how that ended ("ready" is is_initialized).
NoObject == [state |-> None]
Object == [cfg: Configs, key: Keys \cup {NoKey}, state: Tasks \cup {"ready", "broken"}]

Change == [cfg: Configs \cup {Keep}, active: BOOLEAN \cup {Keep}]
Rest == [pc |-> "idle"]
\* todo: the agents that a new system key has yet to reload.
Coroutine == {Rest}
    \cup [pc: {"commit"}, agent: Agents, asked: BOOLEAN \cup {Keep}, change: Change]
    \cup [pc: {"reload", "init"}, agent: Agents, todo: SUBSET Agents]
    \cup [pc: {"build"}, agent: Agents, cfg: Configs, todo: SUBSET Agents]
\* saw: what the delete has read in is_active.
Delete == {Rest}
    \cup [pc: {"pop", "load"}, agent: Agents, forever: BOOLEAN]
    \cup [pc: {"commit"}, agent: Agents, forever: BOOLEAN, saw: BOOLEAN]

\* A heartbeat is disabled on the failure that reaches MaxFailures.
TypeOK ==
    /\ row \in [Agents -> Row \cup {NoAgentRow}]
    /\ key \in Keys \cup {NoKey}
    /\ agents \in [Agents -> Object \cup {NoObject}]
    /\ failed \subseteq Agents
    /\ heart \subseteq Agents /\ beat \subseteq heart
    /\ fails \in [Agents -> 0..(MaxFailures - 1)]
    /\ task \in [Tasks -> Coroutine]
    /\ thread \in [Threads -> Delete]

Present(a) == row[a] # NoAgentRow
Active(a) == Present(a) /\ row[a].active
Registered(a) == agents[a] # NoObject

Init ==
    /\ row = [a \in Agents |-> NoAgentRow]
    /\ key = NoKey
    /\ agents = [a \in Agents |-> NoObject]
    /\ failed = {}
    /\ heart = {} /\ beat = {} /\ fails = [a \in Agents |-> 0]
    /\ task = [t \in Tasks |-> Rest]
    /\ thread = [d \in Threads |-> Rest]

\* The loop runs one coroutine at a time, up to its next await.
OnLoop(t) == task[t].pc \in {"commit", "reload", "build"}
LoopFree == \A t \in Tasks : ~OnLoop(t)

Goto(t, next) == task' = [task EXCEPT ![t] = next]
\* The next agent of _reload_all_agents_async, or the end of the request.
GoOn(t, todo) ==
    \/ todo = {} /\ Goto(t, Rest)
    \/ \E a \in todo : Goto(t, [pc |-> "reload", agent |-> a, todo |-> todo \ {a}])
-----------------------------------------------------------------------------
(* The requests that the loop serves *)

\* create_agent inserts the row and builds from it.
Create(t) ==
    /\ LoopFree /\ task[t] = Rest
    /\ \E a \in Agents, c \in Configs :
        /\ ~Present(a)
        /\ row' = [row EXCEPT ![a] = [cfg |-> c, active |-> TRUE]]
        /\ Goto(t, [pc |-> "build", agent |-> a, cfg |-> c, todo |-> {}])
    /\ UNCHANGED <<key, agents, failed, beats, thread>>

\* Mutant: the whole row is written back, as loaded where nothing was asked.
ModifiedOrLoaded(new, loaded) == IF new = Keep THEN loaded ELSE new

\* The ORM writes the columns whose new value differs from the loaded one.
Modified(new, loaded) == IF new = loaded THEN Keep ELSE new

UpdateLoad(t) ==
    /\ LoopFree /\ task[t] = Rest
    /\ \E a \in Agents, ch \in Change :
        /\ Present(a)
        /\ Goto(t, [pc |-> "commit", agent |-> a, asked |-> ch.active,
                    change |-> [cfg |-> Modified(ch.cfg, row[a].cfg),
                                active |-> Modified(ch.active, row[a].active)]])
    /\ UNCHANGED <<row, key, agents, failed, beats, thread>>

\* Mutant: absent fields are set too.
WrittenAsAsked(r, ch) == ch

Written(r, ch) == [cfg |-> IF ch.cfg = Keep THEN r.cfg ELSE ch.cfg,
                   active |-> IF ch.active = Keep THEN r.active ELSE ch.active]

\* The commit of a row deleted meanwhile raises.
UpdateCommit(t) ==
    /\ task[t].pc = "commit"
    /\ LET a == task[t].agent IN
        IF Present(a)
        THEN /\ row' = [row EXCEPT ![a] = Written(@, task[t].change)]
             /\ Goto(t, [pc |-> "reload", agent |-> a, todo |-> {}])
        ELSE UNCHANGED row /\ Goto(t, Rest)
    /\ UNCHANGED <<key, agents, failed, beats, thread>>

\* The reload endpoint.
Reload(t) ==
    /\ LoopFree /\ task[t] = Rest
    /\ \E a \in Agents : Present(a) /\ Goto(t, [pc |-> "reload", agent |-> a, todo |-> {}])
    /\ UNCHANGED <<row, key, agents, failed, beats, thread>>

\* Mutant: a new system key passes over the agents being initialised.
UpsertReady(t) ==
    /\ LoopFree /\ task[t] = Rest
    /\ key' \in Keys
    /\ GoOn(t, {a \in Agents : Registered(a) /\ agents[a].state = "ready"})
    /\ UNCHANGED <<row, agents, failed, beats, thread>>

\* upsert_system_setting(default_llm_api_key) reloads the agents that are
\* registered when it starts.
UpsertKey(t) ==
    /\ LoopFree /\ task[t] = Rest
    /\ key' \in Keys
    /\ GoOn(t, {a \in Agents : Registered(a)})
    /\ UNCHANGED <<row, agents, failed, beats, thread>>

\* delete_system_setting reloads nothing; it is one access in a thread.
DeleteKey ==
    /\ key # NoKey
    /\ key' = NoKey
    /\ UNCHANGED <<row, agents, failed, beats, task, thread>>
-----------------------------------------------------------------------------
(* _reload_agent_async *)

ReloadRead(t) ==
    /\ task[t].pc = "reload"
    /\ LET a == task[t].agent IN
        IF Active(a)
        THEN Goto(t, [pc |-> "build", agent |-> a, cfg |-> row[a].cfg, todo |-> task[t].todo])
        ELSE GoOn(t, task[t].todo)
    /\ UNCHANGED <<row, key, agents, failed, beats, thread>>

ResolvedKey(c) == IF c \in OwnKey THEN NoKey ELSE key

Built(c, state) == [cfg |-> c, key |-> ResolvedKey(c), state |-> state]

\* _init_agent_sync resolves the key and registers the object, which then
\* awaits initialize_async.
Build(t) ==
    /\ task[t].pc = "build"
    /\ LET a == task[t].agent IN
        /\ agents' = [agents EXCEPT ![a] = Built(task[t].cfg, t)]
        /\ failed' = failed \ {a}
        /\ Goto(t, [pc |-> "init", agent |-> a, todo |-> task[t].todo])
    /\ UNCHANGED <<row, key, beats, thread>>

\* It raises before it registers; the failure is logged and swallowed.
BuildFails(t) ==
    /\ "build" \in Faults
    /\ task[t].pc = "build"
    /\ failed' = failed \cup {task[t].agent}
    /\ GoOn(t, task[t].todo)
    /\ UNCHANGED <<row, key, agents, beats, thread>>

\* initialize_async ends on the object that t has built, which may have been
\* replaced or deleted meanwhile; a failure is logged and swallowed.
InitDone(t) ==
    /\ LoopFree
    /\ task[t].pc = "init"
    /\ LET a == task[t].agent IN
        \E end \in {"ready"} \cup (IF "init" \in Faults THEN {"broken"} ELSE {}) :
            agents' = IF agents[a].state = t THEN [agents EXCEPT ![a].state = end] ELSE agents
    /\ GoOn(t, task[t].todo)
    /\ UNCHANGED <<row, key, failed, beats, thread>>

\* A scheduled job initialises an agent that is not (CronScheduler, InitDone).
JobInit(a) ==
    /\ LoopFree
    /\ Registered(a) /\ agents[a].state # "ready"
    /\ agents' = [agents EXCEPT ![a].state = "ready"]
    /\ UNCHANGED <<row, key, failed, beats, task, thread>>
-----------------------------------------------------------------------------
(* delete_agent and permanently_delete_agent, in a thread *)

DeleteCheck(d) ==
    /\ thread[d] = Rest
    /\ \E a \in Agents, forever \in BOOLEAN :
        thread' = [thread EXCEPT ![d] = [pc |-> IF Registered(a) THEN "pop" ELSE "load",
                                         agent |-> a, forever |-> forever]]
    /\ UNCHANGED <<row, key, agents, failed, beats, task>>

\* Another delete may have popped it since the check: a KeyError.
DeletePop(d) ==
    /\ thread[d].pc = "pop"
    /\ LET a == thread[d].agent IN
        /\ agents' = [agents EXCEPT ![a] = NoObject]
        /\ thread' = [thread EXCEPT ![d] = IF Registered(a) THEN [@ EXCEPT !.pc = "load"] ELSE Rest]
    /\ UNCHANGED <<row, key, failed, beats, task>>

DeleteLoad(d) ==
    /\ thread[d].pc = "load"
    /\ LET a == thread[d].agent IN
        thread' = [thread EXCEPT ![d] =
                     IF Present(a)
                     THEN [pc |-> "commit", agent |-> a, forever |-> @.forever,
                           saw |-> row[a].active]
                     ELSE Rest]
    /\ UNCHANGED <<row, key, agents, failed, beats, task>>

\* By agent_id, so it may hit a row created since; is_active is written if it
\* was read as TRUE.
DeleteCommit(d) ==
    /\ thread[d].pc = "commit"
    /\ LET a == thread[d].agent IN
        row' = IF thread[d].forever THEN [row EXCEPT ![a] = NoAgentRow]
               ELSE IF thread[d].saw /\ Present(a) THEN [row EXCEPT ![a].active = FALSE]
               ELSE row
    /\ thread' = [thread EXCEPT ![d] = Rest]
    /\ UNCHANGED <<key, agents, failed, beats, task>>
-----------------------------------------------------------------------------
(* HeartbeatRunner, on the loop *)

\* Mutant: each heartbeat starts the count again.
BeatAnew(a) ==
    /\ LoopFree
    /\ a \in heart \ beat
    /\ beat' = beat \cup {a}
    /\ fails' = [fails EXCEPT ![a] = 0]
    /\ UNCHANGED <<row, key, agents, failed, heart, task, thread>>

\* Past the quiet hours, the object's state and the cost guard.
Beat(a) ==
    /\ LoopFree
    /\ a \in heart \ beat
    /\ beat' = beat \cup {a}
    /\ UNCHANGED <<row, key, agents, failed, heart, fails, task, thread>>

BeatSucceeds(a) ==
    /\ LoopFree
    /\ a \in beat
    /\ beat' = beat \ {a}
    /\ fails' = [fails EXCEPT ![a] = 0]
    /\ UNCHANGED <<row, key, agents, failed, heart, task, thread>>

Disabled(a) == fails[a] + 1 >= MaxFailures

\* The last failure allowed unregisters the agent.
BeatFails(a) ==
    /\ LoopFree
    /\ a \in beat
    /\ beat' = beat \ {a}
    /\ heart' = IF Disabled(a) THEN heart \ {a} ELSE heart
    /\ fails' = [fails EXCEPT ![a] = IF Disabled(a) THEN 0 ELSE @ + 1]
    /\ UNCHANGED <<row, key, agents, failed, task, thread>>
-----------------------------------------------------------------------------
(* server.py: a new process *)

\* initialize_sync and initialize_async: the active rows, but for those whose
\* build fails, and broken where the initialisation does.
LoadAgents(lost, broken) ==
    [a \in Agents |-> IF Active(a) /\ a \notin lost
                      THEN Built(row[a].cfg, IF a \in broken THEN "broken" ELSE "ready")
                      ELSE NoObject]

\* register_agent for each object that asks for heartbeats.
RegisterHearts(lost) == {a \in Agents : Active(a) /\ a \notin lost /\ row[a].cfg \in Proactive}

\* The start-up ends before any request is served.
Restart ==
    /\ \E lost \in SUBSET {a \in Agents : Active(a) /\ "build" \in Faults},
          broken \in SUBSET {a \in Agents : Active(a) /\ "init" \in Faults} :
        /\ agents' = LoadAgents(lost, broken)
        /\ failed' = lost
        /\ heart' = RegisterHearts(lost)
    /\ beat' = {} /\ fails' = [a \in Agents |-> 0]
    /\ task' = [t \in Tasks |-> Rest]
    /\ thread' = [d \in Threads |-> Rest]
    /\ UNCHANGED <<row, key>>

Request(t) == Create(t) \/ UpdateLoad(t) \/ Reload(t) \/ UpsertKey(t)
Serve(t) == UpdateCommit(t) \/ ReloadRead(t) \/ Build(t) \/ BuildFails(t) \/ InitDone(t)
Deletion(d) == DeleteCheck(d) \/ DeletePop(d) \/ DeleteLoad(d) \/ DeleteCommit(d)
Pulse(a) == Beat(a) \/ BeatSucceeds(a) \/ BeatFails(a)

Next ==
    \/ \E t \in Tasks : Request(t) \/ Serve(t)
    \/ DeleteKey
    \/ \E d \in Threads : Deletion(d)
    \/ \E a \in Agents : JobInit(a) \/ Pulse(a)
    \/ Restart

Spec == Init /\ [][Next]_vars

\* The loop runs what is ready, and the chat of a heartbeat ends once it is
\* free: its steps are bounded by the recursion limit, its calls by timeouts.
Fairness ==
    /\ \A t \in Tasks : WF_vars(Serve(t))
    /\ \A a \in Agents : SF_vars(BeatSucceeds(a) \/ BeatFails(a))

FairSpec == Spec /\ Fairness
-----------------------------------------------------------------------------
(* Properties *)

\* An operation is at work on a, or will come to it.
Busy(a) ==
    \/ \E t \in Tasks :
        \/ task[t].pc # "idle" /\ task[t].agent = a
        \/ task[t].pc \in {"reload", "build", "init"} /\ a \in task[t].todo
    \/ \E d \in Threads : thread[d].pc # "idle" /\ thread[d].agent = a

\* The key an object was built with is the one it would be given now.  A
\* setting that was deleted stays in use.
KeyCurrent(a) == key = NoKey \/ agents[a].key = ResolvedKey(agents[a].cfg)

\* Once every operation on it has ended, an active agent is served by an
\* object built from its row as it is now, with the system key of now, and
\* which no one is still initialising: no interleaving of creations, updates,
\* reloads, new keys and deletes leaves an older object registered, or none.
Fresh ==
    \A a \in Agents : Active(a) /\ a \notin failed /\ ~Busy(a) =>
        /\ Registered(a)
        /\ agents[a].cfg = row[a].cfg
        /\ KeyCurrent(a)
        /\ agents[a].state \in {"ready", "broken"}

\* A deleted agent becomes active again only when that is asked for: an
\* update of its other fields, loaded before a delete in a thread commits,
\* does not undo it.
NoUndelete ==
    [][\A a \in Agents : Present(a) /\ ~Active(a) /\ Active(a)'
         => \E t \in Tasks : task[t].pc = "commit" /\ task[t].agent = a
                              /\ task[t].asked = TRUE]_vars
\* A heartbeat that only fails from some time on stops for good: the failures
\* are counted across heartbeats, whatever is reloaded or deleted meanwhile.
FailingStops ==
    \A a \in Agents :
        <>[][~BeatSucceeds(a) /\ ~Restart]_vars => <>[](a \notin beat)
-----------------------------------------------------------------------------
(* What a docstring says, and the code does not do *)

\* "Soft-delete an agent (set is_active=False) and stop its runtime": when
\* the delete commits, no heartbeat is registered for the agent any more.
\* Those registered at start-up go on, on an object that nothing else holds.
DeletedStops ==
    [][\A d \in Threads : thread[d].pc = "commit" /\ DeleteCommit(d)
         => thread[d].agent \notin heart']_vars
=============================================================================
