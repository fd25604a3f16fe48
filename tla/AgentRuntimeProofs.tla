-------------------------- MODULE AgentRuntimeProofs --------------------------
(***************************************************************************)
(* Theorems about AgentRuntime for any agents, coroutines and threads, and *)
(* whatever fails: its types, that an agent no operation is working on is  *)
(* served as its row says, that no update undoes a delete, and that a      *)
(* heartbeat which only fails is at an end after MaxFailures of them.      *)
(***************************************************************************)
EXTENDS AgentRuntime, TLAPS

\* A delete has popped a and is on its way to deactivate or remove the row.
Deleting(a) ==
    \E d \in Threads :
        /\ thread[d].pc \in {"load", "commit"} /\ thread[d].agent = a
        /\ thread[d].pc = "load" \/ thread[d].forever \/ thread[d].saw

Reloading(a) == \E t \in Tasks : task[t].pc \in {"reload", "build"} /\ task[t].agent = a

Queued(a) == \E t \in Tasks : task[t].pc \in {"reload", "build", "init"} /\ a \in task[t].todo

Serving(a) ==
    /\ Registered(a) /\ agents[a].cfg = row[a].cfg
    /\ KeyCurrent(a) \/ Queued(a)

\* An active agent is served as its row says, or something at work will see
\* to it, or that it is no longer active.
CoveredAt(a) == Active(a) /\ a \notin failed => Deleting(a) \/ Reloading(a) \/ Serving(a)
Covered == \A a \in Agents : CoveredAt(a)

OneOnLoop == \A t, u \in Tasks : OnLoop(t) /\ OnLoop(u) => t = u

\* What a coroutine has read to build from is still what the row says: only
\* the loop changes it.
Loaded == \A t \in Tasks : task[t].pc = "build" /\ Present(task[t].agent)
                            => task[t].cfg = row[task[t].agent].cfg

\* An object that is being initialised has its coroutine.
Attended == \A a \in Agents, t \in Tasks :
              agents[a].state = t => task[t].pc = "init" /\ task[t].agent = a

RuntimeInv == Covered /\ OneOnLoop /\ Loaded /\ Attended
-----------------------------------------------------------------------------
(* Types *)

\* Every place of a coroutine has the fields that its step reads.
LEMMA TaskFields ==
    ASSUME TypeOK, NEW t \in Tasks
    PROVE  /\ task[t].pc \in {"idle", "commit", "reload", "build", "init"}
           /\ task[t].pc = "idle" => task[t] = Rest
           /\ task[t].pc # "idle" => task[t].agent \in Agents
           /\ task[t].pc = "commit" => task[t].change \in Change
                                       /\ task[t].asked \in BOOLEAN \cup {Keep}
           /\ task[t].pc \in {"reload", "build", "init"} => task[t].todo \in SUBSET Agents
           /\ task[t].pc = "build" => task[t].cfg \in Configs
<1>1. task[t] \in Coroutine
  BY DEF TypeOK
<1> QED BY <1>1 DEF Coroutine, Rest

\* Likewise for a delete.
LEMMA ThreadFields ==
    ASSUME TypeOK, NEW d \in Threads
    PROVE  /\ thread[d].pc \in {"idle", "pop", "load", "commit"}
           /\ thread[d].pc # "idle" => thread[d].agent \in Agents /\ thread[d].forever \in BOOLEAN
           /\ thread[d].pc = "commit" => thread[d].saw \in BOOLEAN
<1>1. thread[d] \in Delete
  BY DEF TypeOK
<1> QED BY <1>1 DEF Delete, Rest

\* A row or an object that is there has its fields.
LEMMA Fields ==
    ASSUME TypeOK, NEW a \in Agents
    PROVE  /\ Present(a) => row[a] \in Row
           /\ Registered(a) => agents[a] \in Object
BY DEF TypeOK, Present, Registered

\* Going on to the next agent keeps the type of task.
LEMMA GoOnTyped ==
    ASSUME TypeOK, NEW t \in Tasks, NEW todo \in SUBSET Agents, GoOn(t, todo)
    PROVE  task' \in [Tasks -> Coroutine]
<1>1. Rest \in Coroutine
  BY DEF Coroutine
<1>2. \A a \in todo : [pc |-> "reload", agent |-> a, todo |-> todo \ {a}] \in Coroutine
  BY DEF Coroutine
<1> QED BY <1>1, <1>2 DEF GoOn, Goto, TypeOK

\* The initial values have their types.
LEMMA TypeInit == Init => TypeOK
<1>1. 0 \in 0..(MaxFailures - 1)
  BY RuntimeAssumption
<1>2. Rest \in Coroutine /\ Rest \in Delete
  BY DEF Coroutine, Delete
<1> QED BY <1>1, <1>2 DEF Init, TypeOK

\* A request that starts keeps the types.
LEMMA RequestTyped == ASSUME TypeOK, NEW t \in Tasks, Request(t) PROVE TypeOK'
<1>1. CASE Create(t)
  <2>1. PICK a \in Agents, c \in Configs :
          /\ row' = [row EXCEPT ![a] = [cfg |-> c, active |-> TRUE]]
          /\ Goto(t, [pc |-> "build", agent |-> a, cfg |-> c, todo |-> {}])
    BY <1>1 DEF Create
  <2>2. [cfg |-> c, active |-> TRUE] \in Row
    BY DEF Row
  <2>3. [pc |-> "build", agent |-> a, cfg |-> c, todo |-> {}] \in Coroutine
    BY DEF Coroutine
  <2> QED BY <1>1, <2>1, <2>2, <2>3 DEF Create, Goto, TypeOK, beats
<1>2. CASE UpdateLoad(t)
  <2>1. PICK a \in Agents, ch \in Change :
          Goto(t, [pc |-> "commit", agent |-> a, asked |-> ch.active,
                   change |-> [cfg |-> Modified(ch.cfg, row[a].cfg),
                               active |-> Modified(ch.active, row[a].active)]])
    BY <1>2 DEF UpdateLoad
  <2>2. ch.cfg \in Configs \cup {Keep} /\ ch.active \in BOOLEAN \cup {Keep}
    BY DEF Change
  <2>3. [cfg |-> Modified(ch.cfg, row[a].cfg),
         active |-> Modified(ch.active, row[a].active)] \in Change
    BY <2>2 DEF Change, Modified
  <2>4. [pc |-> "commit", agent |-> a, asked |-> ch.active,
         change |-> [cfg |-> Modified(ch.cfg, row[a].cfg),
                     active |-> Modified(ch.active, row[a].active)]] \in Coroutine
    BY <2>2, <2>3 DEF Coroutine
  <2> QED BY <1>2, <2>1, <2>4 DEF UpdateLoad, Goto, TypeOK, beats
<1>3. CASE Reload(t)
  <2>1. \A a \in Agents : [pc |-> "reload", agent |-> a, todo |-> {}] \in Coroutine
    BY DEF Coroutine
  <2> QED BY <1>3, <2>1 DEF Reload, Goto, TypeOK, beats
<1>4. CASE UpsertKey(t)
  <2>1. task' \in [Tasks -> Coroutine]
    BY <1>4, GoOnTyped DEF UpsertKey
  <2> QED BY <1>4, <2>1 DEF UpsertKey, TypeOK, beats
<1> QED BY <1>1, <1>2, <1>3, <1>4 DEF Request

\* A request being served keeps the types.
LEMMA ServeTyped == ASSUME TypeOK, NEW t \in Tasks, Serve(t) PROVE TypeOK'
<1> DEFINE a == task[t].agent
<1>1. CASE UpdateCommit(t)
  <2>1. task[t].pc = "commit" /\ a \in Agents /\ task[t].change \in Change
    BY <1>1, TaskFields DEF UpdateCommit
  <2>2. Present(a) => Written(row[a], task[t].change) \in Row
    BY <2>1, Fields DEF Written, Row, Change
  <2>3. [pc |-> "reload", agent |-> a, todo |-> {}] \in Coroutine /\ Rest \in Coroutine
    BY <2>1 DEF Coroutine
  <2> QED BY <1>1, <2>1, <2>2, <2>3 DEF UpdateCommit, Goto, TypeOK, beats
<1>2. CASE ReloadRead(t)
  <2>1. task[t].pc = "reload" /\ a \in Agents /\ task[t].todo \in SUBSET Agents
    BY <1>2, TaskFields DEF ReloadRead
  <2>2. Active(a) => row[a].cfg \in Configs
    BY <2>1, Fields DEF Active, Row
  <2>3. Active(a) => [pc |-> "build", agent |-> a, cfg |-> row[a].cfg, todo |-> task[t].todo] \in Coroutine
    BY <2>1, <2>2 DEF Coroutine
  <2>4. task' \in [Tasks -> Coroutine]
    BY <1>2, <2>1, <2>3, GoOnTyped DEF ReloadRead, Goto, TypeOK
  <2> QED BY <1>2, <2>4 DEF ReloadRead, TypeOK, beats
<1>3. CASE Build(t)
  <2>1. task[t].pc = "build" /\ a \in Agents /\ task[t].todo \in SUBSET Agents
        /\ task[t].cfg \in Configs
    BY <1>3, TaskFields DEF Build
  <2>2. Built(task[t].cfg, t) \in Object
    BY <2>1 DEF Built, Object, ResolvedKey, TypeOK
  <2>3. [pc |-> "init", agent |-> a, todo |-> task[t].todo] \in Coroutine
    BY <2>1 DEF Coroutine
  <2> QED BY <1>3, <2>1, <2>2, <2>3 DEF Build, Goto, TypeOK, beats
<1>4. CASE BuildFails(t)
  <2>1. a \in Agents /\ task[t].todo \in SUBSET Agents
    BY <1>4, TaskFields DEF BuildFails
  <2>2. task' \in [Tasks -> Coroutine]
    BY <1>4, <2>1, GoOnTyped DEF BuildFails
  <2> QED BY <1>4, <2>1, <2>2 DEF BuildFails, TypeOK, beats
<1>5. CASE InitDone(t)
  <2>1. a \in Agents /\ task[t].todo \in SUBSET Agents
    BY <1>5, TaskFields DEF InitDone
  <2>2. task' \in [Tasks -> Coroutine]
    BY <1>5, <2>1, GoOnTyped DEF InitDone
  <2>3. PICK end \in {"ready", "broken"} :
          agents' = IF agents[a].state = t THEN [agents EXCEPT ![a].state = end] ELSE agents
    BY <1>5 DEF InitDone
  <2>4. agents[a].state = t => agents[a] \in Object
    BY <2>1, RuntimeAssumption DEF TypeOK, NoObject
  <2>5. agents[a].state = t => [agents[a] EXCEPT !.state = end] \in Object
    BY <2>4 DEF Object
  <2>6. agents' \in [Agents -> Object \cup {NoObject}]
    BY <2>1, <2>3, <2>5 DEF TypeOK
  <2> QED BY <1>5, <2>2, <2>6 DEF InitDone, TypeOK, beats
<1> QED BY <1>1, <1>2, <1>3, <1>4, <1>5 DEF Serve

\* A delete keeps the types.
LEMMA DeletionTyped == ASSUME TypeOK, NEW d \in Threads, Deletion(d) PROVE TypeOK'
<1> DEFINE a == thread[d].agent
<1>1. CASE DeleteCheck(d)
  <2>1. PICK b \in Agents, f \in BOOLEAN :
          thread' = [thread EXCEPT ![d] = [pc |-> IF Registered(b) THEN "pop" ELSE "load",
                                           agent |-> b, forever |-> f]]
    BY <1>1 DEF DeleteCheck
  <2>2. [pc |-> IF Registered(b) THEN "pop" ELSE "load", agent |-> b, forever |-> f] \in Delete
    BY DEF Delete
  <2> QED BY <1>1, <2>1, <2>2 DEF DeleteCheck, TypeOK, beats
<1>2. CASE DeletePop(d)
  <2>1. thread[d].pc = "pop" /\ a \in Agents
    BY <1>2, ThreadFields DEF DeletePop
  <2>2. [thread[d] EXCEPT !.pc = "load"] \in Delete /\ Rest \in Delete
    <3>1. thread[d] \in [pc: {"pop", "load"}, agent: Agents, forever: BOOLEAN]
      BY <2>1 DEF TypeOK, Delete, Rest
    <3> QED BY <3>1 DEF Delete
  <2> QED BY <1>2, <2>1, <2>2 DEF DeletePop, TypeOK, beats
<1>3. CASE DeleteLoad(d)
  <2>1. thread[d].pc = "load" /\ a \in Agents /\ thread[d].forever \in BOOLEAN
    BY <1>3, ThreadFields DEF DeleteLoad
  <2>2. Present(a) => row[a].active \in BOOLEAN
    BY <2>1, Fields DEF Row
  <2>3. Present(a) => [pc |-> "commit", agent |-> a, forever |-> thread[d].forever,
                       saw |-> row[a].active] \in Delete
    BY <2>1, <2>2 DEF Delete
  <2>4. Rest \in Delete
    BY DEF Delete
  <2> QED BY <1>3, <2>1, <2>3, <2>4 DEF DeleteLoad, TypeOK, beats
<1>4. CASE DeleteCommit(d)
  <2>1. a \in Agents
    BY <1>4, ThreadFields DEF DeleteCommit
  <2>2. Present(a) => [row[a] EXCEPT !.active = FALSE] \in Row
    BY <2>1, Fields DEF Row
  <2>3. row' \in [Agents -> Row \cup {NoAgentRow}]
    BY <1>4, <2>1, <2>2 DEF DeleteCommit, TypeOK
  <2>4. Rest \in Delete
    BY DEF Delete
  <2> QED BY <1>4, <2>3, <2>4 DEF DeleteCommit, TypeOK, beats
<1> QED BY <1>1, <1>2, <1>3, <1>4 DEF Deletion

\* A heartbeat keeps the types; a count never reaches MaxFailures.
LEMMA PulseTyped == ASSUME TypeOK, NEW a \in Agents, Pulse(a) PROVE TypeOK'
<1>0. MaxFailures \in Nat \ {0} /\ fails[a] \in 0..(MaxFailures - 1)
  BY RuntimeAssumption DEF TypeOK
<1>1. CASE Beat(a)
  BY <1>1 DEF Beat, TypeOK
<1>2. CASE BeatSucceeds(a)
  BY <1>0, <1>2 DEF BeatSucceeds, TypeOK
<1>3. CASE BeatFails(a)
  <2>1. ~Disabled(a) => fails[a] + 1 \in 0..(MaxFailures - 1)
    BY <1>0 DEF Disabled
  <2>2. fails' \in [Agents -> 0..(MaxFailures - 1)]
    BY <1>0, <1>3, <2>1 DEF BeatFails, TypeOK
  <2> QED BY <1>3, <2>2 DEF BeatFails, TypeOK
<1> QED BY <1>1, <1>2, <1>3 DEF Pulse

\* A new process starts with the types.
LEMMA RestartTyped == ASSUME TypeOK, Restart PROVE TypeOK'
<1>1. PICK lost \in SUBSET Agents, broken \in SUBSET Agents :
        /\ agents' = [a \in Agents |->
                        IF Active(a) /\ a \notin lost
                        THEN Built(row[a].cfg, IF a \in broken THEN "broken" ELSE "ready")
                        ELSE NoObject]
        /\ failed' = lost
        /\ heart' = {a \in Agents : Active(a) /\ a \notin lost /\ row[a].cfg \in Proactive}
  BY DEF Restart, LoadAgents, RegisterHearts
<1>2. \A a \in Agents, s \in {"ready", "broken"} : Active(a) => Built(row[a].cfg, s) \in Object
  <2> SUFFICES ASSUME NEW a \in Agents, NEW s \in {"ready", "broken"}, Active(a)
               PROVE  Built(row[a].cfg, s) \in Object
    OBVIOUS
  <2>1. row[a].cfg \in Configs
    BY Fields DEF Active, Row
  <2> QED BY <2>1 DEF Built, Object, ResolvedKey, TypeOK
<1>3. agents' \in [Agents -> Object \cup {NoObject}]
  BY <1>1, <1>2
<1>4. Rest \in Coroutine /\ Rest \in Delete
  BY DEF Coroutine, Delete
<1>5. fails' \in [Agents -> 0..(MaxFailures - 1)]
  BY RuntimeAssumption DEF Restart
<1> QED BY <1>1, <1>3, <1>4, <1>5 DEF Restart, TypeOK

\* Every step keeps the types.
LEMMA TypeNext == TypeOK /\ [Next]_vars => TypeOK'
<1> SUFFICES ASSUME TypeOK, [Next]_vars PROVE TypeOK'
  OBVIOUS
<1>1. ASSUME NEW t \in Tasks, Request(t) \/ Serve(t) PROVE TypeOK'
  BY <1>1, RequestTyped, ServeTyped
<1>2. CASE DeleteKey
  BY <1>2 DEF DeleteKey, TypeOK, beats
<1>3. ASSUME NEW d \in Threads, Deletion(d) PROVE TypeOK'
  BY <1>3, DeletionTyped
<1>4. ASSUME NEW a \in Agents, JobInit(a) PROVE TypeOK'
  <2>1. [agents[a] EXCEPT !.state = "ready"] \in Object
    BY <1>4, Fields DEF JobInit, Object
  <2> QED BY <1>4, <2>1 DEF JobInit, TypeOK, beats
<1>5. ASSUME NEW a \in Agents, Pulse(a) PROVE TypeOK'
  BY <1>5, PulseTyped
<1>6. CASE Restart
  BY <1>6, RestartTyped
<1>7. CASE UNCHANGED vars
  BY <1>7 DEF vars, beats, TypeOK
<1> QED BY <1>1, <1>2, <1>3, <1>4, <1>5, <1>6, <1>7 DEF Next

\* The table, the objects, the heartbeats and every request keep their
\* shapes; in particular a count of failures stays below MaxFailures.
THEOREM TypeCorrect == Spec => []TypeOK
BY TypeInit, TypeNext, PTL DEF Spec
-----------------------------------------------------------------------------
(* The inductive invariant *)

\* What GoOn leaves to do is still to do.
LEMMA GoesOn ==
    ASSUME TypeOK, NEW t \in Tasks, NEW todo \in SUBSET Agents, GoOn(t, todo)
    PROVE  /\ \A u \in Tasks \ {t} : task'[u] = task[u]
           /\ task'[t].pc \in {"idle", "reload"}
           /\ \A a \in todo : /\ task'[t].pc = "reload"
                              /\ task'[t].agent = a \/ a \in task'[t].todo
BY DEF GoOn, Goto, TypeOK, Rest

\* A coroutine that takes a step is the only one on the loop.
LEMMA Alone ==
    ASSUME TypeOK, OneOnLoop, NEW t \in Tasks, Request(t) \/ Serve(t)
    PROVE  \A u \in Tasks \ {t} : task'[u] = task[u] /\ ~OnLoop(u)
<1>1. \A next : Goto(t, next) => \A u \in Tasks \ {t} : task'[u] = task[u]
  BY DEF Goto, TypeOK
<1>2. \A todo : GoOn(t, todo) => \A u \in Tasks \ {t} : task'[u] = task[u]
  BY <1>1 DEF GoOn
<1>3. CASE Request(t)
  BY <1>1, <1>2, <1>3 DEF Request, Create, UpdateLoad, Reload, UpsertKey, LoopFree
<1>4. CASE UpdateCommit(t) \/ ReloadRead(t) \/ Build(t) \/ BuildFails(t)
  <2>1. OnLoop(t)
    BY <1>4 DEF UpdateCommit, ReloadRead, Build, BuildFails, OnLoop
  <2>2. \A u \in Tasks \ {t} : ~OnLoop(u)
    BY <2>1 DEF OneOnLoop
  <2>3. \A u \in Tasks \ {t} : task'[u] = task[u]
    BY <1>1, <1>2, <1>4 DEF UpdateCommit, ReloadRead, Build, BuildFails
  <2> QED BY <2>2, <2>3
<1>5. CASE InitDone(t)
  BY <1>2, <1>5 DEF InitDone, LoopFree
<1> QED BY <1>3, <1>4, <1>5 DEF Serve

\* The loop runs one coroutine at a time.
LEMMA OneOnLoopNext == ASSUME TypeOK, OneOnLoop, [Next]_vars PROVE OneOnLoop'
<1>1. ASSUME NEW t \in Tasks, Request(t) \/ Serve(t) PROVE OneOnLoop'
  BY <1>1, Alone DEF OneOnLoop, OnLoop
<1>2. CASE UNCHANGED task
  BY <1>2 DEF OneOnLoop, OnLoop
<1>3. CASE Restart
  BY <1>3 DEF Restart, OneOnLoop, OnLoop, Rest
<1>4. ASSUME NEW d \in Threads, Deletion(d) PROVE UNCHANGED task
  BY <1>4 DEF Deletion, DeleteCheck, DeletePop, DeleteLoad, DeleteCommit
<1>5. ASSUME NEW a \in Agents, JobInit(a) \/ Pulse(a) PROVE UNCHANGED task
  BY <1>5 DEF JobInit, Pulse, Beat, BeatSucceeds, BeatFails
<1>6. CASE DeleteKey \/ UNCHANGED vars
  BY <1>2, <1>6 DEF DeleteKey, vars
<1> QED BY <1>1, <1>2, <1>3, <1>4, <1>5, <1>6 DEF Next

\* Between the read of a row and the build nothing changes what was read.
LEMMA LoadedNext == ASSUME TypeOK, OneOnLoop, Loaded, [Next]_vars PROVE Loaded'
<1>1. ASSUME NEW t \in Tasks, Request(t) \/ Serve(t) PROVE Loaded'
  <2>1. \A u \in Tasks \ {t} : task'[u].pc # "build"
    BY <1>1, Alone DEF OnLoop
  <2>2. task'[t].pc = "build" /\ Present(task[t].agent)'
          => task'[t].cfg = row'[task'[t].agent].cfg
    <3>1. CASE Create(t)
      <4>1. PICK a \in Agents, c \in Configs :
              /\ row' = [row EXCEPT ![a] = [cfg |-> c, active |-> TRUE]]
              /\ Goto(t, [pc |-> "build", agent |-> a, cfg |-> c, todo |-> {}])
        BY <3>1 DEF Create
      <4>2. row'[a].cfg = c /\ task'[t].agent = a /\ task'[t].cfg = c
        BY <4>1 DEF Goto, TypeOK
      <4> QED BY <4>2
    <3>2. CASE ReloadRead(t)
      <4>1. task[t].todo \in SUBSET Agents
        BY <3>2, TaskFields DEF ReloadRead
      <4>2. CASE Active(task[t].agent)
        BY <3>2, <4>2 DEF ReloadRead, Goto, TypeOK
      <4>3. CASE ~Active(task[t].agent)
        BY <3>2, <4>1, <4>3, GoesOn DEF ReloadRead
      <4> QED BY <4>2, <4>3
    <3>3. CASE UpdateLoad(t) \/ Reload(t) \/ UpdateCommit(t) \/ Build(t)
      BY <3>3 DEF UpdateLoad, Reload, UpdateCommit, Build, Goto, TypeOK, Rest
    <3>4. CASE UpsertKey(t)
      BY <3>4, GoesOn DEF UpsertKey
    <3>5. CASE BuildFails(t) \/ InitDone(t)
      <4>1. task[t].todo \in SUBSET Agents
        BY <3>5, TaskFields DEF BuildFails, InitDone
      <4> QED BY <3>5, <4>1, GoesOn DEF BuildFails, InitDone
    <3> QED BY <1>1, <3>1, <3>2, <3>3, <3>4, <3>5 DEF Request, Serve
  <2> QED BY <2>1, <2>2 DEF Loaded
<1>2. CASE UNCHANGED <<row, task>>
  BY <1>2 DEF Loaded, Present
<1>3. CASE Restart
  BY <1>3 DEF Restart, Loaded, Rest
<1>4. ASSUME NEW d \in Threads, DeleteCommit(d) PROVE Loaded'
  <2>1. UNCHANGED task
    BY <1>4 DEF DeleteCommit
  <2>2. \A a \in Agents : Present(a)' => Present(a) /\ row'[a].cfg = row[a].cfg
    <3>1. thread[d].agent \in Agents
      BY <1>4, ThreadFields DEF DeleteCommit
    <3>2. CASE thread[d].forever
      BY <1>4, <3>1, <3>2 DEF DeleteCommit, TypeOK, Present
    <3>3. CASE ~thread[d].forever /\ thread[d].saw /\ Present(thread[d].agent)
      <4>1. row' = [row EXCEPT ![thread[d].agent].active = FALSE]
        BY <1>4, <3>3 DEF DeleteCommit
      <4>2. row[thread[d].agent] \in Row
        BY <3>1, <3>3, Fields
      <4>3. row'[thread[d].agent].cfg = row[thread[d].agent].cfg
        BY <3>1, <4>1, <4>2 DEF TypeOK, Row
      <4>4. \A a \in Agents \ {thread[d].agent} : row'[a] = row[a]
        BY <4>1 DEF TypeOK
      <4> QED BY <3>3, <4>3, <4>4 DEF Present
    <3>4. CASE ~thread[d].forever /\ ~(thread[d].saw /\ Present(thread[d].agent))
      BY <1>4, <3>4 DEF DeleteCommit, Present
    <3> QED BY <3>2, <3>3, <3>4
  <2>3. \A t \in Tasks : task[t].pc = "build" => task[t].agent \in Agents
    BY TaskFields
  <2> QED BY <2>1, <2>2, <2>3 DEF Loaded
<1>5. ASSUME NEW d \in Threads, DeleteCheck(d) \/ DeletePop(d) \/ DeleteLoad(d)
      PROVE  UNCHANGED <<row, task>>
  BY <1>5 DEF DeleteCheck, DeletePop, DeleteLoad
<1>6. ASSUME NEW a \in Agents, JobInit(a) \/ Pulse(a) PROVE UNCHANGED <<row, task>>
  BY <1>6 DEF JobInit, Pulse, Beat, BeatSucceeds, BeatFails
<1>7. CASE DeleteKey \/ UNCHANGED vars
  BY <1>2, <1>7 DEF DeleteKey, vars
<1> QED BY <1>1, <1>2, <1>3, <1>4, <1>5, <1>6, <1>7 DEF Next, Deletion

\* An object being initialised has its coroutine.
LEMMA AttendedNext == ASSUME TypeOK, OneOnLoop, Attended, [Next]_vars PROVE Attended'
<1>0. \A t \in Tasks : t \notin {"ready", "broken"} /\ t # None
  BY RuntimeAssumption
<1>1. ASSUME NEW t \in Tasks, Request(t) PROVE Attended'
  <2>1. task[t].pc = "idle" /\ agents' = agents
    BY <1>1 DEF Request, Create, UpdateLoad, Reload, UpsertKey, Rest
  <2>2. \A u \in Tasks \ {t} : task'[u] = task[u]
    BY <1>1, Alone
  <2> QED BY <2>1, <2>2 DEF Attended
<1>2. ASSUME NEW t \in Tasks, UpdateCommit(t) \/ ReloadRead(t) \/ BuildFails(t) PROVE Attended'
  <2>1. task[t].pc # "init" /\ agents' = agents
    BY <1>2 DEF UpdateCommit, ReloadRead, BuildFails
  <2>2. \A u \in Tasks \ {t} : task'[u] = task[u]
    BY <1>2, Alone DEF Serve
  <2> QED BY <2>1, <2>2 DEF Attended
<1>3. ASSUME NEW t \in Tasks, Build(t) PROVE Attended'
  <2> DEFINE a == task[t].agent
  <2>1. task[t].pc = "build" /\ a \in Agents
    BY <1>3, TaskFields DEF Build
  <2>2. agents'[a].state = t /\ \A b \in Agents \ {a} : agents'[b] = agents[b]
    BY <1>3, <2>1 DEF Build, Built, TypeOK
  <2>3. task'[t].pc = "init" /\ task'[t].agent = a
    BY <1>3 DEF Build, Goto, TypeOK
  <2>4. \A u \in Tasks \ {t} : task'[u] = task[u]
    BY <1>3, Alone DEF Serve
  <2> QED BY <2>1, <2>2, <2>3, <2>4 DEF Attended
<1>4. ASSUME NEW t \in Tasks, InitDone(t) PROVE Attended'
  <2> DEFINE a == task[t].agent
  <2>1. a \in Agents
    BY <1>4, TaskFields DEF InitDone
  <2>2. \A u \in Tasks \ {t} : task'[u] = task[u]
    BY <1>4, Alone DEF Serve
  <2>3. PICK end \in {"ready", "broken"} :
          agents' = IF agents[a].state = t THEN [agents EXCEPT ![a].state = end] ELSE agents
    BY <1>4 DEF InitDone
  <2>4. \A b \in Agents : agents'[b].state # t
    <3>1. \A b \in Agents \ {a} : agents[b].state # t
      BY DEF Attended
    <3>2. agents[a].state = t => agents[a] \in Object
      BY <1>0, <2>1 DEF TypeOK, NoObject
    <3>3. agents'[a].state # t
      BY <1>0, <2>1, <2>3, <3>2 DEF TypeOK, Object
    <3>4. \A b \in Agents \ {a} : agents'[b] = agents[b]
      BY <2>3 DEF TypeOK
    <3> QED BY <3>1, <3>3, <3>4
  <2>5. \A b \in Agents, u \in Tasks \ {t} : agents'[b].state = u => agents[b].state = u
    <3>1. agents[a].state = t => agents[a] \in Object
      BY <1>0, <2>1 DEF TypeOK, NoObject
    <3>2. agents[a].state = t => agents'[a].state = end
      BY <2>1, <2>3, <3>1 DEF TypeOK, Object
    <3>3. \A b \in Agents \ {a} : agents'[b] = agents[b]
      BY <2>3 DEF TypeOK
    <3> QED BY <1>0, <2>3, <3>2, <3>3
  <2> QED BY <2>2, <2>4, <2>5 DEF Attended
<1>5. ASSUME NEW a \in Agents, JobInit(a) PROVE Attended'
  <2>1. agents[a] \in Object /\ agents' = [agents EXCEPT ![a].state = "ready"] /\ UNCHANGED task
    BY <1>5, Fields DEF JobInit
  <2>2. agents'[a].state = "ready" /\ \A b \in Agents \ {a} : agents'[b] = agents[b]
    BY <2>1 DEF TypeOK, Object
  <2> QED BY <1>0, <2>1, <2>2 DEF Attended
<1>6. ASSUME NEW d \in Threads, DeletePop(d) PROVE Attended'
  <2>1. \A b \in Agents : agents'[b] = agents[b] \/ agents'[b] = NoObject
    BY <1>6 DEF DeletePop, TypeOK
  <2>2. UNCHANGED task
    BY <1>6 DEF DeletePop
  <2> QED BY <1>0, <2>1, <2>2 DEF Attended, NoObject
<1>7. CASE Restart
  <2>1. \A a \in Agents : agents'[a].state \in {"ready", "broken", None}
    BY <1>7 DEF Restart, LoadAgents, Built, NoObject
  <2> QED BY <1>0, <2>1 DEF Attended
<1>8. CASE UNCHANGED <<agents, task>>
  BY <1>8 DEF Attended
<1>9. ASSUME NEW d \in Threads, DeleteCheck(d) \/ DeleteLoad(d) \/ DeleteCommit(d)
      PROVE  UNCHANGED <<agents, task>>
  BY <1>9 DEF DeleteCheck, DeleteLoad, DeleteCommit
<1>10. ASSUME NEW a \in Agents, Pulse(a) PROVE UNCHANGED <<agents, task>>
  BY <1>10 DEF Pulse, Beat, BeatSucceeds, BeatFails
<1>11. CASE DeleteKey \/ UNCHANGED vars
  BY <1>8, <1>11 DEF DeleteKey, vars
<1> QED
  BY <1>1, <1>2, <1>3, <1>4, <1>5, <1>6, <1>7, <1>8, <1>9, <1>10, <1>11 DEF Next, Serve, Deletion

\* What a coroutine has in hand goes on, as long as it does not end with it.
LEMMA WorkGoesOn ==
    ASSUME TypeOK, OneOnLoop, NEW t \in Tasks, Request(t) \/ Serve(t), NEW a \in Agents
    PROVE  /\ Queued(a) => Queued(a)' \/ Reloading(a)'
           /\ Reloading(a) => Reloading(a)' \/ task[t].agent = a
<1>1. \A u \in Tasks \ {t} : task'[u] = task[u]
  BY Alone
<1>2. Reloading(a) => Reloading(a)' \/ task[t].agent = a
  BY <1>1 DEF Reloading
<1>3. ASSUME task[t].pc \in {"reload", "build", "init"}, a \in task[t].todo
      PROVE  Queued(a)' \/ Reloading(a)'
  <2>0. task[t].todo \in SUBSET Agents /\ task[t] # Rest /\ task[t].pc # "commit"
    BY <1>3, TaskFields DEF Rest
  <2>1. CASE GoOn(t, task[t].todo)
    BY <1>3, <2>0, <2>1, GoesOn DEF Queued, Reloading
  <2>2. CASE ReloadRead(t) \/ Build(t)
    <3>1. CASE task'[t].pc \in {"build", "init"} /\ task'[t].todo = task[t].todo
      BY <1>3, <3>1 DEF Queued
    <3>2. CASE GoOn(t, task[t].todo)
      BY <2>1, <3>2
    <3>3. \/ task'[t].pc \in {"build", "init"} /\ task'[t].todo = task[t].todo
          \/ GoOn(t, task[t].todo)
      BY <2>2 DEF ReloadRead, Build, Goto, TypeOK
    <3> QED BY <3>1, <3>2, <3>3
  <2>3. BuildFails(t) \/ InitDone(t) => GoOn(t, task[t].todo)
    BY DEF BuildFails, InitDone
  <2>4. ~Request(t) /\ ~UpdateCommit(t)
    BY <2>0 DEF Request, Create, UpdateLoad, Reload, UpsertKey, UpdateCommit
  <2> QED BY <2>1, <2>2, <2>3, <2>4 DEF Serve
<1>4. Queued(a) => Queued(a)' \/ Reloading(a)'
  BY <1>1, <1>3 DEF Queued
<1> QED BY <1>2, <1>4

\* What is served is still served when neither the row nor the object nor the
\* key changes.
LEMMA StillCovered ==
    ASSUME NEW a \in Agents, Covered,
           row'[a] = row[a], agents'[a] = agents[a], key' \in {key, NoKey},
           a \in failed => a \in failed',
           Deleting(a) => Deleting(a)',
           Reloading(a) => Reloading(a)',
           Queued(a) => Queued(a)' \/ Reloading(a)'
    PROVE  CoveredAt(a)'
<1>1. Active(a)' = Active(a) /\ Registered(a)' = Registered(a)
  BY DEF Active, Present, Registered
<1>2. KeyCurrent(a) => KeyCurrent(a)'
  BY DEF KeyCurrent, ResolvedKey
<1> QED BY <1>1, <1>2 DEF Covered, CoveredAt, Serving

\* The requests of the loop, as they start and as they are served.
LEMMA CoveredRequest ==
    ASSUME TypeOK, OneOnLoop, Covered, NEW t \in Tasks, Request(t), NEW a \in Agents
    PROVE  CoveredAt(a)'
<1>1. UNCHANGED <<agents, failed, thread>> /\ LoopFree /\ task[t].pc = "idle"
  BY DEF Request, Create, UpdateLoad, Reload, UpsertKey, Rest
<1>2. ~Reloading(a)
  BY <1>1 DEF Reloading, LoopFree, OnLoop
<1>3. Deleting(a)' = Deleting(a)
  BY <1>1 DEF Deleting
<1>4. Queued(a) => Queued(a)' \/ Reloading(a)'
  BY WorkGoesOn
<1>5. CASE Create(t)
  <2>1. PICK b \in Agents, c \in Configs :
          /\ row' = [row EXCEPT ![b] = [cfg |-> c, active |-> TRUE]]
          /\ Goto(t, [pc |-> "build", agent |-> b, cfg |-> c, todo |-> {}])
    BY <1>5 DEF Create
  <2>2. CASE a = b
    <3>1. Reloading(a)'
      BY <2>1, <2>2 DEF Goto, TypeOK, Reloading
    <3> QED BY <3>1 DEF CoveredAt
  <2>3. CASE a # b
    <3>1. row'[a] = row[a] /\ key' = key
      BY <1>5, <2>1, <2>3 DEF TypeOK, Create
    <3> QED BY <1>1, <1>2, <1>3, <1>4, <3>1, StillCovered
  <2> QED BY <2>2, <2>3
<1>6. CASE UpdateLoad(t) \/ Reload(t)
  <2>1. UNCHANGED <<row, key>>
    BY <1>6 DEF UpdateLoad, Reload
  <2> QED BY <1>1, <1>2, <1>3, <1>4, <2>1, StillCovered
<1>7. CASE UpsertKey(t)
  <2>1. UNCHANGED row /\ GoOn(t, {b \in Agents : Registered(b)})
    BY <1>7 DEF UpsertKey
  <2>2. Registered(a) => Queued(a)' \/ Reloading(a)'
    BY <2>1, GoesOn DEF Queued, Reloading
  <2> QED
    BY <1>1, <1>2, <1>3, <2>1, <2>2
    DEF Covered, CoveredAt, Serving, Active, Present, Registered
<1> QED BY <1>5, <1>6, <1>7 DEF Request

\* The steps of a request, up to its end.
LEMMA CoveredServe ==
    ASSUME TypeOK, OneOnLoop, Loaded, Covered, NEW t \in Tasks, Serve(t), NEW a \in Agents
    PROVE  CoveredAt(a)'
<1> DEFINE b == task[t].agent
<1>1. UNCHANGED <<key, thread>>
  BY DEF Serve, UpdateCommit, ReloadRead, Build, BuildFails, InitDone
<1>2. b \in Agents
  BY TaskFields DEF Serve, UpdateCommit, ReloadRead, Build, BuildFails, InitDone
<1>3. Deleting(a)' = Deleting(a)
  BY <1>1 DEF Deleting
<1>4. /\ Queued(a) => Queued(a)' \/ Reloading(a)'
      /\ Reloading(a) => Reloading(a)' \/ b = a
  BY WorkGoesOn
<1>5. CASE UpdateCommit(t)
  <2>1. UNCHANGED <<agents, failed>> /\ task[t].pc = "commit"
    BY <1>5 DEF UpdateCommit
  <2>2. CASE a = b /\ Present(b)
    <3>1. Reloading(a)'
      BY <1>5, <2>2 DEF UpdateCommit, Goto, TypeOK, Reloading
    <3> QED BY <3>1 DEF CoveredAt
  <2>3. CASE ~(a = b /\ Present(b))
    <3>1. row'[a] = row[a]
      BY <1>5, <2>3 DEF UpdateCommit, TypeOK
    <3>2. Reloading(a) => Reloading(a)'
      <4>1. \A u \in Tasks \ {t} : task'[u] = task[u]
        BY Alone
      <4> QED BY <2>1, <4>1 DEF Reloading
    <3> QED BY <1>1, <1>3, <1>4, <2>1, <3>1, <3>2, StillCovered
  <2> QED BY <2>2, <2>3
<1>6. CASE ReloadRead(t)
  <2>1. UNCHANGED <<row, agents, failed>>
    BY <1>6 DEF ReloadRead
  <2>2. CASE a = b /\ Active(b)
    <3>1. Reloading(a)'
      BY <1>6, <2>2 DEF ReloadRead, Goto, TypeOK, Reloading
    <3> QED BY <3>1 DEF CoveredAt
  <2>3. CASE a = b /\ ~Active(b)
    BY <2>1, <2>3 DEF CoveredAt, Active, Present
  <2>4. CASE a # b
    BY <1>1, <1>3, <1>4, <2>1, <2>4, StillCovered
  <2> QED BY <2>2, <2>3, <2>4
<1>7. CASE Build(t)
  <2>1. agents' = [agents EXCEPT ![b] = Built(task[t].cfg, t)] /\ UNCHANGED row
        /\ failed' = failed \ {b} /\ task[t].pc = "build"
    BY <1>7 DEF Build
  <2>2. CASE a = b
    <3>1. agents'[a] = Built(task[t].cfg, t)
      BY <1>2, <2>1, <2>2 DEF TypeOK
    <3>2. Registered(a)'
      <4>1. agents'[a].state # None
        BY <3>1, RuntimeAssumption DEF Built
      <4> QED BY <4>1 DEF Registered, NoObject
    <3>3. KeyCurrent(a)'
      BY <1>1, <3>1 DEF KeyCurrent, Built, ResolvedKey
    <3>4. Active(a)' => agents'[a].cfg = row'[a].cfg
      BY <2>1, <2>2, <3>1 DEF Loaded, Active, Present, Built
    <3> QED BY <3>2, <3>3, <3>4 DEF CoveredAt, Serving
  <2>3. CASE a # b
    <3>1. agents'[a] = agents[a]
      BY <2>1, <2>3 DEF TypeOK
    <3> QED BY <1>1, <1>3, <1>4, <2>1, <2>3, <3>1, StillCovered
  <2> QED BY <2>2, <2>3
<1>8. CASE BuildFails(t)
  <2>1. UNCHANGED <<row, agents>> /\ failed' = failed \cup {b}
    BY <1>8 DEF BuildFails
  <2>2. CASE a = b
    BY <2>1, <2>2 DEF CoveredAt
  <2>3. CASE a # b
    BY <1>1, <1>3, <1>4, <2>1, <2>3, StillCovered
  <2> QED BY <2>2, <2>3
<1>9. CASE InitDone(t)
  <2>1. UNCHANGED <<row, failed>> /\ task[t].pc = "init"
    BY <1>9 DEF InitDone
  <2>2. Reloading(a) => Reloading(a)'
    <3>1. \A u \in Tasks \ {t} : task'[u] = task[u]
      BY Alone
    <3> QED BY <2>1, <3>1 DEF Reloading
  <2>3. PICK end \in {"ready", "broken"} :
          agents' = IF agents[b].state = t THEN [agents EXCEPT ![b].state = end] ELSE agents
    BY <1>9 DEF InitDone
  <2>4. CASE a = b /\ agents[b].state = t
    <3>1. agents[a] \in Object
      BY <2>4, RuntimeAssumption DEF TypeOK, NoObject
    <3>2. agents'[a].state = end /\ agents'[a].cfg = agents[a].cfg /\ agents'[a].key = agents[a].key
      BY <2>3, <2>4, <3>1 DEF TypeOK, Object
    <3>3. Registered(a)'
      <4>1. agents'[a].state # None
        BY <3>2, RuntimeAssumption
      <4> QED BY <4>1 DEF Registered, NoObject
    <3>4. KeyCurrent(a)' = KeyCurrent(a)
      BY <1>1, <3>2 DEF KeyCurrent, ResolvedKey
    <3>5. Active(a)' = Active(a)
      BY <2>1 DEF Active, Present
    <3> QED
      BY <1>3, <1>4, <2>1, <2>2, <3>2, <3>3, <3>4, <3>5 DEF Covered, CoveredAt, Serving
  <2>5. CASE ~(a = b /\ agents[b].state = t)
    <3>1. agents'[a] = agents[a]
      BY <2>3, <2>5 DEF TypeOK
    <3> QED BY <1>1, <1>3, <1>4, <2>1, <2>2, <3>1, StillCovered
  <2> QED BY <2>4, <2>5
<1> QED BY <1>5, <1>6, <1>7, <1>8, <1>9 DEF Serve

\* The deletes, in their threads.
LEMMA CoveredDeletion ==
    ASSUME TypeOK, Covered, NEW d \in Threads, Deletion(d), NEW a \in Agents
    PROVE  CoveredAt(a)'
<1> DEFINE b == thread[d].agent
<1>1. UNCHANGED <<key, failed, task>>
  BY DEF Deletion, DeleteCheck, DeletePop, DeleteLoad, DeleteCommit
<1>2. Reloading(a)' = Reloading(a) /\ Queued(a)' = Queued(a)
  BY <1>1 DEF Reloading, Queued
<1>3. \A next : thread' = [thread EXCEPT ![d] = next] =>
        /\ thread'[d] = next
        /\ \A e \in Threads \ {d} : thread'[e] = thread[e]
  BY DEF TypeOK
<1>4. CASE DeleteCheck(d)
  <2>1. UNCHANGED <<row, agents>> /\ thread[d].pc = "idle"
    BY <1>4 DEF DeleteCheck, Rest
  <2>2. \A e \in Threads \ {d} : thread'[e] = thread[e]
    BY <1>3, <1>4 DEF DeleteCheck
  <2>3. Deleting(a) => Deleting(a)'
    BY <2>1, <2>2 DEF Deleting
  <2> QED BY <1>1, <1>2, <2>1, <2>3, StillCovered
<1>5. CASE DeletePop(d)
  <2>1. UNCHANGED row /\ thread[d].pc = "pop" /\ agents' = [agents EXCEPT ![b] = NoObject]
    BY <1>5 DEF DeletePop
  <2>2. b \in Agents
    BY <2>1, ThreadFields
  <2>3. \A e \in Threads \ {d} : thread'[e] = thread[e]
    BY <1>3, <1>5 DEF DeletePop
  <2>4. Deleting(a) => Deleting(a)'
    BY <2>1, <2>3 DEF Deleting
  <2>5. CASE a = b /\ Registered(b)
    <3>1. thread[d] \in [pc: {"pop", "load"}, agent: Agents, forever: BOOLEAN]
      BY <2>1 DEF TypeOK, Delete, Rest
    <3>2. thread'[d] = [thread[d] EXCEPT !.pc = "load"]
      BY <1>5, <2>5 DEF DeletePop, TypeOK
    <3>3. thread'[d].pc = "load" /\ thread'[d].agent = a
      BY <2>5, <3>1, <3>2
    <3>4. Deleting(a)'
      BY <3>3 DEF Deleting
    <3> QED BY <3>4 DEF CoveredAt
  <2>6. CASE ~(a = b /\ Registered(b))
    <3>1. agents'[a] = agents[a]
      BY <2>1, <2>2, <2>6 DEF TypeOK, Registered
    <3> QED BY <1>1, <1>2, <2>1, <2>4, <3>1, StillCovered
  <2> QED BY <2>5, <2>6
<1>6. CASE DeleteLoad(d)
  <2>1. UNCHANGED <<row, agents>> /\ thread[d].pc = "load"
    BY <1>6 DEF DeleteLoad
  <2>2. \A e \in Threads \ {d} : thread'[e] = thread[e]
    BY <1>3, <1>6 DEF DeleteLoad
  <2>3. CASE a = b /\ Active(b)
    <3>1. thread'[d].pc = "commit" /\ thread'[d].agent = a /\ thread'[d].saw
      BY <1>3, <1>6, <2>3 DEF DeleteLoad, Active
    <3>2. Deleting(a)'
      BY <3>1 DEF Deleting
    <3> QED BY <3>2 DEF CoveredAt
  <2>4. CASE a = b /\ ~Active(b)
    BY <2>1, <2>4 DEF CoveredAt, Active, Present
  <2>5. CASE a # b
    <3>1. Deleting(a) => Deleting(a)'
      BY <2>2, <2>5 DEF Deleting
    <3> QED BY <1>1, <1>2, <2>1, <3>1, StillCovered
  <2> QED BY <2>3, <2>4, <2>5
<1>7. CASE DeleteCommit(d)
  <2>1. UNCHANGED agents /\ thread[d].pc = "commit" /\ b \in Agents
    BY <1>7, ThreadFields DEF DeleteCommit
  <2>2. \A e \in Threads \ {d} : thread'[e] = thread[e]
    BY <1>3, <1>7 DEF DeleteCommit
  <2>3. CASE a = b /\ (thread[d].forever \/ thread[d].saw)
    <3>1. CASE thread[d].forever
      <4>1. row'[a] = NoAgentRow
        BY <1>7, <2>1, <2>3, <3>1 DEF DeleteCommit, TypeOK
      <4> QED BY <4>1 DEF CoveredAt, Active, Present
    <3>2. CASE ~thread[d].forever /\ Present(a)
      <4>1. row' = [row EXCEPT ![a].active = FALSE] /\ row[a] \in Row
        BY <1>7, <2>3, <3>2, Fields DEF DeleteCommit
      <4>2. ~row'[a].active
        BY <4>1 DEF TypeOK, Row
      <4> QED BY <4>2 DEF CoveredAt, Active
    <3>3. CASE ~thread[d].forever /\ ~Present(a)
      <4>1. row' = row
        BY <1>7, <2>3, <3>3 DEF DeleteCommit
      <4> QED BY <3>3, <4>1 DEF CoveredAt, Active, Present
    <3> QED BY <3>1, <3>2, <3>3
  <2>4. CASE ~(a = b /\ (thread[d].forever \/ thread[d].saw))
    <3>1. row'[a] = row[a]
      BY <1>7, <2>4 DEF DeleteCommit, TypeOK
    <3>2. Deleting(a) => Deleting(a)'
      BY <2>1, <2>2, <2>4 DEF Deleting
    <3> QED BY <1>1, <1>2, <2>1, <3>1, <3>2, StillCovered
  <2> QED BY <2>3, <2>4
<1> QED BY <1>4, <1>5, <1>6, <1>7 DEF Deletion

\* A new process serves every active row that it could build.
LEMMA CoveredRestart == ASSUME TypeOK, Restart, NEW a \in Agents PROVE CoveredAt(a)'
<1>1. UNCHANGED <<row, key>>
  BY DEF Restart
<1>2. Active(a)' /\ a \notin failed' =>
        \E s \in {"ready", "broken"} : agents'[a] = Built(row[a].cfg, s)
  <2>1. Active(a)' = Active(a)
    BY <1>1 DEF Active, Present
  <2> QED BY <2>1 DEF Restart, LoadAgents
<1>3. ASSUME NEW s \in {"ready", "broken"}, agents'[a] = Built(row[a].cfg, s) PROVE Serving(a)'
  <2>1. agents'[a].state # None
    BY <1>3, RuntimeAssumption DEF Built
  <2>2. Registered(a)'
    BY <2>1 DEF Registered, NoObject
  <2>3. KeyCurrent(a)'
    BY <1>1, <1>3 DEF KeyCurrent, Built, ResolvedKey
  <2> QED BY <1>1, <1>3, <2>2, <2>3 DEF Serving, Built
<1> QED BY <1>2, <1>3 DEF CoveredAt

\* Every step keeps the active agents covered.
LEMMA CoveredNext ==
    ASSUME TypeOK, OneOnLoop, Loaded, Covered, [Next]_vars
    PROVE  Covered'
<1> SUFFICES ASSUME NEW a \in Agents PROVE CoveredAt(a)'
  BY DEF Covered
<1>1. ASSUME NEW t \in Tasks, Request(t) \/ Serve(t) PROVE CoveredAt(a)'
  BY <1>1, CoveredRequest, CoveredServe
<1>2. ASSUME NEW d \in Threads, Deletion(d) PROVE CoveredAt(a)'
  BY <1>2, CoveredDeletion
<1>3. CASE Restart
  BY <1>3, CoveredRestart
<1>4. ASSUME UNCHANGED <<row, failed, task, thread>>, agents'[a] = agents[a], key' \in {key, NoKey}
      PROVE  CoveredAt(a)'
  <2>1. Deleting(a)' = Deleting(a) /\ Reloading(a)' = Reloading(a) /\ Queued(a)' = Queued(a)
    BY <1>4 DEF Deleting, Reloading, Queued
  <2> QED BY <1>4, <2>1, StillCovered
<1>5. CASE DeleteKey \/ UNCHANGED vars
  BY <1>4, <1>5 DEF DeleteKey, vars
<1>6. ASSUME NEW b \in Agents, Pulse(b) PROVE CoveredAt(a)'
  BY <1>4, <1>6 DEF Pulse, Beat, BeatSucceeds, BeatFails
<1>7. ASSUME NEW b \in Agents, JobInit(b) PROVE CoveredAt(a)'
  <2>1. /\ UNCHANGED <<row, key, failed, task, thread>>
        /\ agents' = [agents EXCEPT ![b].state = "ready"]
        /\ agents[b] \in Object
    BY <1>7, Fields DEF JobInit
  <2>2. CASE a # b
    <3>1. agents'[a] = agents[a]
      BY <2>1, <2>2 DEF TypeOK
    <3> QED BY <1>4, <2>1, <3>1
  <2>3. CASE a = b
    <3>1. agents'[a].state = "ready" /\ agents'[a].cfg = agents[a].cfg /\ agents'[a].key = agents[a].key
      BY <2>1, <2>3 DEF TypeOK, Object
    <3>2. Registered(a)'
      BY <3>1, RuntimeAssumption DEF Registered, NoObject
    <3>3. /\ KeyCurrent(a)' = KeyCurrent(a)
          /\ Active(a)' = Active(a)
          /\ Deleting(a)' = Deleting(a) /\ Reloading(a)' = Reloading(a) /\ Queued(a)' = Queued(a)
      BY <2>1, <3>1 DEF KeyCurrent, ResolvedKey, Active, Present, Deleting, Reloading, Queued
    <3> QED BY <2>1, <3>1, <3>2, <3>3 DEF Covered, CoveredAt, Serving
  <2> QED BY <2>2, <2>3
<1> QED BY <1>1, <1>2, <1>3, <1>5, <1>6, <1>7 DEF Next

\* Nothing is there yet.
LEMMA RuntimeInit == Init => RuntimeInv
<1>1. Init => Covered
  BY DEF Init, Covered, CoveredAt, Active, Present
<1>2. Init => OneOnLoop /\ Loaded
  BY DEF Init, OneOnLoop, OnLoop, Loaded, Rest
<1>3. Init => Attended
  BY RuntimeAssumption DEF Init, Attended, NoObject
<1> QED BY <1>1, <1>2, <1>3 DEF RuntimeInv

\* The invariant is inductive.
LEMMA RuntimeNext == TypeOK /\ RuntimeInv /\ [Next]_vars => RuntimeInv'
BY OneOnLoopNext, LoadedNext, AttendedNext, CoveredNext DEF RuntimeInv

\* Active agents stay covered, and what the loop has in hand stays sound.
THEOREM RuntimeInvariant == Spec => []RuntimeInv
BY RuntimeInit, RuntimeNext, TypeCorrect, PTL DEF Spec
-----------------------------------------------------------------------------
(* The properties *)

\* Without an operation at work the invariant leaves only the object, and no
\* coroutine to initialise it.
LEMMA CoveredIsFresh == TypeOK /\ RuntimeInv => Fresh
<1> SUFFICES ASSUME TypeOK, RuntimeInv, NEW a \in Agents,
                    Active(a), a \notin failed, ~Busy(a)
             PROVE  /\ Registered(a)
                    /\ agents[a].cfg = row[a].cfg
                    /\ KeyCurrent(a)
                    /\ agents[a].state \in {"ready", "broken"}
  BY DEF Fresh
<1>1. ~Deleting(a)
  BY DEF Deleting, Busy
<1>2. ~Reloading(a)
  BY DEF Reloading, Busy
<1>3. ~Queued(a)
  BY DEF Queued, Busy
<1>4. Serving(a)
  BY <1>1, <1>2 DEF RuntimeInv, Covered, CoveredAt
<1>5. agents[a].state \in Tasks \cup {"ready", "broken"}
  BY <1>4, Fields DEF Serving, Object
<1>6. \A t \in Tasks : agents[a].state # t
  BY DEF RuntimeInv, Attended, Busy
<1> QED BY <1>3, <1>4, <1>5, <1>6 DEF Serving

\* An active agent that no operation is working on is served by an object
\* built from its row and the system key as they are now (_reload_agent_async,
\* upsert_system_setting and the deletes, in any order).
THEOREM AlwaysFresh == Spec => []Fresh
BY TypeCorrect, RuntimeInvariant, CoveredIsFresh, PTL

\* An update writes is_active only as it was asked to.
Asked == \A t \in Tasks : task[t].pc = "commit" => task[t].change.active \in {Keep, task[t].asked}

\* Only the load of an update puts a coroutine at its commit.
LEMMA AskedNext == TypeOK /\ OneOnLoop /\ Asked /\ [Next]_vars => Asked'
<1> SUFFICES ASSUME TypeOK, OneOnLoop, Asked, [Next]_vars PROVE Asked'
  OBVIOUS
<1>1. ASSUME NEW t \in Tasks, Request(t) \/ Serve(t) PROVE Asked'
  <2>1. \A u \in Tasks \ {t} : task'[u] = task[u]
    BY <1>1, Alone
  <2>2. task'[t].pc = "commit" => task'[t].change.active \in {Keep, task'[t].asked}
    <3>1. CASE UpdateLoad(t)
      <4>1. PICK a \in Agents, ch \in Change :
              Goto(t, [pc |-> "commit", agent |-> a, asked |-> ch.active,
                       change |-> [cfg |-> Modified(ch.cfg, row[a].cfg),
                                   active |-> Modified(ch.active, row[a].active)]])
        BY <3>1 DEF UpdateLoad
      <4>2. task'[t].asked = ch.active /\ task'[t].change.active = Modified(ch.active, row[a].active)
        BY <4>1 DEF Goto, TypeOK
      <4> QED BY <4>2 DEF Modified
    <3>2. CASE Create(t) \/ Reload(t) \/ UpdateCommit(t) \/ Build(t)
      BY <3>2 DEF Create, Reload, UpdateCommit, Build, Goto, TypeOK, Rest
    <3>3. CASE UpsertKey(t)
      BY <3>3, GoesOn DEF UpsertKey
    <3>4. CASE ReloadRead(t) \/ BuildFails(t) \/ InitDone(t)
      <4>1. task[t].todo \in SUBSET Agents
        BY <3>4, TaskFields DEF ReloadRead, BuildFails, InitDone
      <4>2. GoOn(t, task[t].todo) => task'[t].pc # "commit"
        BY <4>1, GoesOn
      <4>3. CASE ReloadRead(t)
        BY <4>2, <4>3 DEF ReloadRead, Goto, TypeOK
      <4> QED BY <3>4, <4>2, <4>3 DEF BuildFails, InitDone
    <3> QED BY <1>1, <3>1, <3>2, <3>3, <3>4 DEF Request, Serve
  <2> QED BY <2>1, <2>2 DEF Asked
<1>2. CASE UNCHANGED task
  BY <1>2 DEF Asked
<1>3. CASE Restart
  BY <1>3 DEF Restart, Asked, Rest
<1>4. ASSUME NEW d \in Threads, Deletion(d) PROVE UNCHANGED task
  BY <1>4 DEF Deletion, DeleteCheck, DeletePop, DeleteLoad, DeleteCommit
<1>5. ASSUME NEW a \in Agents, JobInit(a) \/ Pulse(a) PROVE UNCHANGED task
  BY <1>5 DEF JobInit, Pulse, Beat, BeatSucceeds, BeatFails
<1>6. CASE DeleteKey \/ UNCHANGED vars
  BY <1>2, <1>6 DEF DeleteKey, vars
<1> QED BY <1>1, <1>2, <1>3, <1>4, <1>5, <1>6 DEF Next

\* A step that makes an inactive row active is such a commit.
LEMMA Undelete ==
    ASSUME TypeOK, Asked, [Next]_vars, NEW a \in Agents,
           Present(a), ~Active(a), Active(a)'
    PROVE  \E t \in Tasks : task[t].pc = "commit" /\ task[t].agent = a /\ task[t].asked = TRUE
<1>0. row'[a] # row[a] /\ ~row[a].active /\ row'[a].active /\ row'[a] # NoAgentRow
  BY DEF Active, Present
<1>1. ASSUME NEW t \in Tasks, UpdateCommit(t)
      PROVE  task[t].pc = "commit" /\ task[t].agent = a /\ task[t].asked = TRUE
  <2>1. task[t].pc = "commit" /\ task[t].agent = a /\ row'[a] = Written(row[a], task[t].change)
    BY <1>0, <1>1 DEF UpdateCommit, TypeOK
  <2>2. row[a].active \in BOOLEAN /\ Keep \notin BOOLEAN
    BY Fields, RuntimeAssumption DEF Row
  <2>3. task[t].change.active \in BOOLEAN \cup {Keep}
    BY <2>1, TaskFields DEF Change
  <2>4. task[t].change.active = TRUE
    BY <1>0, <2>1, <2>2, <2>3 DEF Written
  <2>5. task[t].asked = TRUE
    BY <2>1, <2>2, <2>4 DEF Asked
  <2> QED BY <2>1, <2>5
<1>2. ASSUME NEW t \in Tasks, Create(t) PROVE FALSE
  BY <1>0, <1>2 DEF Create, TypeOK
<1>3. ASSUME NEW d \in Threads, DeleteCommit(d) PROVE FALSE
  <2>1. row[a] \in Row
    BY Fields
  <2>2. row'[a] \in {row[a], NoAgentRow, [row[a] EXCEPT !.active = FALSE]}
    BY <1>3 DEF DeleteCommit, TypeOK
  <2>3. row'[a] = [row[a] EXCEPT !.active = FALSE]
    BY <1>0, <2>2
  <2>4. row'[a].active = FALSE
    BY <2>1, <2>3 DEF Row
  <2> QED BY <1>0, <2>4
<1>4. row' # row
  BY <1>0
<1>5. ~DeleteKey /\ ~Restart /\ ~UNCHANGED vars
  BY <1>4 DEF DeleteKey, Restart, vars
<1>6. \A t \in Tasks : Request(t) \/ Serve(t) => Create(t) \/ UpdateCommit(t)
  BY <1>4 DEF Request, Serve, UpdateLoad, Reload, UpsertKey, ReloadRead, Build, BuildFails, InitDone
<1>7. \A d \in Threads : Deletion(d) => DeleteCommit(d)
  BY <1>4 DEF Deletion, DeleteCheck, DeletePop, DeleteLoad
<1>8. \A b \in Agents : ~JobInit(b) /\ ~Pulse(b)
  BY <1>4 DEF JobInit, Pulse, Beat, BeatSucceeds, BeatFails
<1> QED BY <1>1, <1>2, <1>3, <1>5, <1>6, <1>7, <1>8 DEF Next

\* No update of other fields brings a deleted agent back, however it
\* interleaves with the delete (update_agent and delete_agent).
THEOREM NeverUndeleted == Spec => NoUndelete
<1>1. Init => Asked
  BY DEF Init, Asked, Rest
<1>2. Spec => []Asked
  <2>1. RuntimeInv => OneOnLoop
    BY DEF RuntimeInv
  <2> QED BY <1>1, <2>1, AskedNext, TypeCorrect, RuntimeInvariant, PTL DEF Spec
<1>3. TypeOK /\ Asked /\ [Next]_vars =>
        [\A a \in Agents : Present(a) /\ ~Active(a) /\ Active(a)'
           => \E t \in Tasks : task[t].pc = "commit" /\ task[t].agent = a
                                /\ task[t].asked = TRUE]_vars
  BY Undelete
<1> QED BY <1>2, <1>3, TypeCorrect, PTL DEF Spec, NoUndelete
-----------------------------------------------------------------------------
(* Failing heartbeats *)

\* A bound on the steps that a heartbeat has before it while it only fails.
BeatsLeft(a) ==
    IF a \in heart THEN 2 * (MaxFailures - fails[a]) + (IF a \in beat THEN 0 ELSE 1) ELSE 0

\* Only heartbeats and a new process touch what the HeartbeatRunner keeps.
LEMMA OnlyPulses ==
    ASSUME [Next]_vars
    PROVE  UNCHANGED beats \/ Restart \/ \E a \in Agents : Pulse(a)
<1>1. \A t \in Tasks : Request(t) => UNCHANGED beats
  BY DEF Request, Create, UpdateLoad, Reload, UpsertKey, beats
<1>2. \A t \in Tasks : Serve(t) => UNCHANGED beats
  BY DEF Serve, UpdateCommit, ReloadRead, Build, BuildFails, InitDone, beats
<1>3. \A d \in Threads : Deletion(d) => UNCHANGED beats
  BY DEF Deletion, DeleteCheck, DeletePop, DeleteLoad, DeleteCommit, beats
<1>4. DeleteKey \/ (\E a \in Agents : JobInit(a)) \/ UNCHANGED vars => UNCHANGED beats
  BY DEF DeleteKey, JobInit, vars, beats
<1> QED BY <1>1, <1>2, <1>3, <1>4 DEF Next

LEMMA BeatsTyped ==
    ASSUME TypeOK, NEW a \in Agents
    PROVE  /\ MaxFailures \in Nat \ {0} /\ fails[a] \in 0..(MaxFailures - 1)
           /\ BeatsLeft(a) \in 0..(2 * MaxFailures + 1)
           /\ BeatsLeft(a) = 0 <=> a \notin heart
<1>1. MaxFailures \in Nat \ {0} /\ fails[a] \in 0..(MaxFailures - 1)
  BY RuntimeAssumption DEF TypeOK
<1> QED BY <1>1 DEF BeatsLeft

\* What a heartbeat's step does to its own count, and not to the others'.
LEMMA PulseCounts ==
    ASSUME TypeOK, NEW a \in Agents, Pulse(a)
    PROVE  /\ Beat(a) \/ BeatFails(a) => BeatsLeft(a)' < BeatsLeft(a)
           /\ \A b \in Agents \ {a} : BeatsLeft(b)' = BeatsLeft(b)
<1>1. MaxFailures \in Nat \ {0} /\ fails[a] \in 0..(MaxFailures - 1)
  BY BeatsTyped
<1>2. CASE Beat(a)
  BY <1>1, <1>2 DEF Beat, BeatsLeft
<1>3. CASE BeatSucceeds(a)
  <2>1. ~Beat(a) /\ ~BeatFails(a)
    BY <1>1, <1>3 DEF BeatSucceeds, Beat, BeatFails, Disabled, TypeOK
  <2> QED BY <1>3, <2>1 DEF BeatSucceeds, BeatsLeft, TypeOK
<1>4. CASE BeatFails(a)
  <2>1. a \in heart /\ a \in beat /\ a \notin beat'
    BY <1>4 DEF BeatFails, TypeOK
  <2>2. \A b \in Agents \ {a} : BeatsLeft(b)' = BeatsLeft(b)
    BY <1>4 DEF BeatFails, BeatsLeft, TypeOK
  <2>3. CASE Disabled(a)
    <3>1. a \notin heart'
      BY <1>4, <2>3 DEF BeatFails
    <3> QED BY <1>1, <2>1, <2>2, <3>1 DEF BeatsLeft
  <2>4. CASE ~Disabled(a)
    <3>1. a \in heart' /\ fails'[a] = fails[a] + 1
      BY <1>4, <2>1, <2>4 DEF BeatFails, TypeOK
    <3> QED BY <1>1, <2>1, <2>2, <3>1 DEF BeatsLeft
  <2> QED BY <2>3, <2>4
<1> QED BY <1>2, <1>3, <1>4 DEF Pulse

\* A heartbeat that only fails is at an end after MaxFailures of them: each one
\* that starts or fails leaves fewer before it, and nothing but a success or a
\* restart gives it more, whatever is created, updated, reloaded or deleted
\* meanwhile.
THEOREM FailuresAreCounted ==
    Spec => /\ [](\A a \in Agents : /\ BeatsLeft(a) \in 0..(2 * MaxFailures + 1)
                                    /\ BeatsLeft(a) = 0 <=> a \notin heart)
            /\ [][\A a \in Agents :
                    /\ Beat(a) \/ BeatFails(a) => BeatsLeft(a)' < BeatsLeft(a)
                    /\ BeatSucceeds(a) \/ Restart \/ BeatsLeft(a)' <= BeatsLeft(a)]_vars
<1> DEFINE Counted == \A a \in Agents : /\ BeatsLeft(a) \in 0..(2 * MaxFailures + 1)
                                        /\ BeatsLeft(a) = 0 <=> a \notin heart
           Counts == \A a \in Agents :
                    /\ Beat(a) \/ BeatFails(a) => BeatsLeft(a)' < BeatsLeft(a)
                    /\ BeatSucceeds(a) \/ Restart \/ BeatsLeft(a)' <= BeatsLeft(a)
<1>1. TypeOK => Counted
  BY BeatsTyped
<1>2. TypeOK /\ TypeOK' /\ [Next]_vars => [Counts]_vars
  <2> SUFFICES ASSUME TypeOK, TypeOK', [Next]_vars, NEW a \in Agents
               PROVE  /\ Beat(a) \/ BeatFails(a) => BeatsLeft(a)' < BeatsLeft(a)
                      /\ BeatSucceeds(a) \/ Restart \/ BeatsLeft(a)' <= BeatsLeft(a)
    OBVIOUS
  <2>1. BeatsLeft(a) \in Nat /\ BeatsLeft(a)' \in Nat
    <3>1. BeatsLeft(a) \in Nat
      BY BeatsTyped
    <3>2. fails'[a] \in 0..(MaxFailures - 1) /\ MaxFailures \in Nat
      BY RuntimeAssumption DEF TypeOK
    <3> QED BY <3>1, <3>2 DEF BeatsLeft
  <2>2. Beat(a) \/ BeatFails(a) => BeatsLeft(a)' < BeatsLeft(a)
    BY PulseCounts DEF Pulse
  <2>3. CASE UNCHANGED beats
    <3>1. BeatsLeft(a)' = BeatsLeft(a)
      BY <2>3 DEF beats, BeatsLeft
    <3> QED BY <2>1, <2>2, <3>1
  <2>4. ASSUME NEW b \in Agents, Pulse(b)
        PROVE  BeatSucceeds(a) \/ BeatsLeft(a)' <= BeatsLeft(a)
    <3>1. CASE b = a
      <4>1. BeatSucceeds(a) \/ Beat(a) \/ BeatFails(a)
        BY <2>4, <3>1 DEF Pulse
      <4> QED BY <2>1, <2>2, <4>1
    <3>2. CASE b # a
      <4>1. BeatsLeft(a)' = BeatsLeft(a)
        BY <2>4, <3>2, PulseCounts
      <4> QED BY <2>1, <4>1
    <3> QED BY <3>1, <3>2
  <2> QED BY <2>2, <2>3, <2>4, OnlyPulses
<1> QED BY <1>1, <1>2, TypeCorrect, PTL DEF Spec
=============================================================================
