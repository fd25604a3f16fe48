--------------------------- MODULE SandboxBackend ---------------------------
(***************************************************************************)
(* core/e2b_backend.py: the E2B microVM of one agent, with the dashboard   *)
(* endpoints and the shutdown that pause or resume it and the database row *)
(* that remembers it.  The tools' threads, the asyncio loop and the idle   *)
(* timers' threads share the backend object, and only the timer's own      *)
(* bookkeeping is under a lock.  A step is one call of the E2B API or one  *)
(* critical section, with the statements up to the next one.               *)
(***************************************************************************)
CONSTANTS Threads,   \* executor threads that run tools on the sandbox
          LoopThread, \* the event loop's thread
          Timers,    \* threading.Timer objects (bounds those alive together)
          VMs,       \* E2B sandboxes (bounds those alive or referred to together)
          None,
          R2,        \* whether R2 backups are configured
          Resumes,   \* whether the dashboard's resume endpoint is used
          Serial,    \* whether nothing starts before all else has ended
          Faults     \* what may fail, see below

\* expire: E2B ends a running sandbox.  gateway: a 502, 503 or 504 of a
\* running one.  transient: Sandbox.connect fails on an existing one.
\* create, pause: that call fails.  crash: the process stops unannounced.
ASSUME SandboxAssumption ==
    /\ LoopThread \notin Threads
    /\ (Threads \cup {LoopThread}) \cap Timers = {}
    /\ None \notin VMs \cup Threads \cup {LoopThread} \cup Timers
    /\ {R2, Resumes, Serial} \subseteq BOOLEAN
    /\ Faults \subseteq {"expire", "gateway", "transient", "create", "pause", "crash"}

SandboxCallers == Threads \cup {LoopThread}
Procs == SandboxCallers \cup Timers
VM == VMs \cup {None}

VARIABLES vm,           \* E2B's sandboxes: "off", "running" or "paused"
          box,          \* _sandbox
          saved,        \* _existing_sandbox_id
          row,          \* e2b_sandbox_id of the agent's row
          ref,          \* _idle_timer
          pausing,      \* _pausing
          reconnecting, \* _reconnecting
          proc          \* where each thread is, for which task, with which sandbox

backend == <<box, saved, ref, pausing, reconnecting>>
sandboxVars == <<vm, box, saved, row, ref, pausing, reconnecting, proc>>

\* op: a tool.  reconnect, restore: _reconnect_sandbox and its callbacks,
\* inside a tool.  idle: a timer's _idle_pause.  The rest are the loop's.
Task == {"op", "reconnect", "restore", "idle", "pause", "shutdown", "resume"}
Step == {"none", "armed", "fired", "end", "down",
         "ensure", "connect", "create", "arm", "use", "pause", "paused", "persist"}
\* What pause has paused, and what goes to the row, is a sandbox.
Process == {r \in [pc: Step, task: Task, sbx: VM] :
              r.pc \in {"paused", "persist"} => r.sbx # None}

Rest(pc) == [pc |-> pc, task |-> "op", sbx |-> None]

SandboxTypeOK ==
    /\ vm \in [VMs -> {"off", "running", "paused"}]
    /\ box \in VM /\ saved \in VM /\ row \in VM
    /\ ref \in Timers \cup {None}
    /\ pausing \in BOOLEAN /\ reconnecting \in BOOLEAN
    /\ proc \in [Procs -> Process]

SandboxInit ==
    /\ vm = [v \in VMs |-> "off"]
    /\ box = None /\ saved = None /\ row = None
    /\ ref = None
    /\ pausing = FALSE /\ reconnecting = FALSE
    /\ proc = [p \in Procs |-> Rest("none")]

Quiet == \A p \in Procs : proc[p].pc \in {"none", "armed"}
MayStart == Serial => Quiet

At(p, pc) == proc[p].pc = pc
Go(p, pc, task, sbx) == proc' = [proc EXCEPT ![p] = [pc |-> pc, task |-> task, sbx |-> sbx]]
Continue(p, pc) == Go(p, pc, proc[p].task, None)
Finish(p) == proc' = [proc EXCEPT ![p] = Rest("none")]
-----------------------------------------------------------------------------
(* What starts *)

\* A tool call: execute, read, write, edit, ls, grep, glob, upload, download.
StartOp(p) ==
    /\ At(p, "none") /\ MayStart
    /\ Go(p, "ensure", "op", None)
    /\ UNCHANGED <<vm, row, backend>>

\* The pause endpoint and pause_all_sandboxes back up first, if they can.
StartPause(task) ==
    /\ At(LoopThread, "none") /\ MayStart
    /\ Go(LoopThread, IF R2 THEN "ensure" ELSE "pause", task, None)
    /\ UNCHANGED <<vm, row, backend>>

\* The resume endpoint calls connect itself.
StartResume ==
    /\ Resumes
    /\ At(LoopThread, "none") /\ MayStart
    /\ Go(LoopThread, "connect", "resume", None)
    /\ UNCHANGED <<vm, row, backend>>

\* The timer's wait ends: cancel has no effect any more.
Fire(t) ==
    /\ At(t, "armed") /\ MayStart
    /\ proc' = [proc EXCEPT ![t] = Rest("fired")]
    /\ UNCHANGED <<vm, row, backend>>
-----------------------------------------------------------------------------
(* _ensure_sandbox, connect, _reset_idle_timer *)

Ensure(p) ==
    /\ At(p, "ensure")
    /\ Continue(p, IF box = None THEN "connect" ELSE "arm")
    /\ UNCHANGED <<vm, row, backend>>

\* Once connect has set _sandbox to v.
Connected(p, v) ==
    CASE proc[p].task = "reconnect" -> Go(p, "ensure", "restore", None)
      [] proc[p].task = "resume" -> Go(p, "persist", "resume", v)
      [] OTHER -> Continue(p, "arm")

Connect(p) ==
    /\ At(p, "connect")
    /\ \/ /\ saved # None /\ vm[saved] # "off"
          /\ vm' = [vm EXCEPT ![saved] = "running"]
          /\ box' = saved
          /\ Connected(p, saved)
          /\ UNCHANGED saved
       \/ /\ saved # None /\ vm[saved] = "off"
          /\ saved' = None
          /\ Continue(p, "create")
          /\ UNCHANGED <<vm, box>>
       \/ /\ saved = None \/ "transient" \in Faults
          /\ Continue(p, "create")
          /\ UNCHANGED <<vm, box, saved>>
    /\ UNCHANGED <<row, ref, pausing, reconnecting>>

\* E2B returns an identifier nothing refers to.
Fresh(v) ==
    /\ vm[v] = "off"
    /\ v \notin {box, saved, row}
    /\ \A p \in Procs : proc[p].sbx # v

Create(p) ==
    /\ At(p, "create")
    /\ \E v \in VMs :
        /\ Fresh(v)
        /\ vm' = [vm EXCEPT ![v] = "running"]
        /\ box' = v
        /\ Connected(p, v)
    /\ UNCHANGED <<saved, row, ref, pausing, reconnecting>>

\* Mutant: without "finally", a failed creation leaves _reconnecting set.
CreateFailsOutside(p) ==
    /\ "create" \in Faults
    /\ At(p, "create")
    /\ CASE proc[p].task = "restore" -> Go(p, "ensure", "op", None)
         [] proc[p].task = "idle" -> Continue(p, "pause")
         [] proc[p].task = "shutdown" -> Continue(p, "down")
         [] OTHER -> Finish(p)
    /\ UNCHANGED <<vm, row, backend>>

\* Sandbox.create raises.  _reconnect_sandbox resets its flag, callbacks are
\* swallowed and the tool retried, a timer goes on to pause, the rest end.
CreateFails(p) ==
    /\ "create" \in Faults
    /\ At(p, "create")
    /\ reconnecting' = (reconnecting /\ proc[p].task \notin {"reconnect", "restore"})
    /\ CASE proc[p].task = "restore" -> Go(p, "ensure", "op", None)
         [] proc[p].task = "idle" -> Continue(p, "pause")
         [] proc[p].task = "shutdown" -> Continue(p, "down")
         [] OTHER -> Finish(p)
    /\ UNCHANGED <<vm, box, saved, row, ref, pausing>>

\* A fresh timer replaces _idle_timer, unless a timer is pausing.
Rearm(p, t) ==
    /\ At(t, "none") /\ t # ref
    /\ ref' = t
    /\ proc' = [q \in Procs |->
                  CASE q = p -> [pc |-> "use", task |-> proc[p].task, sbx |-> box]
                    [] q = t -> Rest("armed")
                    [] q = ref /\ At(ref, "armed") -> Rest("none")
                    [] OTHER -> proc[q]]

\* Mutant: the timer is armed for the first access after a connect only.
ArmOnce(p) ==
    /\ At(p, "arm")
    /\ IF pausing \/ saved # None THEN Go(p, "use", proc[p].task, box) /\ UNCHANGED ref
                                  ELSE \E t \in Timers : Rearm(p, t)
    /\ UNCHANGED <<vm, box, saved, row, pausing, reconnecting>>

Arm(p) ==
    /\ At(p, "arm")
    /\ IF pausing THEN Go(p, "use", proc[p].task, box) /\ UNCHANGED ref
                  ELSE \E t \in Timers : Rearm(p, t)
    /\ UNCHANGED <<vm, box, saved, row, pausing, reconnecting>>
-----------------------------------------------------------------------------
(* The call on the sandbox that _ensure_sandbox returned *)

\* The tool, or the callback, or the backup ends, with or without an error.
Used(p) ==
    /\ At(p, "use")
    /\ reconnecting' = (reconnecting /\ proc[p].task # "restore")
    /\ CASE proc[p].task = "op" -> Finish(p)
         [] proc[p].task = "restore" -> Go(p, "ensure", "op", None)
         [] OTHER -> Continue(p, "pause")
    /\ UNCHANGED <<vm, box, saved, row, ref, pausing>>

\* The error looks like a dead sandbox and nobody is reconnecting.
Reconnect(p) ==
    /\ At(p, "use") /\ proc[p].task \in {"op", "restore"}
    /\ proc[p].sbx # None
    /\ vm[proc[p].sbx] # "running" \/ "gateway" \in Faults
    /\ ~reconnecting
    /\ reconnecting' = TRUE
    /\ box' = None /\ saved' = None
    /\ Go(p, "connect", "reconnect", None)
    /\ UNCHANGED <<vm, row, ref, pausing>>
-----------------------------------------------------------------------------
(* pause and _idle_pause *)

\* The timer's first critical section; with nothing to pause it ends, and
\* its "finally" resets _pausing.
IdlePause(t) ==
    /\ At(t, "fired")
    /\ ref' = None
    /\ pausing' = (pausing \/ box # None)
    /\ IF box = None THEN Go(t, "end", "idle", None)
                      ELSE Go(t, IF R2 THEN "ensure" ELSE "pause", "idle", None)
    /\ UNCHANGED <<vm, box, saved, row, reconnecting>>

\* Mutant: the endpoints persist whatever pause returns.
ReturnedUnchecked(p, v) ==
    IF proc[p].task = "idle" THEN Go(p, "end", "idle", None)
                             ELSE Go(p, "persist", proc[p].task, v)

\* What each caller of pause does once it returns v.
Returned(p, v) ==
    IF proc[p].task = "idle" THEN Go(p, "end", "idle", None)
    ELSE IF v # None THEN Go(p, "persist", proc[p].task, v)
    ELSE IF proc[p].task = "shutdown" THEN Continue(p, "down")
    ELSE Finish(p)

\* Nothing is connected, maybe since another thread has paused it: pause
\* returns the saved identifier.
PauseNothing(p) ==
    /\ At(p, "pause") /\ box = None
    /\ Returned(p, saved)
    /\ UNCHANGED <<vm, row, backend>>

PauseCall(p) ==
    /\ At(p, "pause") /\ box # None
    /\ vm[box] # "off"
    /\ vm' = [vm EXCEPT ![box] = "paused"]
    /\ Go(p, "paused", proc[p].task, box)
    /\ UNCHANGED <<row, backend>>

\* Mutant: pause does not keep the identifier for the next connect.
PauseReturnsOnly(p) ==
    /\ At(p, "paused")
    /\ box' = None
    /\ Returned(p, proc[p].sbx)
    /\ UNCHANGED <<vm, saved, row, ref, pausing, reconnecting>>

PauseReturns(p) ==
    /\ At(p, "paused")
    /\ box' = None
    /\ saved' = proc[p].sbx
    /\ Returned(p, proc[p].sbx)
    /\ UNCHANGED <<vm, row, ref, pausing, reconnecting>>

\* The API call raises; the timer then forgets the sandbox.
PauseFails(p) ==
    /\ At(p, "pause") /\ box # None
    /\ vm[box] = "off" \/ "pause" \in Faults
    /\ IF proc[p].task = "idle" THEN box' = None /\ saved' = None
                                ELSE UNCHANGED <<box, saved>>
    /\ Returned(p, None)
    /\ UNCHANGED <<vm, row, ref, pausing, reconnecting>>

\* Mutant: no "finally" that resets _pausing.
IdleEndOnly(t) ==
    /\ At(t, "end")
    /\ Finish(t)
    /\ UNCHANGED <<vm, row, backend>>

IdleEnd(t) ==
    /\ At(t, "end")
    /\ pausing' = FALSE
    /\ Finish(t)
    /\ UNCHANGED <<vm, box, saved, row, ref, reconnecting>>

\* Mutant: the identifier is not committed.
PersistNothing(p) ==
    /\ At(p, "persist")
    /\ IF proc[p].task = "shutdown" THEN Continue(p, "down") ELSE Finish(p)
    /\ UNCHANGED <<vm, row, backend>>

\* _update_sandbox_id
Persist(p) ==
    /\ At(p, "persist")
    /\ row' = proc[p].sbx
    /\ IF proc[p].task = "shutdown" THEN Continue(p, "down") ELSE Finish(p)
    /\ UNCHANGED <<vm, backend>>
-----------------------------------------------------------------------------
(* The process and E2B *)

\* A new process builds the backend from the agent's row.
SandboxRestart ==
    /\ At(LoopThread, "down") \/ "crash" \in Faults
    /\ box' = None /\ saved' = row
    /\ ref' = None
    /\ pausing' = FALSE /\ reconnecting' = FALSE
    /\ proc' = [p \in Procs |-> Rest("none")]
    /\ UNCHANGED <<vm, row>>

Expire(v) ==
    /\ "expire" \in Faults
    /\ vm[v] = "running"
    /\ vm' = [vm EXCEPT ![v] = "off"]
    /\ UNCHANGED <<row, backend, proc>>

Work(p) ==
    \/ Ensure(p) \/ Connect(p) \/ Create(p) \/ CreateFails(p) \/ Arm(p)
    \/ Used(p) \/ Reconnect(p)
    \/ PauseNothing(p) \/ PauseCall(p) \/ PauseReturns(p) \/ PauseFails(p)
    \/ Persist(p)

SandboxNext ==
    \/ \E p \in SandboxCallers : StartOp(p)
    \/ StartPause("pause") \/ StartPause("shutdown") \/ StartResume
    \/ \E p \in Procs : Work(p)
    \/ \E t \in Timers : Fire(t) \/ IdlePause(t) \/ IdleEnd(t)
    \/ SandboxRestart
    \/ \E v \in VMs : Expire(v)

SandboxSpec == SandboxInit /\ [][SandboxNext]_sandboxVars

\* Threads run, timers fire, and every call of E2B returns: its client and
\* the commands have timeouts.
SandboxFairness ==
    /\ \A p \in Procs : WF_sandboxVars(Work(p))
    /\ \A t \in Timers : WF_sandboxVars(Fire(t)) /\ WF_sandboxVars(IdlePause(t)) /\ WF_sandboxVars(IdleEnd(t))

SandboxFairSpec == SandboxSpec /\ SandboxFairness
-----------------------------------------------------------------------------
(* Properties *)

InPause(t) == proc[t].task = "idle" /\ ~At(t, "none")
InReconnect(p) == proc[p].task \in {"reconnect", "restore"} /\ ~At(p, "none")

\* The two guards never stick, on any path out of the code they guard: a
\* _pausing left TRUE would stop every later timer, a _reconnecting left
\* TRUE every later recovery.
GuardsRelease ==
    /\ pausing => \E t \in Timers : InPause(t)
    /\ reconnecting => \E p \in Procs : InReconnect(p)

\* Where each task can be: a timer has one from its first critical section
\* on, a caller has never a timer's, and a reconnect only connects and runs
\* its callbacks.  With GuardsRelease it is an inductive invariant.
Assigned ==
    /\ \A t \in Timers :
        /\ proc[t].task = IF proc[t].pc \in {"none", "armed", "fired"} THEN "op" ELSE "idle"
        /\ proc[t].pc # "persist"
    /\ \A p \in SandboxCallers : proc[p].task # "idle" /\ proc[p].pc \notin {"armed", "fired", "end"}
    /\ \A p \in Procs :
        /\ proc[p].task = "reconnect" => proc[p].pc \in {"connect", "create"}
        /\ proc[p].task = "restore" => proc[p].pc \in {"ensure", "connect", "create", "arm", "use"}

Pending == ref # None /\ At(ref, "armed")

\* Whenever nobody is using the backend, a running sandbox is the one it
\* holds, with a timer that will pause it.
Metered == Quiet => \A v \in VMs : vm[v] = "running" => v = box /\ Pending

\* Whenever nobody is using the backend, a paused sandbox, which holds the
\* agent's files, is the one the next call will resume.
Resumable == Quiet => \A v \in VMs : vm[v] = "paused" => v = saved /\ box = None

\* A sandbox is created only when the agent has none, so its files go on
\* from call to call, over idle pauses, pauses by the dashboard, shutdowns
\* and restarts.
Continuity ==
    [][\A v \in VMs : vm[v] = "off" /\ vm'[v] = "running"
                       => \A w \in VMs : vm[w] = "off"]_sandboxVars

\* An agent that is left alone ends with no sandbox running, whatever the
\* calls before: the timer fires, backs up and pauses.
ZeroCompute ==
    \/ []<>(\E p \in SandboxCallers : ~At(p, "none"))
    \/ []<>(\A v \in VMs : vm[v] # "running")
-----------------------------------------------------------------------------
(* What docstrings say, and the code does not do *)

\* "_reset_idle_timer: Reset the idle timer.  Called on every sandbox
\* access", and "Idle agents consume zero compute (sandbox pauses ...)": a
\* sandbox that nobody is using has a timer that will pause it.  An access at
\* the end of an idle pause, while _pausing holds, resumes it and arms none;
\* nor does the resume endpoint.
WillPause == Quiet /\ box # None => Pending
=============================================================================
