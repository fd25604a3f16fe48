------------------------ MODULE SandboxBackendProofs ------------------------
(***************************************************************************)
(* Theorems about SandboxBackend for any number of threads, timers and     *)
(* sandboxes: its types, and that neither of the two guards, _pausing and  *)
(* _reconnecting, sticks, with or without backups and whatever may fail;   *)
(* and, for calls that come one at a time, that a sandbox is metered while *)
(* it runs, found again once it is paused, and not created a second time.  *)
(***************************************************************************)
EXTENDS SandboxBackend, TLAPS

\* Disjoint sorts of processes, and what a function over them becomes.
LEMMA Sorts ==
    /\ \A t \in Timers : t \in Procs /\ t \notin SandboxCallers /\ t # None
    /\ \A p \in SandboxCallers : p \in Procs /\ p \notin Timers
    /\ LoopThread \in SandboxCallers
    /\ None \notin Procs
    /\ None \in VM /\ VMs \subseteq VM
BY SandboxAssumption DEF Procs, SandboxCallers, VM

\* Records made by the helpers are records of a thread.
LEMMA RestTyped == ASSUME NEW pc \in Step \ {"paused", "persist"} PROVE Rest(pc) \in Process
<1>1. Rest(pc) \in [pc: Step, task: Task, sbx: VM]
  BY Sorts DEF Rest, Task
<1> QED BY <1>1 DEF Rest, Process

\* The initial values have their types.
LEMMA TypeInit == SandboxInit => SandboxTypeOK
<1>1. Rest("none") \in Process
  BY RestTyped DEF Step
<1> QED BY <1>1, Sorts DEF SandboxInit, SandboxTypeOK

\* Go, Continue and Finish keep the type of proc.
LEMMA GoTyped ==
    ASSUME SandboxTypeOK, NEW p \in Procs, NEW pc \in Step, NEW task \in Task, NEW sbx \in VM
    PROVE  /\ Go(p, pc, task, sbx) /\ (pc \in {"paused", "persist"} => sbx # None)
                => proc' \in [Procs -> Process]
           /\ Continue(p, pc) /\ pc \notin {"paused", "persist"}
                => proc' \in [Procs -> Process]
           /\ Finish(p) => proc' \in [Procs -> Process]
<1>1. proc \in [Procs -> Process] /\ proc[p].task \in Task
  BY DEF SandboxTypeOK, Process
<1>2. pc \notin {"paused", "persist"} \/ sbx # None =>
        [pc |-> pc, task |-> task, sbx |-> sbx] \in Process
  BY DEF Process
<1>3. pc \notin {"paused", "persist"} =>
        [pc |-> pc, task |-> proc[p].task, sbx |-> None] \in Process
  BY <1>1, Sorts DEF Process
<1>4. Rest("none") \in Process
  BY RestTyped DEF Step
<1> QED BY <1>1, <1>2, <1>3, <1>4 DEF Go, Continue, Finish

\* Whatever a thread does at work keeps the types.
LEMMA WorkTyped == ASSUME SandboxTypeOK, NEW p \in Procs, Work(p) PROVE SandboxTypeOK'
<1> USE DEF SandboxTypeOK
<1>1. \A pc \in Step \ {"paused", "persist"} : Continue(p, pc) => proc' \in [Procs -> Process]
  BY GoTyped, Sorts DEF Task
<1>2. Finish(p) => proc' \in [Procs -> Process]
  <2>1. "op" \in Task /\ "none" \in Step /\ None \in VM
    BY Sorts DEF Task, Step
  <2> QED BY <2>1, GoTyped
<1>3. \A pc \in Step, sbx \in VM, task \in Task :
        Go(p, pc, task, sbx) /\ (pc \in {"paused", "persist"} => sbx # None)
          => proc' \in [Procs -> Process]
  BY GoTyped
<1>4. proc[p].task \in Task /\ proc[p].sbx \in VM
  BY DEF Process
<1>5. \A v \in VMs : Connected(p, v) => proc' \in [Procs -> Process]
  <2> SUFFICES ASSUME NEW v \in VMs, Connected(p, v) PROVE proc' \in [Procs -> Process]
    OBVIOUS
  <2>1. v \in VM /\ v # None
    BY Sorts, SandboxAssumption
  <2>2. CASE proc[p].task = "reconnect"
    BY <1>3, <2>2, Sorts DEF Connected, Step, Task
  <2>3. CASE proc[p].task = "resume"
    BY <1>3, <2>1, <2>3 DEF Connected, Step, Task
  <2>4. CASE proc[p].task \notin {"reconnect", "resume"}
    BY <1>1, <2>4 DEF Connected, Step
  <2> QED BY <2>2, <2>3, <2>4
<1>6. \A v \in VM : Returned(p, v) => proc' \in [Procs -> Process]
  BY <1>1, <1>2, <1>3, <1>4, Sorts DEF Returned, Step, Task
<1>7. CASE Ensure(p)
  BY <1>7, <1>1 DEF Ensure, backend, Step
<1>8. CASE Connect(p)
  <2>1. proc' \in [Procs -> Process]
    BY <1>8, <1>1, <1>5 DEF Connect, Step, VM
  <2>2. vm' \in [VMs -> {"off", "running", "paused"}]
    BY <1>8 DEF Connect
  <2> QED BY <1>8, <2>1, <2>2, Sorts DEF Connect
<1>9. CASE Create(p)
  <2>1. proc' \in [Procs -> Process]
    BY <1>9, <1>5, Sorts DEF Create
  <2>2. vm' \in [VMs -> {"off", "running", "paused"}]
    BY <1>9 DEF Create
  <2> QED BY <1>9, <2>1, <2>2, Sorts DEF Create
<1>10. CASE CreateFails(p)
  BY <1>10, <1>1, <1>2, <1>3, Sorts DEF CreateFails, Step, Task
<1>11. CASE Arm(p)
  <2>1. CASE pausing
    BY <1>11, <2>1, <1>3, <1>4 DEF Arm, Step
  <2>2. CASE ~pausing
    <3>1. PICK t \in Timers : Rearm(p, t)
      BY <1>11, <2>2 DEF Arm
    <3>2. [pc |-> "use", task |-> proc[p].task, sbx |-> box] \in Process
      BY <1>4 DEF Process, Step
    <3>3. Rest("armed") \in Process /\ Rest("none") \in Process
      BY RestTyped DEF Step
    <3>4. proc' \in [Procs -> Process]
      BY <3>1, <3>2, <3>3 DEF Rearm
    <3> QED BY <1>11, <3>1, <3>4 DEF Arm, Rearm
  <2> QED BY <2>1, <2>2
<1>12. CASE Used(p)
  BY <1>12, <1>1, <1>2, <1>3, Sorts DEF Used, Step, Task
<1>13. CASE Reconnect(p)
  BY <1>13, <1>3, Sorts DEF Reconnect, Step, Task
<1>14. CASE PauseNothing(p)
  BY <1>14, <1>6 DEF PauseNothing, backend
<1>15. CASE PauseCall(p)
  <2>1. proc' \in [Procs -> Process]
    BY <1>15, <1>3, <1>4 DEF PauseCall, Step
  <2> QED BY <1>15, <2>1 DEF PauseCall, backend
<1>16. CASE PauseReturns(p)
  BY <1>16, <1>4, <1>6, Sorts DEF PauseReturns
<1>17. CASE PauseFails(p)
  BY <1>17, <1>6, Sorts DEF PauseFails
<1>18. CASE Persist(p)
  BY <1>18, <1>1, <1>2, <1>4 DEF Persist, backend, Step
<1> QED
  BY <1>7, <1>8, <1>9, <1>10, <1>11, <1>12, <1>13, <1>14, <1>15, <1>16, <1>17, <1>18
  DEF Work

\* Every step keeps the types.
LEMMA TypeNext == SandboxTypeOK /\ [SandboxNext]_sandboxVars => SandboxTypeOK'
<1> SUFFICES ASSUME SandboxTypeOK, [SandboxNext]_sandboxVars PROVE SandboxTypeOK'
  OBVIOUS
<1> USE DEF SandboxTypeOK
<1>1. ASSUME NEW p \in SandboxCallers, StartOp(p) PROVE SandboxTypeOK'
  BY <1>1, GoTyped, Sorts DEF StartOp, backend, Step, Task
<1>2. ASSUME NEW task \in {"pause", "shutdown"}, StartPause(task) PROVE SandboxTypeOK'
  BY <1>2, GoTyped, Sorts DEF StartPause, backend, Step, Task
<1>3. CASE StartResume
  BY <1>3, GoTyped, Sorts DEF StartResume, backend, Step, Task
<1>4. ASSUME NEW t \in Timers, Fire(t) PROVE SandboxTypeOK'
  BY <1>4, RestTyped DEF Fire, backend, Step
<1>5. ASSUME NEW t \in Timers, IdlePause(t) PROVE SandboxTypeOK'
  BY <1>5, GoTyped, Sorts DEF IdlePause, Step, Task
<1>6. ASSUME NEW t \in Timers, IdleEnd(t) PROVE SandboxTypeOK'
  BY <1>6, GoTyped, Sorts DEF IdleEnd, Step, Task
<1>7. CASE SandboxRestart
  BY <1>7, RestTyped, Sorts DEF SandboxRestart, Step
<1>8. ASSUME NEW v \in VMs, Expire(v) PROVE SandboxTypeOK'
  BY <1>8 DEF Expire, backend
<1>9. CASE UNCHANGED sandboxVars
  BY <1>9 DEF sandboxVars
<1> QED
  BY <1>1, <1>2, <1>3, <1>4, <1>5, <1>6, <1>7, <1>8, <1>9, WorkTyped DEF SandboxNext

\* The variables keep their types.
THEOREM TypeCorrect == SandboxSpec => []SandboxTypeOK
BY TypeInit, TypeNext, PTL DEF SandboxSpec
-----------------------------------------------------------------------------
\* The inductive invariant: the guards, and where each task can be.
GuardsInv == Assigned /\ GuardsRelease

\* What a thread at work does to the others: only Arm touches them, and then
\* only timers that are not at work.
LEMMA OthersKept ==
    ASSUME SandboxTypeOK, NEW p \in Procs, Work(p), NEW q \in Procs, q # p
    PROVE  \/ proc'[q] = proc[q]
           \/ /\ q \in Timers /\ proc[q].pc \in {"none", "armed"}
              /\ proc'[q] \in {Rest("none"), Rest("armed")}
<1> USE DEF SandboxTypeOK
<1>1. CASE Arm(p) /\ ~pausing
  <2>1. PICK t \in Timers : Rearm(p, t)
    BY <1>1 DEF Arm
  <2>2. CASE q = t
    BY <2>1, <2>2 DEF Rearm, At
  <2>3. CASE q # t /\ q = ref /\ proc[q].pc = "armed"
    BY <2>1, <2>3, Sorts DEF Rearm, At
  <2>4. CASE q # t /\ ~(q = ref /\ proc[q].pc = "armed")
    BY <2>1, <2>4 DEF Rearm, At
  <2> QED BY <2>2, <2>3, <2>4
<1>2. CASE Arm(p) /\ pausing
  BY <1>2 DEF Arm, Go
<1>3. CASE Ensure(p) \/ Persist(p)
  BY <1>3 DEF Ensure, Persist, Continue, Go, Finish
<1>4. CASE Connect(p) \/ Create(p) \/ CreateFails(p)
  BY <1>4 DEF Connect, Create, CreateFails, Connected, Continue, Go, Finish
<1>5. CASE Used(p) \/ Reconnect(p)
  BY <1>5 DEF Used, Reconnect, Continue, Go, Finish
<1>6. CASE PauseNothing(p) \/ PauseCall(p) \/ PauseReturns(p) \/ PauseFails(p)
  BY <1>6 DEF PauseNothing, PauseCall, PauseReturns, PauseFails, Returned, Continue, Go, Finish
<1> QED BY <1>1, <1>2, <1>3, <1>4, <1>5, <1>6 DEF Work

\* A timer's thread at work stays in its pause; a caller's is never in one.
LEMMA OwnTask ==
    ASSUME SandboxTypeOK, Assigned, NEW p \in Procs, Work(p)
    PROVE  /\ p \in Timers => /\ proc[p].task = "idle" /\ proc'[p].task = "idle"
                              /\ proc'[p].pc \notin {"none", "armed", "fired", "persist"}
           /\ p \in SandboxCallers => /\ proc'[p].task # "idle"
                               /\ proc'[p].pc \notin {"armed", "fired", "end"}
<1> USE DEF SandboxTypeOK
<1>1. proc[p].pc \in {"ensure", "connect", "create", "arm", "use", "pause", "paused", "persist"}
  BY DEF Work, At, Ensure, Connect, Create, CreateFails, Arm, Used, Reconnect, PauseNothing,
     PauseCall, PauseReturns, PauseFails, Persist
<1>2. /\ p \in Timers => proc[p].task = "idle"
      /\ p \in SandboxCallers => proc[p].task # "idle"
  BY <1>1 DEF Assigned
<1>3. CASE Ensure(p) \/ Connect(p) \/ Create(p) \/ CreateFails(p)
  BY <1>2, <1>3, Sorts DEF Ensure, Connect, Create, CreateFails, Connected, Continue, Go,
     Finish, Rest
<1>4. CASE Arm(p)
  <2>1. proc'[p].pc = "use" /\ proc'[p].task = proc[p].task
    BY <1>4 DEF Arm, Rearm, Go, At
  <2> QED BY <1>2, <2>1, Sorts
<1>5. CASE Used(p) \/ Reconnect(p)
  BY <1>2, <1>5, Sorts DEF Used, Reconnect, Continue, Go, Finish, Rest
<1>6. ASSUME NEW v, Returned(p, v)
      PROVE  /\ p \in Timers => proc'[p].pc = "end" /\ proc'[p].task = "idle"
             /\ p \in SandboxCallers => /\ proc'[p].task # "idle"
                                 /\ proc'[p].pc \notin {"armed", "fired", "end"}
  BY <1>2, <1>6, Sorts DEF Returned, Continue, Go, Finish, Rest
<1>8. CASE PauseNothing(p) \/ PauseReturns(p) \/ PauseFails(p)
  BY <1>2, <1>6, <1>8, Sorts DEF PauseNothing, PauseReturns, PauseFails
<1>9. CASE PauseCall(p)
  BY <1>2, <1>9, Sorts DEF PauseCall, Go
<1>7. CASE Persist(p)
  <2>1. p \notin Timers
    BY <1>7 DEF Persist, At, Assigned
  <2> QED BY <1>2, <1>7, <2>1, Sorts DEF Persist, Continue, Go, Finish, Rest
<1> QED BY <1>3, <1>4, <1>5, <1>7, <1>8, <1>9 DEF Work

\* A reconnect leaves its callbacks by a return to the tool only.
LEMMA OwnReconnect ==
    ASSUME SandboxTypeOK, Assigned, NEW p \in Procs, Work(p)
    PROVE  /\ proc'[p].task = "reconnect" => proc'[p].pc \in {"connect", "create"}
           /\ proc'[p].task = "restore" =>
                proc'[p].pc \in {"ensure", "connect", "create", "arm", "use"}
           /\ proc[p].task \in {"reconnect", "restore"} /\ reconnecting'
                => proc'[p].task \in {"reconnect", "restore"}
<1> USE DEF SandboxTypeOK
<1>1. /\ proc[p].task = "reconnect" => proc[p].pc \in {"connect", "create"}
      /\ proc[p].task = "restore" =>
           proc[p].pc \in {"ensure", "connect", "create", "arm", "use"}
  BY DEF Assigned
<1>2. ASSUME NEW v, Connected(p, v), proc[p].pc \in {"connect", "create"}
      PROVE  /\ proc'[p].task = "restore" => proc'[p].pc \in {"ensure", "arm"}
             /\ proc'[p].task # "reconnect"
             /\ proc[p].task \in {"reconnect", "restore"} => proc'[p].task = "restore"
  <2>1. CASE proc[p].task = "reconnect"
    BY <1>2, <2>1 DEF Connected, Go
  <2>2. CASE proc[p].task = "resume"
    BY <1>2, <2>2 DEF Connected, Go
  <2>3. CASE proc[p].task \notin {"reconnect", "resume"}
    BY <1>2, <2>3 DEF Connected, Continue, Go
  <2> QED BY <2>1, <2>2, <2>3
<1>3. CASE Connect(p)
  <2>1. CASE \E v : Connected(p, v)
    BY <1>2, <1>3, <2>1 DEF Connect, At
  <2>2. CASE Continue(p, "create")
    BY <1>1, <1>3, <2>2 DEF Connect, Continue, Go
  <2> QED BY <1>3, <2>1, <2>2 DEF Connect
<1>4. CASE Create(p)
  BY <1>2, <1>4 DEF Create, At
<1>5. CASE CreateFails(p)
  <2>1. proc[p].task \in {"reconnect", "restore"} => ~reconnecting'
    BY <1>5 DEF CreateFails
  <2>2. proc'[p].task \notin {"reconnect", "restore"}
    <3>1. CASE proc[p].task \in {"idle", "shutdown"}
      BY <1>5, <3>1 DEF CreateFails, Continue, Go
    <3>2. CASE proc[p].task = "restore"
      BY <1>5, <3>2 DEF CreateFails, Go
    <3>3. CASE proc[p].task \notin {"idle", "shutdown", "restore"}
      BY <1>5, <3>3 DEF CreateFails, Finish, Rest
    <3> QED BY <3>1, <3>2, <3>3
  <2> QED BY <2>1, <2>2
<1>6. CASE Ensure(p)
  BY <1>1, <1>6 DEF Ensure, Continue, Go, At
<1>7. CASE Arm(p)
  <2>1. proc'[p].pc = "use" /\ proc'[p].task = proc[p].task
    BY <1>7 DEF Arm, Rearm, Go, At
  <2> QED BY <1>1, <1>7, <2>1 DEF Arm, At
<1>8. CASE Used(p)
  <2>1. proc[p].task = "restore" => ~reconnecting'
    BY <1>8 DEF Used
  <2>2. proc[p].task # "reconnect"
    BY <1>1, <1>8 DEF Used, At
  <2>3. proc'[p].task \notin {"reconnect", "restore"}
    <3>1. CASE proc[p].task = "op"
      BY <1>8, <3>1 DEF Used, Finish, Rest
    <3>2. CASE proc[p].task = "restore"
      BY <1>8, <3>2 DEF Used, Go
    <3>3. CASE proc[p].task \notin {"op", "restore"}
      BY <1>8, <2>2, <3>3 DEF Used, Continue, Go
    <3> QED BY <3>1, <3>2, <3>3
  <2> QED BY <2>1, <2>2, <2>3
<1>12. CASE Reconnect(p)
  BY <1>12 DEF Reconnect, Go
<1>9. ASSUME NEW v, Returned(p, v), proc[p].pc \in {"pause", "paused"}
      PROVE  proc[p].task \notin {"reconnect", "restore"}
             /\ proc'[p].task \notin {"reconnect", "restore"}
  BY <1>1, <1>9 DEF Returned, Continue, Go, Finish, Rest
<1>10. CASE PauseNothing(p) \/ PauseReturns(p) \/ PauseFails(p)
  BY <1>9, <1>10 DEF PauseNothing, PauseReturns, PauseFails, At
<1>11. CASE PauseCall(p) \/ Persist(p)
  BY <1>1, <1>11 DEF PauseCall, Persist, Continue, Go, Finish, Rest, At
<1> QED BY <1>3, <1>4, <1>5, <1>6, <1>7, <1>8, <1>10, <1>11, <1>12 DEF Work

\* A process between calls does not look like one in its pause, and one that
\* is at work keeps the tasks apart.
LEMMA WorkAssigned ==
    ASSUME SandboxTypeOK, Assigned, NEW p \in Procs, Work(p) PROVE Assigned'
<1>1. ASSUME NEW t \in Timers
      PROVE  /\ proc'[t].task = IF proc'[t].pc \in {"none", "armed", "fired"}
                                THEN "op" ELSE "idle"
             /\ proc'[t].pc # "persist"
  <2>1. CASE t = p
    BY <2>1, OwnTask
  <2>2. CASE t # p
    BY <1>1, <2>2, OthersKept, Sorts DEF Assigned, Rest
  <2> QED BY <2>1, <2>2
<1>2. ASSUME NEW q \in SandboxCallers
      PROVE  proc'[q].task # "idle" /\ proc'[q].pc \notin {"armed", "fired", "end"}
  <2>1. CASE q = p
    BY <1>2, <2>1, OwnTask
  <2>2. CASE q # p
    BY <1>2, <2>2, OthersKept, Sorts DEF Assigned
  <2> QED BY <2>1, <2>2
<1>3. ASSUME NEW q \in Procs
      PROVE  /\ proc'[q].task = "reconnect" => proc'[q].pc \in {"connect", "create"}
             /\ proc'[q].task = "restore" =>
                  proc'[q].pc \in {"ensure", "connect", "create", "arm", "use"}
  <2>1. CASE q = p
    BY <2>1, OwnReconnect
  <2>2. CASE q # p
    BY <1>3, <2>2, OthersKept DEF Assigned, Rest
  <2> QED BY <2>1, <2>2
<1> QED BY <1>1, <1>2, <1>3 DEF Assigned

\* Work leaves _pausing alone, and the timer that set it in its pause.
LEMMA WorkPausing ==
    ASSUME SandboxTypeOK, GuardsInv, NEW p \in Procs, Work(p)
    PROVE  pausing' => \E t \in Timers : InPause(t)'
<1> SUFFICES ASSUME pausing' PROVE \E t \in Timers : InPause(t)'
  OBVIOUS
<1>1. pausing
  BY DEF Work, backend, Ensure, Connect, Create, CreateFails, Arm, Used, Reconnect,
     PauseNothing, PauseCall, PauseReturns, PauseFails, Persist
<1>2. PICK t \in Timers : InPause(t)
  BY <1>1 DEF GuardsInv, GuardsRelease
<1>3. CASE t = p
  BY <1>3, OwnTask DEF GuardsInv, InPause, At
<1>4. CASE t # p
  <2>1. proc[t].pc \notin {"none", "armed"}
    BY <1>2 DEF GuardsInv, Assigned, InPause, At
  <2>2. proc'[t] = proc[t]
    BY <1>4, <2>1, OthersKept, Sorts
  <2> QED BY <1>2, <2>2 DEF InPause, At
<1> QED BY <1>3, <1>4

\* A thread whose work ends a reconnect resets the flag, on every path.
LEMMA WorkReconnecting ==
    ASSUME SandboxTypeOK, GuardsInv, NEW p \in Procs, Work(p)
    PROVE  reconnecting' => \E q \in Procs : InReconnect(q)'
<1> SUFFICES ASSUME reconnecting' PROVE \E q \in Procs : InReconnect(q)'
  OBVIOUS
<1> USE DEF SandboxTypeOK
<1>1. CASE Reconnect(p)
  <2>1. proc'[p].pc = "connect" /\ proc'[p].task = "reconnect"
    BY <1>1 DEF Reconnect, Go
  <2> QED BY <2>1 DEF InReconnect, At
<1>2. CASE ~Reconnect(p)
  <2>1. reconnecting
    BY <1>2 DEF Work, backend, Ensure, Connect, Create, CreateFails, Arm, Used,
       PauseNothing, PauseCall, PauseReturns, PauseFails, Persist
  <2>2. PICK q \in Procs : InReconnect(q)
    BY <2>1 DEF GuardsInv, GuardsRelease
  <2>3. CASE q # p
    <3>1. q \in Timers => proc[q].pc \notin {"none", "armed"}
      BY <2>2 DEF GuardsInv, Assigned, InReconnect, At
    <3>2. proc'[q] = proc[q]
      BY <2>3, <3>1, OthersKept
    <3> QED BY <2>2, <3>2 DEF InReconnect, At
  <2>4. CASE q = p
    <3>1. proc'[p].task \in {"reconnect", "restore"}
      BY <2>2, <2>4, OwnReconnect DEF InReconnect, GuardsInv
    <3>2. proc'[p].pc # "none"
      BY <3>1, OwnReconnect DEF GuardsInv
    <3> QED BY <3>1, <3>2 DEF InReconnect, At
  <2> QED BY <2>3, <2>4
<1> QED BY <1>1, <1>2

\* Every step keeps the guards tied to the threads that set them.
LEMMA GuardsNext == SandboxTypeOK /\ GuardsInv /\ [SandboxNext]_sandboxVars => GuardsInv'
<1> SUFFICES ASSUME SandboxTypeOK, GuardsInv, [SandboxNext]_sandboxVars PROVE GuardsInv'
  OBVIOUS
<1> USE DEF SandboxTypeOK, GuardsInv
<1>1. ASSUME NEW p \in Procs, Work(p) PROVE GuardsInv'
  BY <1>1, WorkAssigned, WorkPausing, WorkReconnecting DEF GuardsRelease
<1>2. ASSUME NEW p \in SandboxCallers, NEW pc \in {"ensure", "pause", "connect"},
             NEW task \in {"op", "pause", "shutdown", "resume"},
             At(p, "none"), Go(p, pc, task, None), UNCHANGED <<pausing, reconnecting>>
      PROVE  GuardsInv'
  <2>1. /\ p \in Procs /\ p \notin Timers
        /\ proc'[p] = [pc |-> pc, task |-> task, sbx |-> None]
        /\ \A q \in Procs : q # p => proc'[q] = proc[q]
    BY <1>2, Sorts DEF Go
  <2>2. Assigned'
    BY <1>2, <2>1, Sorts DEF Assigned
  <2>3. \A q \in Procs : InReconnect(q) => InReconnect(q)'
    BY <1>2, <2>1 DEF InReconnect, At
  <2>4. \A t \in Timers : InPause(t) => InPause(t)'
    BY <2>1, Sorts DEF InPause, At
  <2> QED BY <1>2, <2>2, <2>3, <2>4 DEF GuardsRelease
<1>3. ASSUME NEW p \in SandboxCallers, StartOp(p) PROVE GuardsInv'
  BY <1>2, <1>3 DEF StartOp, backend
<1>4. ASSUME NEW task \in {"pause", "shutdown"}, StartPause(task) PROVE GuardsInv'
  BY <1>2, <1>4, Sorts DEF StartPause, backend
<1>5. CASE StartResume
  BY <1>2, <1>5, Sorts DEF StartResume, backend
<1>6. ASSUME NEW t \in Timers, NEW r, r \in {Rest("fired"), Rest("none")}
                                          \cup [pc: {"ensure", "pause", "end"},
                                                task: {"idle"}, sbx: {None}],
             proc' = [proc EXCEPT ![t] = r]
      PROVE  /\ Assigned'
             /\ \A q \in Procs : InReconnect(q) => InReconnect(q)'
             /\ \A u \in Timers : u # t /\ InPause(u) => InPause(u)'
  <2>1. /\ t \in Procs /\ t \notin SandboxCallers
        /\ proc'[t] = r
        /\ \A q \in Procs : q # t => proc'[q] = proc[q]
    BY <1>6, Sorts
  <2>2. Assigned'
    BY <1>6, <2>1, Sorts DEF Assigned, Rest
  <2>3. proc[t].task \in {"op", "idle"}
    BY DEF Assigned
  <2> QED BY <2>1, <2>2, <2>3, Sorts DEF InReconnect, InPause, At
<1>7. ASSUME NEW t \in Timers, Fire(t) PROVE GuardsInv'
  <2>1. ~InPause(t)
    BY <1>7 DEF Fire, InPause, At, Assigned
  <2> QED BY <1>6, <1>7, <2>1 DEF Fire, backend, GuardsRelease
<1>8. ASSUME NEW t \in Timers, IdlePause(t) PROVE GuardsInv'
  <2>1. PICK pc \in {"ensure", "pause", "end"} : Go(t, pc, "idle", None)
    BY <1>8 DEF IdlePause
  <2>2. InPause(t)'
    BY <2>1, Sorts DEF InPause, Go, At
  <2> QED BY <1>6, <1>8, <2>1, <2>2 DEF IdlePause, Go, GuardsRelease
<1>9. ASSUME NEW t \in Timers, IdleEnd(t) PROVE GuardsInv'
  BY <1>6, <1>9 DEF IdleEnd, Finish, GuardsRelease
<1>10. CASE SandboxRestart
  BY <1>10, Sorts DEF SandboxRestart, Assigned, GuardsRelease, Rest
<1>11. ASSUME NEW v \in VMs, Expire(v) PROVE GuardsInv'
  BY <1>11 DEF Expire, backend, Assigned, GuardsRelease, InPause, InReconnect, At
<1>12. CASE UNCHANGED sandboxVars
  BY <1>12 DEF sandboxVars, Assigned, GuardsRelease, InPause, InReconnect, At
<1> QED
  BY <1>1, <1>3, <1>4, <1>5, <1>7, <1>8, <1>9, <1>10, <1>11, <1>12 DEF SandboxNext

\* _pausing and _reconnecting never stick: whenever one is set, a thread is
\* in the code that resets it.
THEOREM GuardsNeverStick == SandboxSpec => []GuardsRelease
<1>1. SandboxInit => GuardsInv
  BY Sorts DEF SandboxInit, GuardsInv, Assigned, GuardsRelease, Rest
<1> QED BY <1>1, TypeInit, TypeNext, GuardsNext, PTL DEF SandboxSpec, GuardsInv
-----------------------------------------------------------------------------
(* One call at a time: what the sandbox is, and where its one user is.      *)

\* The setting of these theorems: nothing starts before all else has ended,
\* sandboxes may expire and fail to be created, and nothing else goes wrong.
OneAtATime == Serial /\ ~Resumes /\ Faults \subseteq {"expire", "create"}

Busy(p) == proc[p].pc \notin {"none", "armed"}
Alone == \A p, q \in Procs : Busy(p) /\ Busy(q) => p = q

\* There is one sandbox at most: the one held, or the one kept for later.
OneSandbox ==
    \A v \in VMs :
        /\ vm[v] = "running" => v = box
        /\ vm[v] = "paused" =>
            IF box = None THEN v = saved ELSE v = box /\ \E p \in Procs : At(p, "paused")

\* The timer waits, or whoever is at work arms it, or pauses the sandbox.
Tends(p) ==
    \/ proc[p].pc \in {"ensure", "arm"} /\ proc[p].task # "idle"
    \/ proc[p].pc = "fired"
    \/ proc[p].pc # "none" /\ proc[p].task = "idle"
Tended == box # None => Pending \/ \E p \in Procs : Tends(p)

\* What holds where each thread is.
Place(p) ==
    /\ proc[p].task # "resume"
    /\ proc[p].pc \in {"connect", "create", "end", "persist"} => box = None
    /\ proc[p].pc = "create" => saved = None
    /\ proc[p].pc \in {"arm", "use", "paused"} => box # None
    /\ proc[p].pc \in {"use", "paused"} => proc[p].sbx = box
    /\ proc[p].pc = "paused" => vm[box] = "paused"
    /\ proc[p].pc = "persist" => proc[p].sbx = saved
    /\ proc[p].pc = "down" => \A v \in VMs : vm[v] # "off" => v = row /\ vm[v] = "paused"
    /\ proc[p].task = "idle" /\ proc[p].pc # "end" => pausing /\ box # None

SerialInv == Alone /\ OneSandbox /\ Tended /\ \A p \in Procs : Place(p)

\* A thread at work is alone, the sandbox is as it left it, and whoever else
\* would arm or pause it is not at work.
LEMMA Situation ==
    ASSUME SandboxTypeOK, GuardsInv, SerialInv, NEW p \in Procs, Busy(p)
    PROVE  /\ \A q \in Procs : q # p => ~Busy(q)
           /\ proc[p].pc # "paused" => \A v \in VMs : vm[v] = "paused" => box = None /\ v = saved
           /\ \A v \in VMs : vm[v] # "off" => vm[v] \in {"running", "paused"}
           /\ \A v \in VMs : box = None /\ vm[v] # "off" => v = saved /\ vm[v] = "paused"
           /\ proc[p].task # "idle" => ~pausing
           /\ box # None => Pending \/ Tends(p)
<1>1. \A q \in Procs : q # p => ~Busy(q)
  BY DEF SerialInv, Alone
<1>2. \A q \in Procs : q # p => ~At(q, "paused")
  BY <1>1 DEF Busy, At
<1>3. proc[p].pc # "paused" => \A v \in VMs : vm[v] = "paused" => box = None /\ v = saved
  BY <1>2 DEF SerialInv, OneSandbox, At
<1>4. \A v \in VMs : vm[v] # "off" => vm[v] \in {"running", "paused"}
  BY DEF SandboxTypeOK
<1>5. \A v \in VMs : box = None /\ vm[v] # "off" => v = saved /\ vm[v] = "paused"
  BY <1>4, SandboxAssumption DEF SerialInv, OneSandbox
<1>6. proc[p].task # "idle" => ~pausing
  <2> SUFFICES ASSUME pausing PROVE proc[p].task = "idle"
    OBVIOUS
  <2>1. PICK t \in Timers : InPause(t)
    BY DEF GuardsInv, GuardsRelease
  <2>2. proc[t].pc \notin {"none", "armed", "fired"} /\ proc[t].task = "idle"
    BY <2>1 DEF InPause, At, GuardsInv, Assigned
  <2> QED BY <1>1, <2>2, Sorts DEF Busy
<1>7. \A q \in Procs : Tends(q) => Busy(q)
  <2> SUFFICES ASSUME NEW q \in Procs, Tends(q), proc[q].task = "idle", proc[q].pc # "none"
               PROVE  Busy(q)
    BY DEF Tends, Busy
  <2>1. q \in Timers \/ q \in SandboxCallers
    BY DEF Procs
  <2> QED BY <2>1 DEF GuardsInv, Assigned, Busy
<1>8. box # None => Pending \/ Tends(p)
  BY <1>1, <1>7 DEF SerialInv, Tended
<1> QED BY <1>1, <1>3, <1>4, <1>5, <1>6, <1>8

\* When p's step leaves the others at rest, what remains is p's own place.
LEMMA OthersPlaced ==
    ASSUME SandboxTypeOK, GuardsInv, SerialInv, GuardsInv', NEW p \in Procs,
           \A q \in Procs : q # p => ~Busy(q)' /\ proc'[q].task # "resume",
           OneSandbox', Tended', Place(p)'
    PROVE  SerialInv'
<1>1. Alone'
  BY DEF Alone
<1>2. ASSUME NEW q \in Procs, q # p PROVE Place(q)'
  <2>1. proc'[q].pc \in {"none", "armed"} /\ proc'[q].task # "resume"
    BY <1>2 DEF Busy
  <2>2. proc'[q].task # "idle"
    BY <1>2, <2>1 DEF GuardsInv, Assigned, Procs
  <2> QED BY <2>1, <2>2 DEF Place
<1> QED BY <1>1, <1>2 DEF SerialInv

\* A timer that waits goes on waiting while another thread works.
LEMMA WaitsOn ==
    ASSUME SandboxTypeOK, NEW p \in Procs, Busy(p), NEW r, proc' = [proc EXCEPT ![p] = r], UNCHANGED ref,
           Pending
    PROVE  Pending'
<1>1. ref \in Procs /\ ref # p
  BY Sorts DEF Pending, At, Busy, SandboxTypeOK
<1> QED BY <1>1 DEF Pending, At, SandboxTypeOK

LEMMA GoesTo ==
    ASSUME SandboxTypeOK, NEW p \in Procs
    PROVE  /\ \A pc, task, sbx : Go(p, pc, task, sbx) =>
                proc'[p].pc = pc /\ proc'[p].task = task /\ proc'[p].sbx = sbx
           /\ \A pc : Continue(p, pc) =>
                proc'[p].pc = pc /\ proc'[p].task = proc[p].task /\ proc'[p].sbx = None
           /\ Finish(p) =>
                proc'[p].pc = "none" /\ proc'[p].task = "op" /\ proc'[p].sbx = None
BY DEF SandboxTypeOK, Go, Continue, Finish, Rest

LEMMA EnsureSerial ==
    ASSUME SandboxTypeOK, GuardsInv, SerialInv, NEW p \in Procs, Ensure(p)
    PROVE  OneSandbox' /\ Tended' /\ Place(p)'
<1>1. Busy(p) /\ proc[p].pc = "ensure"
  BY DEF Ensure, At, Busy
<1>2. /\ proc'[p].pc = IF box = None THEN "connect" ELSE "arm"
      /\ proc'[p].task = proc[p].task
  BY GoesTo DEF Ensure
<1>3. UNCHANGED <<vm, box, saved, row, ref, pausing>>
  BY DEF Ensure, backend
<1>4. OneSandbox'
  BY <1>1, <1>3, Situation DEF OneSandbox, SerialInv
<1>5. Tended'
  BY <1>2, <1>3 DEF Tended, Tends
<1>6. Place(p)'
  BY <1>1, <1>2, <1>3 DEF Place, SerialInv
<1> QED BY <1>4, <1>5, <1>6

LEMMA ConnectedTo ==
    ASSUME SandboxTypeOK, SerialInv, NEW p \in Procs, NEW v \in VMs, Connected(p, v),
           proc[p].pc \in {"connect", "create"}, box' = v, UNCHANGED pausing
    PROVE  Tended' /\ Place(p)'
<1>1. proc[p].task \notin {"idle", "resume"} /\ v # None
  BY SandboxAssumption DEF SerialInv, Place
<1>2. /\ proc'[p].pc \in {"ensure", "arm"}
      /\ proc'[p].task \in {"restore", proc[p].task}
  BY <1>1, GoesTo DEF Connected
<1> QED BY <1>1, <1>2 DEF Tended, Tends, Place

LEMMA ConnectSerial ==
    ASSUME OneAtATime, SandboxTypeOK, GuardsInv, SerialInv, NEW p \in Procs, Connect(p)
    PROVE  OneSandbox' /\ Tended' /\ Place(p)'
<1>1. Busy(p) /\ proc[p].pc = "connect" /\ box = None /\ proc[p].task \notin {"idle", "resume"}
  BY DEF Connect, At, Busy, SerialInv, Place
<1>2. CASE saved # None /\ vm[saved] # "off" /\ vm' = [vm EXCEPT ![saved] = "running"]
           /\ box' = saved /\ Connected(p, saved) /\ UNCHANGED saved
  <2>1. saved \in VMs
    BY <1>2 DEF SandboxTypeOK, VM
  <2>2. \A v \in VMs : vm'[v] = IF v = saved THEN "running" ELSE vm[v]
    BY <1>2, <2>1 DEF SandboxTypeOK
  <2>3. OneSandbox'
    BY <1>1, <1>2, <2>1, <2>2, Situation DEF OneSandbox
  <2> QED BY <1>1, <1>2, <2>1, <2>3, ConnectedTo DEF Connect
<1>3. CASE Continue(p, "create") /\ UNCHANGED <<vm, box>>
           /\ (saved = None \/ vm[saved] = "off") /\ saved' = None
  <2>1. \A v \in VMs : vm[v] = "off"
    BY <1>1, <1>3, Situation, SandboxAssumption
  <2>2. OneSandbox' /\ Tended'
    BY <1>1, <1>3, <2>1 DEF OneSandbox, Tended
  <2>3. Place(p)'
    BY <1>1, <1>3, GoesTo DEF Place
  <2> QED BY <2>2, <2>3
<1> QED BY <1>2, <1>3 DEF Connect, OneAtATime

LEMMA CreateSerial ==
    ASSUME SandboxTypeOK, GuardsInv, SerialInv, NEW p \in Procs, Create(p)
    PROVE  /\ OneSandbox' /\ Tended' /\ Place(p)'
           /\ \A v \in VMs : vm[v] = "off"
<1>1. Busy(p) /\ proc[p].pc = "create" /\ box = None /\ saved = None
  BY DEF Create, At, Busy, SerialInv, Place
<1>2. PICK v \in VMs : vm' = [vm EXCEPT ![v] = "running"] /\ box' = v /\ Connected(p, v)
  BY DEF Create
<1>3. \A w \in VMs : vm[w] = "off"
  BY <1>1, Situation, SandboxAssumption
<1>4. \A w \in VMs : vm'[w] = IF w = v THEN "running" ELSE "off"
  BY <1>2, <1>3 DEF SandboxTypeOK
<1>5. OneSandbox'
  BY <1>2, <1>4 DEF OneSandbox
<1> QED BY <1>1, <1>2, <1>3, <1>5, ConnectedTo DEF Create

LEMMA CreateFailsSerial ==
    ASSUME SandboxTypeOK, GuardsInv, SerialInv, NEW p \in Procs, CreateFails(p)
    PROVE  OneSandbox' /\ Tended' /\ Place(p)'
<1>1. Busy(p) /\ proc[p].pc = "create" /\ box = None /\ saved = None
      /\ proc[p].task \notin {"idle", "resume"}
  BY DEF CreateFails, At, Busy, SerialInv, Place
<1>2. UNCHANGED <<vm, box, saved>>
  BY DEF CreateFails
<1>3. \A v \in VMs : vm[v] = "off"
  BY <1>1, Situation, SandboxAssumption
<1>4. proc'[p].pc \in {"none", "ensure", "down"} /\ proc'[p].task \notin {"idle", "resume"}
  BY <1>1, GoesTo DEF CreateFails
<1>5. OneSandbox' /\ Tended'
  BY <1>1, <1>2, <1>3 DEF OneSandbox, Tended
<1>6. Place(p)'
  BY <1>2, <1>3, <1>4 DEF Place
<1> QED BY <1>5, <1>6

LEMMA ArmSerial ==
    ASSUME SandboxTypeOK, GuardsInv, SerialInv, NEW p \in Procs, Arm(p)
    PROVE  OneSandbox' /\ Tended' /\ Place(p)'
<1>1. Busy(p) /\ proc[p].pc = "arm" /\ box # None /\ proc[p].task # "resume"
  BY DEF Arm, At, Busy, SerialInv, Place
<1>2. UNCHANGED <<vm, box, saved, row, pausing>>
  BY DEF Arm
<1>3. OneSandbox'
  BY <1>1, <1>2, Situation DEF OneSandbox, SerialInv
<1>4. proc'[p].pc = "use" /\ proc'[p].task = proc[p].task /\ proc'[p].sbx = box
  <2>1. CASE pausing
    BY <2>1, GoesTo DEF Arm
  <2>2. CASE ~pausing
    <3>1. PICK t \in Timers : Rearm(p, t)
      BY <2>2 DEF Arm
    <3>2. proc'[p] = [pc |-> "use", task |-> proc[p].task, sbx |-> box]
      BY <1>1, <3>1 DEF Rearm, At
    <3> QED BY <3>2
  <2> QED BY <2>1, <2>2
<1>5. Place(p)'
  BY <1>1, <1>2, <1>4 DEF Place, SerialInv
<1>6. CASE pausing
  <2>1. proc[p].task = "idle"
    BY <1>1, <1>6, Situation
  <2> QED BY <1>3, <1>4, <1>5, <2>1 DEF Tended, Tends
<1>7. CASE ~pausing
  <2>1. PICK t \in Timers : Rearm(p, t)
    BY <1>7 DEF Arm
  <2>2. t # p
    BY <1>1, <2>1 DEF Rearm, At
  <2>3. ref' = t /\ proc'[t].pc = "armed"
    BY <2>1, <2>2, Sorts DEF Rearm, Rest
  <2>4. Pending'
    BY <2>3, Sorts DEF Pending, At
  <2> QED BY <1>3, <1>5, <2>4 DEF Tended
<1> QED BY <1>6, <1>7

LEMMA UsedSerial ==
    ASSUME SandboxTypeOK, GuardsInv, SerialInv, NEW p \in Procs, Used(p)
    PROVE  OneSandbox' /\ Tended' /\ Place(p)'
<1>1. Busy(p) /\ proc[p].pc = "use" /\ box # None /\ proc[p].task # "resume"
  BY DEF Used, At, Busy, SerialInv, Place
<1>2. UNCHANGED <<vm, box, saved, row, ref, pausing>>
  BY DEF Used
<1>3. OneSandbox'
  BY <1>1, <1>2, Situation DEF OneSandbox, SerialInv
<1>4. /\ proc'[p].pc \in {"none", "ensure", "pause"}
      /\ proc[p].task = "idle" => proc'[p].pc = "pause" /\ proc'[p].task = "idle"
      /\ proc[p].task # "idle" => proc'[p].task \notin {"idle", "resume"}
  BY <1>1, GoesTo DEF Used
<1>5. Place(p)'
  BY <1>1, <1>2, <1>4 DEF Place, SerialInv
<1>6. CASE proc[p].task = "idle"
  BY <1>3, <1>4, <1>5, <1>6 DEF Tended, Tends
<1>7. CASE proc[p].task # "idle"
  <2>1. Pending
    BY <1>1, <1>7, Situation DEF Tends
  <2>2. Pending'
    BY <1>1, <1>2, <2>1, WaitsOn DEF Used, Finish, Go, Continue
  <2> QED BY <1>3, <1>5, <2>2 DEF Tended
<1> QED BY <1>6, <1>7

LEMMA ReconnectSerial ==
    ASSUME OneAtATime, SandboxTypeOK, GuardsInv, SerialInv, NEW p \in Procs, Reconnect(p)
    PROVE  OneSandbox' /\ Tended' /\ Place(p)'
<1>1. Busy(p) /\ proc[p].pc = "use" /\ proc[p].sbx = box /\ box # None
  BY DEF Reconnect, At, Busy, SerialInv, Place
<1>2. vm[box] # "running" /\ box \in VMs
  BY <1>1 DEF Reconnect, OneAtATime, SandboxTypeOK, VM
<1>3. \A v \in VMs : vm[v] = "off"
  BY <1>1, <1>2, Situation DEF SerialInv, OneSandbox
<1>4. OneSandbox' /\ Tended'
  BY <1>3 DEF Reconnect, OneSandbox, Tended
<1>5. Place(p)'
  BY GoesTo DEF Reconnect, Place
<1> QED BY <1>4, <1>5

\* What the callers of pause do next, once the sandbox is paused or gone.
LEMMA ReturnedTo ==
    ASSUME SandboxTypeOK, NEW p \in Procs, NEW v, Returned(p, v), proc[p].task # "resume",
           box' = None, v # None => v = saved',
           v = None => \A w \in VMs : vm'[w] = "off"
    PROVE  Tended' /\ Place(p)'
<1>1. /\ proc'[p].pc \in {"none", "end", "persist", "down"}
      /\ proc'[p].task # "resume"
      /\ proc'[p].task = "idle" => proc'[p].pc = "end"
      /\ proc'[p].pc = "persist" => proc'[p].sbx = v /\ v # None
      /\ proc'[p].pc = "down" => v = None
  BY GoesTo DEF Returned
<1> QED BY <1>1 DEF Tended, Place

LEMMA PauseSerial ==
    ASSUME OneAtATime, SandboxTypeOK, GuardsInv, SerialInv, NEW p \in Procs,
           PauseNothing(p) \/ PauseCall(p) \/ PauseReturns(p) \/ PauseFails(p)
    PROVE  OneSandbox' /\ Tended' /\ Place(p)'
<1>1. Busy(p) /\ proc[p].task # "resume"
  BY DEF PauseNothing, PauseCall, PauseReturns, PauseFails, At, Busy, SerialInv, Place
<1>2. CASE PauseNothing(p)
  <2>1. proc[p].pc = "pause" /\ box = None /\ UNCHANGED <<vm, box, saved, row, ref, pausing>>
    BY <1>2 DEF PauseNothing, At, backend
  <2>2. saved = None => \A v \in VMs : vm[v] = "off"
    BY <1>1, <2>1, Situation, SandboxAssumption
  <2>3. OneSandbox'
    BY <2>1 DEF OneSandbox, SerialInv
  <2> QED BY <1>1, <1>2, <2>1, <2>2, <2>3, ReturnedTo DEF PauseNothing
<1>3. CASE PauseCall(p)
  <2>1. proc[p].pc = "pause" /\ box \in VMs /\ UNCHANGED <<box, saved, row, ref, pausing>>
    BY <1>3 DEF PauseCall, At, backend, SandboxTypeOK, VM
  <2>2. \A v \in VMs : vm'[v] = IF v = box THEN "paused" ELSE vm[v]
    BY <1>3, <2>1 DEF PauseCall, SandboxTypeOK
  <2>3. proc'[p].pc = "paused" /\ proc'[p].task = proc[p].task /\ proc'[p].sbx = box
    BY <1>3, GoesTo DEF PauseCall
  <2>4. At(p, "paused")'
    BY <2>3 DEF At
  <2>5. OneSandbox'
    BY <1>1, <1>3, <2>1, <2>2, <2>4, Situation DEF OneSandbox, SerialInv, PauseCall
  <2>6. Place(p)'
    BY <1>1, <1>3, <2>1, <2>2, <2>3 DEF PauseCall, Place, SerialInv
  <2>7. CASE proc[p].task = "idle"
    BY <2>3, <2>5, <2>6, <2>7 DEF Tended, Tends
  <2>8. CASE proc[p].task # "idle"
    <3>1. Pending
      BY <1>1, <1>3, <2>1, <2>8, Situation DEF Tends, PauseCall
    <3>2. Pending'
      BY <1>1, <1>3, <2>1, <3>1, WaitsOn DEF PauseCall, Go
    <3> QED BY <2>5, <2>6, <3>2 DEF Tended
  <2> QED BY <2>7, <2>8
<1>4. CASE PauseReturns(p)
  <2>1. proc[p].pc = "paused" /\ proc[p].sbx = box /\ box # None
    BY <1>4 DEF PauseReturns, At, SerialInv, Place
  <2>2. box' = None /\ saved' = box /\ UNCHANGED <<vm, row, ref, pausing>>
    BY <1>4, <2>1 DEF PauseReturns
  <2>3. vm[box] = "paused"
    BY <2>1 DEF SerialInv, Place
  <2>4. \A v \in VMs : vm[v] = "off" \/ (v = box /\ vm[v] = "paused")
    BY <1>1, <2>1, <2>3, Situation DEF SerialInv, OneSandbox
  <2>5. OneSandbox'
    BY <2>2, <2>4 DEF OneSandbox
  <2> QED BY <1>1, <1>4, <2>1, <2>2, <2>5, ReturnedTo DEF PauseReturns
<1>5. CASE PauseFails(p)
  <2>1. proc[p].pc = "pause" /\ box \in VMs /\ vm[box] = "off"
    BY <1>5 DEF PauseFails, At, SandboxTypeOK, VM, OneAtATime
  <2>2. \A v \in VMs : vm[v] = "off"
    BY <1>1, <2>1, Situation, SandboxAssumption DEF SerialInv, OneSandbox
  <2>3. UNCHANGED <<vm, row, ref, pausing>>
    BY <1>5 DEF PauseFails
  <2>4. OneSandbox'
    BY <2>2, <2>3 DEF OneSandbox
  <2>5. CASE proc[p].task = "idle"
    BY <1>1, <1>5, <2>2, <2>3, <2>4, <2>5, ReturnedTo DEF PauseFails
  <2>6. CASE proc[p].task # "idle"
    <3>1. UNCHANGED <<box, saved>>
      BY <1>5, <2>6 DEF PauseFails
    <3>2. proc'[p].pc \in {"none", "down"} /\ proc'[p].task \notin {"idle", "resume"}
      BY <1>1, <1>5, <2>6, GoesTo DEF PauseFails, Returned
    <3>3. Place(p)'
      BY <2>2, <2>3, <3>2 DEF Place
    <3>4. Pending
      BY <1>1, <2>1, <2>6, Situation, SandboxAssumption DEF Tends
    <3>5. Pending'
      BY <1>1, <1>5, <2>3, <2>6, <3>4, WaitsOn DEF PauseFails, Returned, Continue, Go, Finish
    <3> QED BY <2>4, <3>3, <3>5 DEF Tended
  <2> QED BY <2>5, <2>6
<1> QED BY <1>2, <1>3, <1>4, <1>5

LEMMA PersistSerial ==
    ASSUME SandboxTypeOK, GuardsInv, SerialInv, NEW p \in Procs, Persist(p)
    PROVE  OneSandbox' /\ Tended' /\ Place(p)'
<1>1. Busy(p) /\ proc[p].pc = "persist" /\ box = None /\ proc[p].sbx = saved
      /\ proc[p].task \notin {"idle", "resume"}
  BY DEF Persist, At, Busy, SerialInv, Place, GuardsInv, Assigned
<1>2. UNCHANGED <<vm, box, saved, pausing>> /\ row' = saved
  BY <1>1 DEF Persist, backend
<1>3. proc'[p].pc \in {"none", "down"} /\ proc'[p].task \notin {"idle", "resume"}
  BY <1>1, GoesTo DEF Persist
<1>4. OneSandbox' /\ Tended'
  BY <1>1, <1>2 DEF OneSandbox, Tended, SerialInv
<1>5. Place(p)'
  BY <1>1, <1>2, <1>3, Situation DEF Place
<1> QED BY <1>4, <1>5

LEMMA WorkSerial ==
    ASSUME OneAtATime, SandboxTypeOK, GuardsInv, SerialInv, NEW p \in Procs, Work(p), GuardsInv'
    PROVE  SerialInv'
<1>1. Busy(p)
  BY DEF Busy, Work, At, Ensure, Connect, Create, CreateFails, Arm, Used, Reconnect, PauseNothing,
     PauseCall, PauseReturns, PauseFails, Persist
<1>2. \A q \in Procs : q # p => ~Busy(q)' /\ proc'[q].task # "resume"
  <2> SUFFICES ASSUME NEW q \in Procs, q # p PROVE ~Busy(q)' /\ proc'[q].task # "resume"
    OBVIOUS
  <2>1. ~Busy(q) /\ proc[q].task # "resume"
    BY <1>1, Situation DEF SerialInv, Place
  <2> QED BY <2>1, OthersKept DEF Busy, Rest
<1>3. OneSandbox' /\ Tended' /\ Place(p)'
  BY EnsureSerial, ConnectSerial, CreateSerial, CreateFailsSerial, ArmSerial, UsedSerial,
     ReconnectSerial, PauseSerial, PersistSerial DEF Work
<1> QED BY <1>2, <1>3, OthersPlaced

\* With nobody at work, a sandbox in use has its timer and a paused one is kept.
LEMMA AtRest ==
    ASSUME SandboxTypeOK, GuardsInv, SerialInv, Quiet
    PROVE  /\ \A p \in Procs : ~Busy(p)
           /\ \A v \in VMs : vm[v] = "paused" => box = None /\ v = saved
           /\ box # None => Pending
<1>1. \A p \in Procs : ~Busy(p)
  BY DEF Quiet, Busy
<1>2. \A p \in Procs : ~At(p, "paused")
  BY <1>1 DEF Busy, At
<1>3. \A p \in Procs : ~Tends(p)
  <2> SUFFICES ASSUME NEW p \in Procs, Tends(p) PROVE FALSE
    OBVIOUS
  <2>1. proc[p].pc = "armed" /\ proc[p].task = "idle"
    BY <1>1 DEF Tends, Busy
  <2> QED BY <2>1 DEF GuardsInv, Assigned, Procs
<1> QED BY <1>1, <1>2, <1>3 DEF SerialInv, OneSandbox, Tended

LEMMA StartSerial ==
    ASSUME SandboxTypeOK, GuardsInv, SerialInv, GuardsInv', Quiet, NEW p \in SandboxCallers,
           NEW pc \in {"ensure", "pause"}, NEW task \in {"op", "pause", "shutdown"},
           Go(p, pc, task, None), UNCHANGED <<vm, row, backend>>
    PROVE  SerialInv'
<1>1. p \in Procs /\ proc'[p].pc = pc /\ proc'[p].task = task
  BY Sorts, GoesTo
<1>2. \A q \in Procs : q # p => proc'[q] = proc[q]
  BY DEF Go, SandboxTypeOK
<1>3. \A q \in Procs : q # p => ~Busy(q)' /\ proc'[q].task # "resume"
  BY <1>2, AtRest DEF Busy, SerialInv, Place
<1>4. OneSandbox'
  BY AtRest DEF OneSandbox, SerialInv, backend
<1>5. Pending => Pending'
  BY <1>1, <1>2, Sorts DEF Pending, At, backend, SandboxTypeOK
<1>6. Tended'
  BY <1>5, AtRest DEF Tended, backend
<1>7. Place(p)'
  BY <1>1 DEF Place
<1> QED BY <1>1, <1>3, <1>4, <1>6, <1>7, OthersPlaced

\* The timers' own steps.
LEMMA TimerSerial ==
    ASSUME OneAtATime, SandboxTypeOK, GuardsInv, SerialInv, GuardsInv', NEW t \in Timers,
           Fire(t) \/ IdlePause(t) \/ IdleEnd(t)
    PROVE  SerialInv'
<1>1. t \in Procs
  BY Sorts
<1>2. CASE Fire(t)
  <2>1. Quiet
    BY <1>2 DEF Fire, MayStart, OneAtATime
  <2>2. /\ proc'[t].pc = "fired" /\ proc'[t].task = "op"
        /\ \A q \in Procs : q # t => proc'[q] = proc[q]
    BY <1>1, <1>2 DEF Fire, SandboxTypeOK, Rest
  <2>3. \A q \in Procs : q # t => ~Busy(q)' /\ proc'[q].task # "resume"
    BY <2>1, <2>2, AtRest DEF Busy, SerialInv, Place
  <2>4. OneSandbox'
    BY <1>2, <2>1, AtRest DEF Fire, OneSandbox, SerialInv, backend
  <2>5. Tended' /\ Place(t)'
    BY <1>1, <2>2 DEF Tended, Tends, Place
  <2> QED BY <1>1, <2>3, <2>4, <2>5, OthersPlaced
<1>3. CASE IdlePause(t)
  <2>1. Busy(t) /\ proc[t].pc = "fired"
    BY <1>3 DEF IdlePause, At, Busy
  <2>2. /\ proc'[t].pc \in {"ensure", "pause", "end"} /\ proc'[t].task = "idle"
        /\ proc'[t].pc = "end" <=> box = None
        /\ \A q \in Procs : q # t => proc'[q] = proc[q]
    BY <1>1, <1>3 DEF IdlePause, Go, SandboxTypeOK
  <2>3. \A q \in Procs : q # t => ~Busy(q)' /\ proc'[q].task # "resume"
    BY <1>1, <2>1, <2>2, Situation DEF Busy, SerialInv, Place
  <2>4. OneSandbox'
    BY <1>1, <1>3, <2>1, Situation DEF IdlePause, OneSandbox, SerialInv
  <2>5. Tended' /\ Place(t)'
    BY <1>1, <1>3, <2>2 DEF IdlePause, Tended, Tends, Place
  <2> QED BY <1>1, <2>3, <2>4, <2>5, OthersPlaced
<1>4. CASE IdleEnd(t)
  <2>1. Busy(t) /\ proc[t].pc = "end" /\ box = None
    BY <1>1, <1>4 DEF IdleEnd, At, Busy, SerialInv, Place
  <2>2. /\ proc'[t].pc = "none" /\ proc'[t].task = "op"
        /\ \A q \in Procs : q # t => proc'[q] = proc[q]
    BY <1>1, <1>4 DEF IdleEnd, Finish, Rest, SandboxTypeOK
  <2>3. \A q \in Procs : q # t => ~Busy(q)' /\ proc'[q].task # "resume"
    BY <1>1, <2>1, <2>2, Situation DEF Busy, SerialInv, Place
  <2>4. OneSandbox' /\ Tended'
    BY <1>4, <2>1 DEF IdleEnd, OneSandbox, SerialInv, Tended
  <2>5. Place(t)'
    BY <2>2 DEF Place
  <2> QED BY <1>1, <2>3, <2>4, <2>5, OthersPlaced
<1> QED BY <1>2, <1>3, <1>4

LEMMA RestartSerial ==
    ASSUME OneAtATime, SandboxTypeOK, SerialInv, SandboxRestart
    PROVE  SerialInv'
<1>1. \A v \in VMs : vm[v] # "off" => v = row /\ vm[v] = "paused"
  BY Sorts DEF SandboxRestart, OneAtATime, At, SerialInv, Place
<1>2. \A p \in Procs : proc'[p] = Rest("none")
  BY DEF SandboxRestart
<1>3. Alone' /\ \A p \in Procs : Place(p)'
  BY <1>2 DEF Alone, Busy, Place, Rest
<1>4. OneSandbox' /\ Tended'
  BY <1>1 DEF SandboxRestart, OneSandbox, Tended
<1> QED BY <1>3, <1>4 DEF SerialInv

LEMMA ExpireSerial ==
    ASSUME SandboxTypeOK, SerialInv, NEW v \in VMs, Expire(v)
    PROVE  SerialInv'
<1>1. \A w \in VMs : vm'[w] = IF w = v THEN "off" ELSE vm[w]
  BY DEF Expire, SandboxTypeOK
<1>2. vm[v] = "running" /\ UNCHANGED <<box, saved, row, ref, pausing, proc>>
  BY DEF Expire, backend
<1>3. Alone' /\ Tended'
  BY <1>2 DEF SerialInv, Alone, Busy, Tended, Tends, Pending, At
<1>4. OneSandbox'
  BY <1>1, <1>2 DEF SerialInv, OneSandbox, At
<1>5. ASSUME NEW p \in Procs PROVE Place(p)'
  <2>1. proc[p].pc = "paused" => vm'[box] = "paused"
    <3> SUFFICES ASSUME proc[p].pc = "paused" PROVE vm'[box] = "paused"
      OBVIOUS
    <3>1. box \in VMs /\ vm[box] = "paused"
      BY DEF SerialInv, Place, SandboxTypeOK, VM
    <3> QED BY <1>1, <1>2, <3>1
  <2> QED BY <1>1, <1>2, <2>1 DEF SerialInv, Place
<1> QED BY <1>3, <1>4, <1>5 DEF SerialInv

LEMMA SerialNext ==
    ASSUME OneAtATime, SandboxTypeOK, GuardsInv, SerialInv, [SandboxNext]_sandboxVars
    PROVE  SerialInv'
<1>1. GuardsInv'
  BY GuardsNext
<1>2. ASSUME NEW p \in Procs, Work(p) PROVE SerialInv'
  BY <1>1, <1>2, WorkSerial
<1>3. ASSUME NEW p \in SandboxCallers, StartOp(p) PROVE SerialInv'
  BY <1>1, <1>3, StartSerial DEF StartOp, MayStart, OneAtATime
<1>4. ASSUME NEW task \in {"pause", "shutdown"}, StartPause(task) PROVE SerialInv'
  BY <1>1, <1>4, Sorts, StartSerial DEF StartPause, MayStart, OneAtATime
<1>5. ~StartResume
  BY DEF StartResume, OneAtATime
<1>6. ASSUME NEW t \in Timers, Fire(t) \/ IdlePause(t) \/ IdleEnd(t) PROVE SerialInv'
  BY <1>1, <1>6, TimerSerial
<1>7. CASE UNCHANGED sandboxVars
  BY <1>7 DEF sandboxVars, SerialInv, Alone, Busy, OneSandbox, Tended, Tends, Pending, Place, At
<1> QED BY <1>2, <1>3, <1>4, <1>5, <1>6, <1>7, RestartSerial, ExpireSerial DEF SandboxNext

LEMMA SerialInit == SandboxInit => SerialInv
BY DEF SandboxInit, SerialInv, Alone, Busy, OneSandbox, Tended, Place, Rest

LEMMA SerialInvariant ==
    ASSUME OneAtATime
    PROVE  SandboxSpec => [](SandboxTypeOK /\ GuardsInv /\ SerialInv)
<1>1. SandboxInit => GuardsInv
  BY Sorts DEF SandboxInit, GuardsInv, Assigned, GuardsRelease, Rest
<1>2. SandboxTypeOK /\ GuardsInv /\ SerialInv /\ [SandboxNext]_sandboxVars => SerialInv'
  BY SerialNext
<1> QED BY <1>1, <1>2, TypeInit, TypeNext, GuardsNext, SerialInit, PTL DEF SandboxSpec

\* With one call at a time, a sandbox that runs while nobody uses the backend
\* is the one that the backend holds, and its timer will pause it.
THEOREM AlwaysMetered ==
    ASSUME OneAtATime
    PROVE  SandboxSpec => []Metered
<1>1. SandboxTypeOK /\ GuardsInv /\ SerialInv => Metered
  BY AtRest, SandboxAssumption DEF Metered, SerialInv, OneSandbox
<1> QED BY <1>1, SerialInvariant, PTL

\* With one call at a time, a sandbox paused while nobody uses the backend is
\* the one that the next call resumes, over restarts of the server too.
THEOREM AlwaysResumable ==
    ASSUME OneAtATime
    PROVE  SandboxSpec => []Resumable
<1>1. SandboxTypeOK /\ GuardsInv /\ SerialInv => Resumable
  BY AtRest DEF Resumable
<1> QED BY <1>1, SerialInvariant, PTL

\* With one call at a time, no sandbox is created while the agent has one.
THEOREM FilesGoOn ==
    ASSUME OneAtATime
    PROVE  SandboxSpec => Continuity
<1> DEFINE Kept == \A v \in VMs : vm[v] = "off" /\ vm'[v] = "running"
                                   => \A w \in VMs : vm[w] = "off"
<1>1. SandboxTypeOK /\ GuardsInv /\ SerialInv /\ [SandboxNext]_sandboxVars => [Kept]_sandboxVars
  <2> SUFFICES ASSUME SandboxTypeOK, GuardsInv, SerialInv, SandboxNext PROVE Kept
    OBVIOUS
  <2>1. ASSUME NEW p \in Procs, Create(p) PROVE Kept
    BY <2>1, CreateSerial
  <2>2. ASSUME NEW p \in Procs, Connect(p) PROVE Kept
    <3>1. CASE UNCHANGED vm
      BY <3>1
    <3>2. CASE saved # None /\ vm[saved] # "off" /\ vm' = [vm EXCEPT ![saved] = "running"]
      BY <3>2 DEF SandboxTypeOK
    <3> QED BY <2>2, <3>1, <3>2 DEF Connect
  <2>3. ASSUME NEW p \in Procs, PauseCall(p) PROVE Kept
    BY <2>3 DEF PauseCall, SandboxTypeOK
  <2>4. ASSUME NEW v \in VMs, Expire(v) PROVE Kept
    BY <2>4 DEF Expire, SandboxTypeOK
  <2>5. CASE UNCHANGED vm
    BY <2>5
  <2> QED BY <2>1, <2>2, <2>3, <2>4, <2>5
          DEF SandboxNext, Work, StartOp, StartPause, StartResume, Fire, Ensure, CreateFails, Arm, Used,
              Reconnect, PauseNothing, PauseReturns, PauseFails, Persist, IdlePause, IdleEnd, SandboxRestart
<1>2. Continuity <=> [][Kept]_sandboxVars
  BY PTL DEF Continuity
<1> QED BY <1>1, <1>2, SerialInvariant, PTL DEF SandboxSpec
=============================================================================
