------------------------------ MODULE MCTimers ------------------------------
(***************************************************************************)
(* What the process does by the clock, for TLC: the jobs of CronScheduler  *)
(* with calls on the loop only, the idle pauses of SandboxBackend with one *)
(* call at a time, and the heartbeats of AgentRuntime.  In each behaviour  *)
(* one of them runs and the others rest.                                   *)
(***************************************************************************)
EXTENDS CronScheduler, SandboxBackend

CONSTANTS agent1, proactive, plain, key1, nokey, request, deletion

VARIABLES part, heartRow, heartKey, heartAgents, heartFailed, heart, fails, beat, heartTask,
          heartThread

heartVars == <<heartRow, heartKey, heartAgents, heartFailed, heart, fails, beat, heartTask,
               heartThread>>
timersVars == <<part, vars, sandboxVars, heartVars>>

\* One agent with heartbeats, and whatever happens to it beside them.
Hearts == INSTANCE AgentRuntime WITH
    Agents <- {agent1}, Configs <- {proactive, plain}, Proactive <- {proactive}, OwnKey <- {},
    Keys <- {key1}, NoKey <- nokey, Tasks <- {request}, Threads <- {deletion},
    MaxFailures <- 3, Faults <- {"build", "init"},
    row <- heartRow, key <- heartKey, agents <- heartAgents, failed <- heartFailed,
    task <- heartTask, thread <- heartThread

TimersInit ==
    /\ part \in {"jobs", "sandbox", "hearts"}
    /\ Init /\ SandboxInit /\ Hearts!Init

OthersThanJobs == <<part, sandboxVars, heartVars>>
OthersThanSandbox == <<part, vars, heartVars>>
OthersThanHearts == <<part, vars, sandboxVars>>

JobsRun == part = "jobs" /\ Next /\ UNCHANGED OthersThanJobs
SandboxRuns == part = "sandbox" /\ SandboxNext /\ UNCHANGED OthersThanSandbox
HeartsRun == part = "hearts" /\ Hearts!Next /\ UNCHANGED OthersThanHearts

CallGoes(c) == part = "jobs" /\ CallStep(c) /\ UNCHANGED OthersThanJobs
RunGoes(r) == part = "jobs" /\ RunStep(r) /\ UNCHANGED OthersThanJobs
JobFires(j) == part = "jobs" /\ FireRecurring(j) /\ UNCHANGED OthersThanJobs
DateFires(j) == part = "jobs" /\ FireOnce(j) /\ UNCHANGED OthersThanJobs
WorkGoes(p) == part = "sandbox" /\ Work(p) /\ UNCHANGED OthersThanSandbox
TimerFires(t) == part = "sandbox" /\ Fire(t) /\ UNCHANGED OthersThanSandbox
TimerPauses(t) == part = "sandbox" /\ IdlePause(t) /\ UNCHANGED OthersThanSandbox
TimerEnds(t) == part = "sandbox" /\ IdleEnd(t) /\ UNCHANGED OthersThanSandbox
RequestGoes == part = "hearts" /\ Hearts!Serve(request) /\ UNCHANGED OthersThanHearts
BeatEnds ==
    /\ part = "hearts"
    /\ Hearts!BeatSucceeds(agent1) \/ Hearts!BeatFails(agent1)
    /\ UNCHANGED OthersThanHearts

\* The fairness of the three FairSpecs.
TimersSpec ==
    /\ TimersInit /\ [][JobsRun \/ SandboxRuns \/ HeartsRun]_timersVars
    /\ \A c \in Callers : WF_timersVars(CallGoes(c))
    /\ \A r \in Runs : SF_timersVars(RunGoes(r))
    /\ \A j \in Jobs : SF_timersVars(JobFires(j)) /\ SF_timersVars(DateFires(j))
    /\ \A p \in Procs : WF_timersVars(WorkGoes(p))
    /\ \A t \in Timers :
        WF_timersVars(TimerFires(t)) /\ WF_timersVars(TimerPauses(t)) /\ WF_timersVars(TimerEnds(t))
    /\ WF_timersVars(RequestGoes) /\ SF_timersVars(BeatEnds)

\* FailingStops of the agent with heartbeats.
HeartsStop == Hearts!FailingStops
=============================================================================
