--------------------------- MODULE CronScheduler ---------------------------
(***************************************************************************)
(* core/scheduler.py: jobs kept in PostgreSQL (the scheduled_jobs table)   *)
(* and copied into an in-memory APScheduler.  The asyncio loop runs the    *)
(* dashboard's handlers, the firing of APScheduler and the coroutine       *)
(* _execute_job; the agents' tools call add_job, update_job and remove_job *)
(* from executor threads.  A handler is synchronous, so while one runs on  *)
(* the loop nothing else does, but the threads go on between any two of    *)
(* its database or APScheduler accesses: each access is a step.            *)
(***************************************************************************)
CONSTANTS Jobs,       \* ids uuid4 can return (bounds the number of creations)
          Loop,       \* the event loop as a caller of the operations
          Workers,    \* executor threads running an agent's tool
          Recurring,  \* well-formed cron and interval schedules
          Dates,      \* well-formed "once" schedules
          Naive,      \* dates written without an offset, in a timezone other than UTC
          Malformed,  \* a schedule _build_trigger raises on
          DbFails,    \* whether a database access of a caller or a run may raise
          Keep,       \* a field absent from update_job's kwargs
          NoRow,      \* no such row in the table
          NoSched     \* no such job in APScheduler

ASSUME CronAssumption ==
    /\ Loop \notin Workers
    /\ Recurring \cap Dates = {}
    /\ Naive \subseteq Dates
    /\ DbFails \in BOOLEAN
    /\ Malformed \notin Recurring \cup Dates
    /\ Keep \notin Recurring \cup Dates \cup {Malformed} \cup BOOLEAN
    /\ NoSched \notin Recurring \cup Dates \cup {Malformed}

Callers == {Loop} \cup Workers
WellFormed == Recurring \cup Dates
Sched == WellFormed \cup {Malformed}
Status == {"none", "success", "error"}
Row == [sched: Sched, enabled: BOOLEAN, status: Status]
ASSUME RowAssumption == NoRow \notin Row

Change == [sched: Sched \cup {Keep}, enabled: BOOLEAN \cup {Keep}]

\* At most one run of a job fired by APScheduler (max_instances = 1), and
\* here at most one of those started by trigger_job, at a time.
Runs == {"aps", "manual"} \X Jobs

VARIABLES db,      \* the table
          aps,     \* APScheduler's job store: the trigger of each job
          clock,   \* each date: ahead, within APScheduler's misfire grace, or past it
          minted,  \* ids generated so far
          call,    \* what each caller is in the middle of
          run      \* where each run of _execute_job is

vars == <<db, aps, clock, minted, call, run>>

Idle == [pc |-> "idle"]
Call == {Idle}
    \cup [pc: {"insert"}, job: Jobs, sched: WellFormed]
    \cup [pc: {"commit"}, job: Jobs, asked: BOOLEAN \cup {Keep}, change: Change]
    \cup [pc: {"refresh"}, job: Jobs]
    \cup [pc: {"unschedule"}, job: Jobs, enabled: BOOLEAN]
    \cup [pc: {"reread"}, job: Jobs]
    \cup [pc: {"reschedule"}, job: Jobs, sched: Sched]
    \cup [pc: {"remove", "delete"}, job: Jobs]

TypeOK ==
    /\ db \in [Jobs -> Row \cup {NoRow}]
    /\ aps \in [Jobs -> WellFormed \cup {NoSched}]
    /\ clock \in [Dates -> {"future", "due", "past"}]
    /\ minted \subseteq Jobs
    /\ call \in [Callers -> Call]
    /\ run \in [Runs -> {"idle", "queued", "init", "chat", "deliver"}]

Present(j) == db[j] # NoRow
Active(j) == Present(j) /\ db[j].enabled
LoopFree == call[Loop] = Idle

Init ==
    /\ db = [j \in Jobs |-> NoRow]
    /\ aps = [j \in Jobs |-> NoSched]
    /\ clock = [d \in Dates |-> "future"]
    /\ minted = {}
    /\ call = [c \in Callers |-> Idle]
    /\ run = [r \in Runs |-> "idle"]

Goto(c, next) == call' = [call EXCEPT ![c] = next]
Return(c) == Goto(c, Idle)
-----------------------------------------------------------------------------
(* add_job *)

\* add_job compares a date without an offset as if it were UTC, but the
\* trigger reads it in the job's timezone: such a date may be accepted late.
AcceptedDate(d) == clock[d] = "future" \/ d \in Naive

\* A malformed schedule raises before anything changes.
AddSchedule(c) ==
    /\ call[c] = Idle
    /\ \E j \in Jobs \ minted, s \in WellFormed :
        /\ s \in Dates => AcceptedDate(s)
        /\ minted' = minted \cup {j}
        /\ aps' = [aps EXCEPT ![j] = s]
        /\ Goto(c, [pc |-> "insert", job |-> j, sched |-> s])
    /\ UNCHANGED <<db, clock, run>>

AddInsert(c) ==
    /\ call[c].pc = "insert"
    /\ db' = [db EXCEPT ![call[c].job] =
                  [sched |-> call[c].sched, enabled |-> TRUE, status |-> "none"]]
    /\ Return(c)
    /\ UNCHANGED <<aps, clock, minted, run>>
-----------------------------------------------------------------------------
(* update_job; pause_job and resume_job are its changes of "enabled" alone *)

\* Mutant: the whole row is written back, as loaded where nothing was asked.
ModifiedOrLoaded(new, loaded) == IF new = Keep THEN loaded ELSE new

\* The ORM marks a column as modified when its new value differs from the
\* loaded one, and the commit writes the modified columns only.
Modified(new, loaded) == IF new = loaded THEN Keep ELSE new

UpdateLoad(c) ==
    /\ call[c] = Idle
    /\ \E j \in Jobs, ch \in Change :
        /\ Present(j)
        /\ ch # [sched |-> Keep, enabled |-> Keep]
        /\ Goto(c, [pc |-> "commit", job |-> j, asked |-> ch.enabled,
                    change |-> [sched |-> Modified(ch.sched, db[j].sched),
                                enabled |-> Modified(ch.enabled, db[j].enabled)]])
    /\ UNCHANGED <<db, aps, clock, minted, run>>

Written(row, ch) ==
    [row EXCEPT !.sched = IF ch.sched = Keep THEN @ ELSE ch.sched,
                !.enabled = IF ch.enabled = Keep THEN @ ELSE ch.enabled]

\* The commit of a row deleted meanwhile raises: no row matches the UPDATE.
UpdateCommit(c) ==
    /\ call[c].pc = "commit"
    /\ LET j == call[c].job IN
        IF Present(j)
        THEN /\ db' = [db EXCEPT ![j] = Written(@, call[c].change)]
             /\ Goto(c, [pc |-> "refresh", job |-> j])
        ELSE UNCHANGED db /\ Return(c)
    /\ UNCHANGED <<aps, clock, minted, run>>

\* _job_to_dict reloads the row, which the commit has expired.
UpdateRefresh(c) ==
    /\ call[c].pc = "refresh"
    /\ LET j == call[c].job IN
        IF Present(j)
        THEN Goto(c, [pc |-> "unschedule", job |-> j, enabled |-> db[j].enabled])
        ELSE Return(c)
    /\ UNCHANGED <<db, aps, clock, minted, run>>

UpdateUnschedule(c) ==
    /\ call[c].pc = "unschedule"
    /\ aps' = [aps EXCEPT ![call[c].job] = NoSched]
    /\ IF call[c].enabled THEN Goto(c, [pc |-> "reread", job |-> call[c].job])
                          ELSE Return(c)
    /\ UNCHANGED <<db, clock, minted, run>>

\* Mutant: an update without a new schedule does not schedule again.
UpdateRereadSkips(c) ==
    /\ call[c].pc = "reread"
    /\ Return(c)
    /\ UNCHANGED <<db, aps, clock, minted, run>>

UpdateReread(c) ==
    /\ call[c].pc = "reread"
    /\ LET j == call[c].job IN
        IF Present(j)
        THEN Goto(c, [pc |-> "reschedule", job |-> j, sched |-> db[j].sched])
        ELSE Return(c)
    /\ UNCHANGED <<db, aps, clock, minted, run>>

\* Mutant: a malformed schedule reaches APScheduler.
UpdateRescheduleAny(c) ==
    /\ call[c].pc = "reschedule"
    /\ aps' = [aps EXCEPT ![call[c].job] = call[c].sched]
    /\ Return(c)
    /\ UNCHANGED <<db, clock, minted, run>>

\* _schedule_job raises on a malformed schedule and leaves the job unscheduled.
UpdateReschedule(c) ==
    /\ call[c].pc = "reschedule"
    /\ aps' = IF call[c].sched \in WellFormed
              THEN [aps EXCEPT ![call[c].job] = call[c].sched]
              ELSE aps
    /\ Return(c)
    /\ UNCHANGED <<db, clock, minted, run>>
-----------------------------------------------------------------------------
(* remove_job *)

RemoveCheck(c) ==
    /\ call[c] = Idle
    /\ \E j \in Jobs : Present(j) /\ Goto(c, [pc |-> "remove", job |-> j])
    /\ UNCHANGED <<db, aps, clock, minted, run>>

\* Mutant: the timer stays.
RemoveUnscheduleNothing(c) ==
    /\ call[c].pc = "remove"
    /\ Goto(c, [pc |-> "delete", job |-> call[c].job])
    /\ UNCHANGED <<db, aps, clock, minted, run>>

RemoveUnschedule(c) ==
    /\ call[c].pc = "remove"
    /\ aps' = [aps EXCEPT ![call[c].job] = NoSched]
    /\ Goto(c, [pc |-> "delete", job |-> call[c].job])
    /\ UNCHANGED <<db, clock, minted, run>>

RemoveDelete(c) ==
    /\ call[c].pc = "delete"
    /\ db' = [db EXCEPT ![call[c].job] = NoRow]
    /\ Return(c)
    /\ UNCHANGED <<aps, clock, minted, run>>

\* A database access raises out of the operation; earlier effects stay.
CallerFails(c) ==
    /\ DbFails
    /\ call[c].pc \in {"insert", "commit", "refresh", "reread", "delete"}
    /\ Return(c)
    /\ UNCHANGED <<db, aps, clock, minted, run>>
-----------------------------------------------------------------------------
(* APScheduler and _execute_job, on the loop *)

\* A date job leaves the job store when it is due, whether or not it runs.
FireOnce(j) ==
    /\ LoopFree
    /\ aps[j] \in Dates
    /\ clock[aps[j]] # "future"
    /\ aps' = [aps EXCEPT ![j] = NoSched]
    /\ run' = IF clock[aps[j]] = "due" /\ run[<<"aps", j>>] = "idle"
              THEN [run EXCEPT ![<<"aps", j>>] = "queued"] ELSE run
    /\ UNCHANGED <<db, clock, minted, call>>

FireRecurring(j) ==
    /\ LoopFree
    /\ aps[j] \in Recurring
    /\ run[<<"aps", j>>] = "idle"
    /\ run' = [run EXCEPT ![<<"aps", j>>] = "queued"]
    /\ UNCHANGED <<db, aps, clock, minted, call>>

Reported(j, st) ==
    IF Present(j) THEN [db EXCEPT ![j] = [@ EXCEPT !.status = st]] ELSE db

\* Mutant: the run trusts the timer and does not read "enabled" again.
EnterUnchecked(r) ==
    \/ /\ \E st \in {"init", "chat"} : run' = [run EXCEPT ![r] = st]
       /\ UNCHANGED db
    \/ /\ run' = [run EXCEPT ![r] = "idle"]
       /\ db' = Reported(r[2], "error")

\* _execute_job up to its first await: the fresh read of the row, then the
\* agent, which may be missing, in need of initialize_async, or ready.
Enter(r) ==
    IF Active(r[2])
    THEN \/ /\ \E st \in {"init", "chat"} : run' = [run EXCEPT ![r] = st]
            /\ UNCHANGED db
         \/ /\ run' = [run EXCEPT ![r] = "idle"]
            /\ db' = Reported(r[2], "error")
    ELSE run' = [run EXCEPT ![r] = "idle"] /\ UNCHANGED db

StartRun(r) ==
    /\ LoopFree
    /\ run[r] = "queued"
    /\ Enter(r)
    /\ UNCHANGED <<aps, clock, minted, call>>

\* trigger_job finds the row and runs _execute_job in the same loop step.
TriggerJob(j) ==
    /\ LoopFree
    /\ Present(j)
    /\ run[<<"manual", j>>] = "idle"
    /\ Enter(<<"manual", j>>)
    /\ UNCHANGED <<aps, clock, minted, call>>

\* initialize_async returns, or the agent is still not initialised.
InitDone(r) ==
    /\ LoopFree
    /\ run[r] = "init"
    /\ \/ run' = [run EXCEPT ![r] = "chat"] /\ UNCHANGED db
       \/ run' = [run EXCEPT ![r] = "idle"] /\ db' = Reported(r[2], "error")
    /\ UNCHANGED <<aps, clock, minted, call>>

\* chat returns with a delivery to make, without one, or raises.
ChatDone(r) ==
    /\ LoopFree
    /\ run[r] = "chat"
    /\ \/ run' = [run EXCEPT ![r] = "deliver"] /\ UNCHANGED db
       \/ /\ run' = [run EXCEPT ![r] = "idle"]
          /\ \E st \in {"success", "error"} : db' = Reported(r[2], st)
    /\ UNCHANGED <<aps, clock, minted, call>>

\* _deliver_response swallows a failed delivery, so the run is a success,
\* unless writing that fails and the handler's second write does not.
DeliverDone(r) ==
    /\ LoopFree
    /\ run[r] = "deliver"
    /\ run' = [run EXCEPT ![r] = "idle"]
    /\ \E st \in {"success"} \cup (IF DbFails THEN {"error"} ELSE {}) :
        db' = Reported(r[2], st)
    /\ UNCHANGED <<aps, clock, minted, call>>

\* A database error while a run reads its row or writes its status.
RunFails(r) ==
    /\ DbFails
    /\ LoopFree
    /\ run[r] # "idle"
    /\ run' = [run EXCEPT ![r] = "idle"]
    /\ UNCHANGED <<db, aps, clock, minted, call>>
-----------------------------------------------------------------------------
(* Time and restarts *)

Tick(d) ==
    /\ clock[d] # "past"
    /\ clock' = [clock EXCEPT ![d] = IF @ = "future" THEN "due" ELSE "past"]
    /\ UNCHANGED <<db, aps, minted, call, run>>

\* Mutant: paused rows are scheduled too.
LoadAllJobs == [j \in Jobs |-> IF Present(j) /\ db[j].sched \in WellFormed
                               THEN db[j].sched ELSE NoSched]

\* initialize: each enabled row is scheduled; one that raises is skipped.
LoadJobs == [j \in Jobs |-> IF Active(j) /\ db[j].sched \in WellFormed
                            THEN db[j].sched ELSE NoSched]

\* The process stops at any moment and starts again; only the table survives.
Restart ==
    /\ aps' = LoadJobs
    /\ call' = [c \in Callers |-> Idle]
    /\ run' = [r \in Runs |-> "idle"]
    /\ UNCHANGED <<db, clock, minted>>

CallStep(c) ==
    \/ AddInsert(c)
    \/ UpdateCommit(c) \/ UpdateRefresh(c) \/ UpdateUnschedule(c)
    \/ UpdateReread(c) \/ UpdateReschedule(c)
    \/ RemoveUnschedule(c) \/ RemoveDelete(c)

RunStep(r) == StartRun(r) \/ InitDone(r) \/ ChatDone(r) \/ DeliverDone(r)

Next ==
    \/ \E c \in Callers : AddSchedule(c) \/ UpdateLoad(c) \/ RemoveCheck(c)
                          \/ CallStep(c) \/ CallerFails(c)
    \/ \E j \in Jobs : FireOnce(j) \/ FireRecurring(j) \/ TriggerJob(j)
    \/ \E r \in Runs : RunStep(r) \/ RunFails(r)
    \/ \E d \in Dates : Tick(d)
    \/ Restart

Spec == Init /\ [][Next]_vars

\* A call returns, a run ends (its awaits are bounded by the agent's recursion
\* limit and the clients' timeouts) and a due job is fired: the loop serves
\* its ready callbacks in order, so no handler overtakes a due timer forever.
Fairness ==
    /\ \A c \in Callers : WF_vars(CallStep(c))
    /\ \A r \in Runs : SF_vars(RunStep(r))
    /\ \A j \in Jobs : SF_vars(FireRecurring(j)) /\ SF_vars(FireOnce(j))

FairSpec == Spec /\ Fairness
-----------------------------------------------------------------------------
(* Properties *)

\* Ids whose row is gone, or will never be written.
Spent == {j \in minted : ~Present(j)
                          /\ \A c \in Callers : ~(call[c].pc = "insert" /\ call[c].job = j)}
Begun == {r \in Runs : run[r] \in {"init", "chat", "deliver"}}

Ledger == INSTANCE ScheduledJobs WITH rows <- db, retired <- Spent, running <- Begun

\* Through any interleaving of tool threads, timers, failures and restarts
\* the table behaves as ScheduledJobs says: a run begins only for a row that
\* is enabled then, a late status never brings back a deleted row (UPDATE
\* ... WHERE id) nor a paused one, and a deleted id stays deleted.
JobLedger == Ledger!AbsSpec

Settled == \A c \in Callers : call[c] = Idle

\* APScheduler holds exactly the jobs that the table says should run.
InStep(j) ==
    /\ aps[j] # NoSched => Active(j) /\ aps[j] = db[j].sched
    /\ /\ Active(j)
       /\ \/ db[j].sched \in Recurring
          \/ db[j].sched \in Dates /\ clock[db[j].sched] = "future"
       => aps[j] = db[j].sched

\* Between two calls APScheduler and the table agree, so a paused or deleted
\* job has no timer and an enabled one has its own: the point of the orders
\* "schedule, then insert", "unschedule, then delete" and "commit, then
\* reschedule".  It needs the calls to be one at a time and not to fail.
Coherent == Settled => \A j \in Jobs : InStep(j)

\* What holds in the middle of a call when only the loop makes calls: the
\* jobs nobody is changing agree, and the one being changed is on its way.
OnItsWay(k) ==
    /\ k.pc = "insert" => ~Present(k.job) /\ aps[k.job] = k.sched
    /\ k.pc \notin {"idle", "insert"} => Present(k.job)
    /\ k.pc = "unschedule" => db[k.job].enabled = k.enabled
    /\ k.pc \in {"reread", "reschedule"} => db[k.job].enabled
    /\ k.pc = "reschedule" => db[k.job].sched = k.sched
    /\ k.pc \in {"reread", "reschedule", "delete"} => aps[k.job] = NoSched

\* The inductive form of Coherent: every job is in step with the table but
\* the one the loop is changing, whose call still has what it needs to end
\* in step.
SequentialInv ==
    /\ \A j \in Jobs \ minted : ~Present(j) /\ aps[j] = NoSched
    /\ \A j \in Jobs : InStep(j) \/ (call[Loop] # Idle /\ call[Loop].job = j)
    /\ OnItsWay(call[Loop])

\* Whatever drift threads and failures have left behind, a restart repairs:
\* _load_jobs schedules every enabled well-formed row and nothing else.
RestartRepairs == [][Restart => (Coherent)']_vars

\* A pause or a resume is never undone by a concurrent update_job that asks
\* for another column only and has loaded the row before: whoever changes
\* "enabled" was asked to.
NoLostPause ==
    [][\A j \in Jobs :
        Present(j) /\ Present(j)' /\ db'[j].enabled # db[j].enabled
        => \E c \in Callers : /\ call[c].pc = "commit"
                              /\ call[c].asked = db'[j].enabled]_vars

Undisturbed(j) ==
    /\ Active(j) /\ db[j].sched \in Recurring
    /\ \A c \in Callers : call[c] # Idle => call[c].job # j

\* A recurring job that stays enabled, and that nobody is changing, is run
\* again and again, across restarts.
KeepsRunning ==
    \A j \in Jobs :
        <>[]Undisturbed(j) => []<>(run[<<"aps", j>>] = "queued")
-----------------------------------------------------------------------------
(* What comments and tool descriptions say, and the code does not do *)

\* "Update job fields and reschedule if schedule changed": after the calls,
\* an enabled recurring job is scheduled.  Two tool threads that resume and
\* pause the same job can leave it enabled and without a timer.
UpdateReschedules ==
    Settled => \A j \in Jobs : Active(j) /\ db[j].sched \in Recurring => aps[j] # NoSched

\* "Validate once schedule is in the future": the trigger that add_job
\* creates is ahead of the clock.
OnceIsAhead ==
    [][\A j \in Jobs : j \notin minted /\ aps'[j] \in Dates
                        => clock[aps'[j]] = "future"]_vars
=============================================================================
