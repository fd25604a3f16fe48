------------------------ MODULE CronSchedulerProofs ------------------------
(***************************************************************************)
(* Theorems about CronScheduler for every set of jobs, threads, schedules  *)
(* and dates: type correctness, the refinement of ScheduledJobs, and the   *)
(* agreement of APScheduler and the table when calls come one at a time.   *)
(***************************************************************************)
EXTENDS CronScheduler, TLAPS

USE CronAssumption, RowAssumption

(* Type correctness *)

\* A caller that is doing nothing is a caller.
LEMMA IdleTyped == Idle \in Call
BY DEF Idle, Call

\* A run's status report keeps the table a table.
LEMMA ReportedTyped ==
    ASSUME TypeOK, NEW j \in Jobs, NEW st \in Status
    PROVE  Reported(j, st) \in [Jobs -> Row \cup {NoRow}]
BY DEF Reported, Present, TypeOK, Row, Status

\* A commit keeps the columns that the change does not name.
LEMMA WrittenTyped ==
    ASSUME NEW row \in Row, NEW ch \in Change
    PROVE  Written(row, ch) \in Row
<1>1. row.sched \in Sched /\ row.enabled \in BOOLEAN /\ row.status \in Status
  BY DEF Row
<1> DEFINE S == IF ch.sched = Keep THEN row.sched ELSE ch.sched
           E == IF ch.enabled = Keep THEN row.enabled ELSE ch.enabled
<1>2. S \in Sched
  BY <1>1 DEF Change
<1>3. E \in BOOLEAN
  <2>1. ch.enabled \in BOOLEAN \cup {Keep}
    BY DEF Change
  <2> QED BY <1>1, <2>1, Zenon
<1>4. Written(row, ch) = [[row EXCEPT !.sched = S] EXCEPT !.enabled = E]
  BY DEF Written, Row
<1>5. [row EXCEPT !.sched = S] \in Row
  BY <1>1, <1>2 DEF Row
<1> QED BY <1>3, <1>4, <1>5 DEF Row

\* A run is of a job.
LEMMA RunJob == \A r \in Runs : r[2] \in Jobs
BY DEF Runs

\* The initial values have their types.
LEMMA TypeInit == Init => TypeOK
BY IdleTyped DEF Init, TypeOK

\* The steps of a caller: each moves its call record and at most one store.
LEMMA TypeCaller ==
    ASSUME TypeOK, NEW c \in Callers,
           \/ AddSchedule(c) \/ UpdateLoad(c) \/ RemoveCheck(c)
           \/ CallStep(c) \/ CallerFails(c)
    PROVE  TypeOK'
<1> USE IdleTyped DEF TypeOK, Goto, Return
<1>1. CASE AddSchedule(c)
  BY <1>1 DEF AddSchedule, Call
<1>2. CASE UpdateLoad(c)
  BY <1>2 DEF UpdateLoad, Call, Change, Modified, Row, Present, Sched
<1>3. CASE RemoveCheck(c)
  BY <1>3 DEF RemoveCheck, Call
<1>4. CASE CallerFails(c)
  BY <1>4 DEF CallerFails
<1>5. CASE AddInsert(c)
  BY <1>5 DEF AddInsert, Call, Row, Status, Sched, Idle
<1>6. CASE UpdateCommit(c)
  <2> DEFINE k == call[c]
  <2>1. k \in [pc: {"commit"}, job: Jobs,
              asked: BOOLEAN \cup {Keep}, change: Change]
    BY <1>6 DEF UpdateCommit, Call, Idle
  <2>2. [pc |-> "refresh", job |-> k.job] \in Call
    BY <2>1 DEF Call
  <2>3. CASE Present(k.job)
    <3>1. db[k.job] \in Row /\ k.change \in Change
      BY <2>1, <2>3 DEF Present
    <3>2. Written(db[k.job], k.change) \in Row
      BY <3>1, WrittenTyped
    <3> QED BY <1>6, <2>1, <2>2, <2>3, <3>2 DEF UpdateCommit
  <2> QED BY <1>6, <2>1, <2>3 DEF UpdateCommit
<1>7. CASE UpdateRefresh(c)
  BY <1>7 DEF UpdateRefresh, Call, Row, Present, Idle
<1>8. CASE UpdateUnschedule(c)
  BY <1>8 DEF UpdateUnschedule, Call, Idle
<1>9. CASE UpdateReread(c)
  BY <1>9 DEF UpdateReread, Call, Row, Present, Idle
<1>10. CASE UpdateReschedule(c)
  BY <1>10 DEF UpdateReschedule, Call, Idle
<1>11. CASE RemoveUnschedule(c)
  BY <1>11 DEF RemoveUnschedule, Call, Idle
<1>12. CASE RemoveDelete(c)
  BY <1>12 DEF RemoveDelete, Call, Idle
<1> QED
  BY <1>1, <1>2, <1>3, <1>4, <1>5, <1>6, <1>7, <1>8, <1>9, <1>10, <1>11, <1>12 DEF CallStep

\* The steps of the loop that fire and run jobs.
LEMMA TypeLoop ==
    ASSUME TypeOK,
           \/ \E j \in Jobs : FireOnce(j) \/ FireRecurring(j) \/ TriggerJob(j)
           \/ \E r \in Runs : RunStep(r) \/ RunFails(r)
    PROVE  TypeOK'
<1>1. ASSUME NEW j \in Jobs, FireOnce(j) \/ FireRecurring(j) PROVE TypeOK'
  BY <1>1 DEF TypeOK, FireOnce, FireRecurring
<1>2. ASSUME NEW r \in Runs, Enter(r), UNCHANGED <<aps, clock, minted, call>> PROVE TypeOK'
  BY <1>2, ReportedTyped, RunJob DEF TypeOK, Enter, Status
<1>3. ASSUME NEW j \in Jobs, TriggerJob(j) PROVE TypeOK'
  BY <1>2, <1>3 DEF TriggerJob, Runs
<1>4. ASSUME NEW r \in Runs, RunStep(r) \/ RunFails(r) PROVE TypeOK'
  <2>1. CASE StartRun(r)
    BY <1>2, <2>1 DEF StartRun
  <2>2. CASE InitDone(r)
    BY <2>2, ReportedTyped, RunJob DEF TypeOK, InitDone, Status
  <2>3. CASE ChatDone(r)
    <3>1. \/ UNCHANGED db
          \/ \E st \in Status : db' = Reported(r[2], st)
      BY <2>3 DEF ChatDone, Status
    <3>2. db' \in [Jobs -> Row \cup {NoRow}]
      BY <3>1, ReportedTyped, RunJob DEF TypeOK
    <3>3. \E st \in {"idle", "deliver"} : run' = [run EXCEPT ![r] = st]
      BY <2>3 DEF ChatDone
    <3> QED BY <2>3, <3>2, <3>3 DEF TypeOK, ChatDone
  <2>4. CASE DeliverDone(r)
    BY <2>4, ReportedTyped, RunJob DEF TypeOK, DeliverDone, Status
  <2>5. CASE RunFails(r)
    BY <2>5 DEF TypeOK, RunFails
  <2> QED BY <1>4, <2>1, <2>2, <2>3, <2>4, <2>5 DEF RunStep
<1> QED BY <1>1, <1>3, <1>4

\* Every step, of callers, runs, timers, dates or a restart, keeps the types.
LEMMA TypeNext == TypeOK /\ [Next]_vars => TypeOK'
<1> SUFFICES ASSUME TypeOK, [Next]_vars PROVE TypeOK'
  OBVIOUS
<1>1. ASSUME NEW d \in Dates, Tick(d) PROVE TypeOK'
  BY <1>1 DEF TypeOK, Tick
<1>2. CASE Restart
  BY <1>2, IdleTyped DEF TypeOK, Restart, LoadJobs, Active, Present, Row
<1>3. CASE UNCHANGED vars
  BY <1>3 DEF TypeOK, vars
<1> QED BY <1>1, <1>2, <1>3, TypeCaller, TypeLoop DEF Next

\* The table, APScheduler, the calls in progress and the runs keep their
\* shapes, through every interleaving.
THEOREM TypeCorrect == Spec => []TypeOK
BY TypeInit, TypeNext, PTL DEF Spec
-----------------------------------------------------------------------------
(* The refinement of ScheduledJobs *)

\* An id is in use once: a creation in progress owns an id without a row.
OneOwner ==
    /\ \A j \in Jobs : Present(j) => j \in minted
    /\ \A c \in Callers : call[c].pc = "insert" =>
        /\ call[c].job \in minted /\ ~Present(call[c].job)
        /\ \A d \in Callers \ {c} : call[d].pc = "insert" => call[d].job # call[c].job

\* The inductive invariant of the refinement.
LedgerInv == TypeOK /\ OneOwner

\* A caller that leaves its place, or moves to one that is no creation, and
\* writes no new row, keeps the ids apart.
LEMMA OwnerMove ==
    ASSUME TypeOK, OneOwner, NEW c \in Callers, NEW k, k.pc # "insert",
           Goto(c, k), UNCHANGED minted,
           \A j \in Jobs : Present(j)' => Present(j)
    PROVE  OneOwner'
<1>1. \A d \in Callers : call'[d].pc = "insert" => d # c /\ call'[d] = call[d]
  BY DEF Goto, TypeOK
<1>2. \A d \in Callers : call[d].pc = "insert" => call[d].job \in Jobs
  BY DEF TypeOK, Call, Idle
<1> QED BY <1>1, <1>2 DEF OneOwner

\* A step that moves no caller and writes no new row does so trivially.
LEMMA OwnerStay ==
    ASSUME TypeOK, OneOwner, UNCHANGED <<minted, call>>,
           \A j \in Jobs : Present(j)' => Present(j)
    PROVE  OneOwner'
<1>1. \A d \in Callers : call[d].pc = "insert" => call[d].job \in Jobs
  BY DEF TypeOK, Call, Idle
<1> QED BY <1>1 DEF OneOwner

\* A status report neither creates nor deletes a row.
LEMMA ReportedPresent ==
    ASSUME TypeOK, NEW j \in Jobs, NEW st \in Status, db' = Reported(j, st)
    PROVE  \A i \in Jobs : Present(i)' <=> Present(i)
BY RowAssumption DEF Reported, Present, TypeOK, Row

\* No step of an operation gives an id a second owner: add_job takes a new
\* one, and the other operations start from a row that is there.
LEMMA OwnerCaller ==
    ASSUME TypeOK, TypeOK', OneOwner, NEW c \in Callers,
           \/ AddSchedule(c) \/ UpdateLoad(c) \/ RemoveCheck(c)
           \/ CallStep(c) \/ CallerFails(c)
    PROVE  OneOwner'
<1>1. CASE AddSchedule(c)
  <2>1. PICK j \in Jobs \ minted, s \in WellFormed :
          /\ minted' = minted \cup {j}
          /\ Goto(c, [pc |-> "insert", job |-> j, sched |-> s])
    BY <1>1 DEF AddSchedule
  <2>2. \A i \in Jobs : Present(i)' = Present(i)
    BY <1>1 DEF AddSchedule, Present
  <2>3. \A d \in Callers : call'[d] = IF d = c THEN [pc |-> "insert", job |-> j, sched |-> s]
                                              ELSE call[d]
    BY <2>1 DEF Goto, TypeOK
  <2>4. \A d \in Callers : call[d].pc = "insert" => call[d].job \in Jobs
    BY DEF TypeOK, Call, Idle
  <2> QED BY <2>1, <2>2, <2>3, <2>4 DEF OneOwner
<1>2. CASE AddInsert(c)
  <2>1. call[c].job \in Jobs
    BY <1>2 DEF AddInsert, TypeOK, Call, Idle
  <2>2. \A d \in Callers : call'[d] = IF d = c THEN Idle ELSE call[d]
    BY <1>2 DEF AddInsert, Return, Goto, TypeOK
  <2>3. \A i \in Jobs : i # call[c].job => Present(i)' = Present(i)
    BY <1>2, <2>1 DEF AddInsert, Present, TypeOK
  <2>4. \A d \in Callers : call[d].pc = "insert" => call[d].job \in Jobs
    BY DEF TypeOK, Call, Idle
  <2>5. minted' = minted /\ call[c].pc = "insert"
    BY <1>2 DEF AddInsert
  <2>6. Idle.pc # "insert"
    BY DEF Idle
  <2> QED BY <2>1, <2>2, <2>3, <2>4, <2>5, <2>6 DEF OneOwner
<1>3. CASE UpdateLoad(c)
  BY <1>3, OwnerMove DEF UpdateLoad, Present, Goto
<1>4. CASE RemoveCheck(c)
  BY <1>4, OwnerMove DEF RemoveCheck, Present
<1>5. CASE CallerFails(c)
  BY <1>5, OwnerMove DEF CallerFails, Return, Idle, Present
<1>6. CASE UpdateCommit(c)
  <2>1. \A i \in Jobs : Present(i)' => Present(i)
    BY <1>6 DEF UpdateCommit, Present, TypeOK
  <2> QED BY <1>6, <2>1, OwnerMove DEF UpdateCommit, Return, Idle
<1>7. CASE UpdateRefresh(c)
  BY <1>7, OwnerMove DEF UpdateRefresh, Return, Idle, Present
<1>8. CASE UpdateUnschedule(c)
  BY <1>8, OwnerMove DEF UpdateUnschedule, Return, Idle, Present
<1>9. CASE UpdateReread(c)
  BY <1>9, OwnerMove DEF UpdateReread, Return, Idle, Present
<1>10. CASE UpdateReschedule(c)
  BY <1>10, OwnerMove DEF UpdateReschedule, Return, Idle, Present
<1>11. CASE RemoveUnschedule(c)
  BY <1>11, OwnerMove DEF RemoveUnschedule, Present
<1>12. CASE RemoveDelete(c)
  <2>1. \A i \in Jobs : Present(i)' => Present(i)
    BY <1>12 DEF RemoveDelete, Present, TypeOK
  <2> QED BY <1>12, <2>1, OwnerMove DEF RemoveDelete, Return, Idle
<1> QED
  BY <1>1, <1>2, <1>3, <1>4, <1>5, <1>6, <1>7, <1>8, <1>9, <1>10, <1>11, <1>12 DEF CallStep

\* What the loop does for a run after it was fired or triggered.
RunAct(r) == \/ RunStep(r) \/ RunFails(r)
             \/ Enter(r) /\ UNCHANGED <<aps, clock, minted, call>>

\* A run's steps before its end, and its end, write at most a status.
LEMMA RunWrites ==
    ASSUME TypeOK, NEW r \in Runs,
           RunAct(r)
    PROVE  /\ UNCHANGED <<minted, call>>
           /\ UNCHANGED db \/ \E st \in {"success", "error"} : db' = Reported(r[2], st)
BY DEF RunAct, RunStep, StartRun, Enter, InitDone, ChatDone, DeliverDone, RunFails

\* The runs write a status at most, so they take no id.
LEMMA OwnerRun ==
    ASSUME TypeOK, OneOwner, NEW r \in Runs,
           RunAct(r)
    PROVE  OneOwner' /\ \A j \in Jobs : Present(j)' <=> Present(j)
<1>1. \A j \in Jobs : Present(j)' <=> Present(j)
  <2>1. CASE UNCHANGED db
    BY <2>1 DEF Present
  <2>2. ASSUME NEW st \in {"success", "error"}, db' = Reported(r[2], st)
        PROVE  \A j \in Jobs : Present(j)' <=> Present(j)
    BY <2>2, RunJob, ReportedPresent DEF Status
  <2> QED BY <2>1, <2>2, RunWrites
<1> QED BY <1>1, RunWrites, OwnerStay

\* Every step keeps the ids of creations in progress apart.
LEMMA OwnerNext == TypeOK /\ TypeOK' /\ OneOwner /\ [Next]_vars => OneOwner'
<1> SUFFICES ASSUME TypeOK, TypeOK', OneOwner, [Next]_vars PROVE OneOwner'
  OBVIOUS
<1>1. ASSUME NEW j \in Jobs, FireOnce(j) \/ FireRecurring(j) PROVE OneOwner'
  BY <1>1, OwnerStay DEF FireOnce, FireRecurring, Present
<1>2. ASSUME NEW j \in Jobs, TriggerJob(j) PROVE OneOwner'
  <2>1. <<"manual", j>> \in Runs
    BY DEF Runs
  <2> QED BY <1>2, <2>1, OwnerRun DEF TriggerJob, RunAct
<1>3. ASSUME NEW d \in Dates, Tick(d) PROVE OneOwner'
  BY <1>3, OwnerStay DEF Tick, Present
<1>4. CASE Restart
  BY <1>4 DEF Restart, OneOwner, Present, Idle
<1>5. CASE UNCHANGED vars
  BY <1>5, OwnerStay DEF vars, Present
<1> QED BY <1>1, <1>2, <1>3, <1>4, <1>5, OwnerCaller, OwnerRun DEF Next, RunAct

\* The invariant that the refinement needs.
LEMMA LedgerInvariant == Spec => []LedgerInv
<1>1. Init => LedgerInv
  BY TypeInit DEF LedgerInv, OneOwner, Init, Present, Idle
<1>2. LedgerInv /\ [Next]_vars => LedgerInv'
  BY TypeNext, OwnerNext DEF LedgerInv
<1> QED BY <1>1, <1>2, PTL DEF Spec

\* One step of the implementation seen from ScheduledJobs.
AbsStep == [Ledger!AbsNext]_(Ledger!absVars)

\* A caller that neither begins nor ends a creation, and changes no row's
\* presence, leaves the spent ids alone.
LEMMA SpentSame ==
    ASSUME TypeOK, NEW c \in Callers, NEW k, Goto(c, k), k.pc # "insert", call[c].pc # "insert",
           UNCHANGED minted, \A j \in Jobs : Present(j)' <=> Present(j)
    PROVE  Spent' = Spent
<1>1. \A d \in Callers : call'[d] = IF d = c THEN k ELSE call[d]
  BY DEF Goto, TypeOK
<1>2. \A i \in minted : Present(i)' <=> Present(i)
  BY DEF TypeOK
<1> QED BY <1>1, <1>2 DEF Spent

\* Each step of an operation is a step of the ledger or leaves it alone: the
\* INSERT creates, the commit amends, the DELETE deletes, a creation that
\* fails gives its id up.
LEMMA SimulateCaller ==
    ASSUME LedgerInv, LedgerInv', NEW c \in Callers,
           \/ AddSchedule(c) \/ UpdateLoad(c) \/ RemoveCheck(c)
           \/ CallStep(c) \/ CallerFails(c)
    PROVE  AbsStep
<1> USE DEF LedgerInv
<1> DEFINE j == call[c].job
<1>0. \A k : Goto(c, k) => \A d \in Callers : call'[d] = IF d = c THEN k ELSE call[d]
  BY DEF Goto, TypeOK
<1>i. Idle.pc # "insert"
  BY DEF Idle
<1>r. UNCHANGED run => Begun' = Begun
  BY DEF Begun
<1>s. ASSUME UNCHANGED <<db, run>>, Spent' = Spent PROVE AbsStep
  BY <1>s, <1>r DEF AbsStep, Ledger!absVars
<1>1. CASE AddSchedule(c)
  <2>1. PICK i \in Jobs \ minted, s \in WellFormed :
          /\ minted' = minted \cup {i}
          /\ Goto(c, [pc |-> "insert", job |-> i, sched |-> s])
    BY <1>1 DEF AddSchedule
  <2>2. UNCHANGED <<db, run>> /\ call[c] = Idle
    BY <1>1 DEF AddSchedule
  <2>3. Spent' = Spent
    BY <2>1, <2>2, <1>0, <1>i DEF Spent, Present
  <2> QED BY <1>s, <2>2, <2>3
<1>2. CASE AddInsert(c)
  <2>1. j \in Jobs /\ call[c].sched \in Sched
    BY <1>2 DEF AddInsert, TypeOK, Call, Idle, Sched
  <2>2. \A d \in Callers : call'[d] = IF d = c THEN Idle ELSE call[d]
    BY <1>2, <1>0 DEF AddInsert, Return
  <2>3. \A i \in Jobs : Present(i)' <=> (i = j \/ Present(i))
    <3> DEFINE new == [sched |-> call[c].sched, enabled |-> TRUE, status |-> "none"]
    <3>1. new \in Row
      BY <2>1 DEF Row, Status
    <3>2. db' = [db EXCEPT ![j] = new]
      BY <1>2 DEF AddInsert
    <3> HIDE DEF new
    <3> QED BY <2>1, <3>1, <3>2, RowAssumption DEF Present, TypeOK
  <2>4. /\ minted' = minted /\ minted \subseteq Jobs /\ call[c].pc = "insert"
        /\ ~Present(j) /\ j \in minted
    BY <1>2 DEF AddInsert, OneOwner, TypeOK
  <2>5. Spent' = Spent /\ j \notin Spent
    BY <2>1, <2>2, <2>3, <2>4, <1>i DEF Spent
  <2>6. Ledger!Create(j)
    BY <1>2, <2>1, <2>4, <2>5, <1>r DEF AddInsert, Ledger!Create, Ledger!Present, Present
  <2> QED BY <2>1, <2>6 DEF AbsStep, Ledger!AbsNext
<1>3. CASE UpdateLoad(c)
  <2>1. call[c] = Idle /\ UNCHANGED <<db, run, minted>>
    BY <1>3 DEF UpdateLoad
  <2>2. PICK k : k.pc # "insert" /\ Goto(c, k)
    BY <1>3 DEF UpdateLoad
  <2> QED BY <2>1, <2>2, <1>i, <1>s, SpentSame DEF Present
<1>4. CASE RemoveCheck(c)
  <2>1. call[c] = Idle /\ UNCHANGED <<db, run, minted>>
    BY <1>4 DEF RemoveCheck
  <2>2. PICK k : k.pc # "insert" /\ Goto(c, k)
    BY <1>4 DEF RemoveCheck
  <2> QED BY <2>1, <2>2, <1>i, <1>s, SpentSame DEF Present
<1>5. CASE CallerFails(c)
  <2>1. /\ UNCHANGED <<db, run, minted>> /\ Goto(c, Idle)
        /\ \A d \in Callers : call'[d] = IF d = c THEN Idle ELSE call[d]
    BY <1>5, <1>0 DEF CallerFails, Return
  <2>2. CASE call[c].pc = "insert"
    <3>1. j \in Jobs /\ j \in minted /\ ~Present(j)
      BY <2>2 DEF OneOwner, TypeOK
    <3>2. Spent' = Spent \cup {j}
      BY <2>1, <2>2, <3>1, <1>i DEF Spent, OneOwner, Present
    <3>3. Ledger!GiveUp(j)
      BY <2>1, <3>1, <3>2, <1>r DEF Ledger!GiveUp, Ledger!Present, Present
    <3> QED BY <3>1, <3>3 DEF AbsStep, Ledger!AbsNext
  <2>3. CASE call[c].pc # "insert"
    BY <2>1, <2>3, <1>i, <1>s, SpentSame DEF Present
  <2> QED BY <2>2, <2>3
<1>6. CASE UpdateCommit(c)
  <2>1. /\ j \in Jobs /\ call[c].change \in Change /\ call[c].pc = "commit"
        /\ UNCHANGED <<minted, run>>
    BY <1>6 DEF UpdateCommit, TypeOK, Call, Idle
  <2>2. PICK k : k.pc # "insert" /\ Goto(c, k)
    BY <1>6, <1>i DEF UpdateCommit, Return
  <2>3. CASE Present(j)
    <3>1. db[j] \in Row /\ db' = [db EXCEPT ![j] = Written(@, call[c].change)]
      BY <1>6, <2>1, <2>3 DEF UpdateCommit, TypeOK, Present
    <3> DEFINE w == Written(db[j], call[c].change)
    <3>2. w \in Row
      BY <2>1, <3>1, WrittenTyped
    <3>3. w = [db[j] EXCEPT !.sched = w.sched, !.enabled = w.enabled]
      BY <2>1, <3>1 DEF Written, Row
    <3>4. \A i \in Jobs : Present(i)' <=> Present(i)
      BY <2>1, <2>3, <3>1, <3>2 DEF Present, TypeOK
    <3>5. Spent' = Spent
      BY <2>1, <2>2, <3>4, SpentSame
    <3>6. db' = [db EXCEPT ![j] = [@ EXCEPT !.sched = w.sched, !.enabled = w.enabled]]
      BY <3>1, <3>3
    <3>7. w.sched \in Sched /\ w.enabled \in BOOLEAN
      BY <3>2 DEF Row
    <3>8. Ledger!Amend(j)
      BY <2>1, <2>3, <3>5, <3>6, <3>7, <1>r DEF Ledger!Amend, Ledger!Present, Present
    <3> QED BY <2>1, <3>8 DEF AbsStep, Ledger!AbsNext
  <2>4. CASE ~Present(j)
    <3>1. UNCHANGED db
      BY <1>6, <2>4 DEF UpdateCommit
    <3> QED BY <2>1, <2>2, <3>1, <1>s, SpentSame DEF Present
  <2> QED BY <2>3, <2>4
<1>7. CASE UpdateRefresh(c) \/ UpdateUnschedule(c) \/ UpdateReread(c)
          \/ UpdateReschedule(c) \/ RemoveUnschedule(c)
  <2>1. call[c].pc # "insert" /\ UNCHANGED <<db, run, minted>>
    BY <1>7 DEF UpdateRefresh, UpdateUnschedule, UpdateReread, UpdateReschedule, RemoveUnschedule
  <2>2. PICK k : k.pc # "insert" /\ Goto(c, k)
    BY <1>7, <1>i DEF UpdateRefresh, UpdateUnschedule, UpdateReread, UpdateReschedule,
                      RemoveUnschedule, Return
  <2> QED BY <2>1, <2>2, <1>s, SpentSame DEF Present
<1>8. CASE RemoveDelete(c)
  <2>1. j \in Jobs /\ call[c].pc = "delete" /\ UNCHANGED <<minted, run>>
    BY <1>8 DEF RemoveDelete, TypeOK, Call, Idle
  <2>2. db' = [db EXCEPT ![j] = NoRow] /\ Goto(c, Idle)
    BY <1>8 DEF RemoveDelete, Return
  <2>3. \A i \in Jobs : Present(i)' <=> (i # j /\ Present(i))
    BY <2>1, <2>2 DEF Present, TypeOK
  <2>4. \A d \in Callers : call[d].pc = "insert" => call[d].job \in minted /\ call[d].job \in Jobs
    BY DEF OneOwner, TypeOK, Call, Idle
  <2>5. CASE Present(j)
    <3>1. \A d \in Callers : call'[d].pc = "insert" <=> call[d].pc = "insert"
      BY <2>1, <2>2, <1>0, <1>i
    <3>2. \A d \in Callers : call[d].pc = "insert" => call'[d] = call[d] /\ call[d].job # j
      BY <2>1, <2>2, <2>5, <1>0 DEF OneOwner
    <3>3. j \in minted /\ minted \subseteq Jobs
      BY <2>1, <2>5 DEF OneOwner, TypeOK
    <3>4. Spent' = Spent \cup {j}
      BY <2>1, <2>3, <3>1, <3>2, <3>3 DEF Spent
    <3>5. Ledger!Delete(j)
      BY <2>1, <2>2, <2>5, <3>4, <1>r DEF Ledger!Delete, Ledger!Present, Present
    <3> QED BY <2>1, <3>5 DEF AbsStep, Ledger!AbsNext
  <2>6. CASE ~Present(j)
    <3>1. UNCHANGED db
      BY <2>1, <2>2, <2>6 DEF Present, TypeOK
    <3> QED BY <2>1, <2>2, <3>1, <1>i, <1>s, SpentSame DEF Present
  <2> QED BY <2>5, <2>6
<1> QED BY <1>1, <1>2, <1>3, <1>4, <1>5, <1>6, <1>7, <1>8 DEF CallStep

\* A report seen from the ledger is the same update of the same table.
LEMMA ReportedAbs ==
    ASSUME NEW j \in Jobs, NEW st, db' = Reported(j, st)
    PROVE  Ledger!Report(j, st)
BY DEF Reported, Ledger!Report, Ledger!Present, Present

\* The entry of _execute_job begins a run of an enabled row, refuses one
\* with a status, or does nothing.
LEMMA SimulateEnter ==
    ASSUME LedgerInv, NEW r \in Runs, run[r] \in {"idle", "queued"}, Enter(r),
           UNCHANGED <<aps, clock, minted, call>>, Spent' = Spent
    PROVE  AbsStep
<1> USE DEF LedgerInv
<1>j. r[2] \in Jobs
  BY RunJob
<1>1. CASE Active(r[2]) /\ (\E st \in {"init", "chat"} : run' = [run EXCEPT ![r] = st]) /\ UNCHANGED db
  <2>1. Begun' = Begun \cup {r}
    BY <1>1 DEF Begun, TypeOK
  <2>2. Ledger!Begin(r)
    BY <1>1, <2>1 DEF Ledger!Begin, Ledger!Present, Active, Present
  <2> QED BY <2>2 DEF AbsStep, Ledger!AbsNext
<1>2. CASE Active(r[2]) /\ run' = [run EXCEPT ![r] = "idle"] /\ db' = Reported(r[2], "error")
  <2>1. Begun' = Begun
    BY <1>2 DEF Begun, TypeOK
  <2>2. Ledger!Refuse(r[2])
    BY <1>2, <1>j, <2>1, ReportedAbs DEF Ledger!Refuse, Ledger!Present, Active, Present
  <2> QED BY <2>2, <1>j DEF AbsStep, Ledger!AbsNext
<1>3. CASE run' = [run EXCEPT ![r] = "idle"] /\ UNCHANGED db
  <2>1. Begun' = Begun
    BY <1>3 DEF Begun, TypeOK
  <2> QED BY <1>3, <2>1 DEF AbsStep, Ledger!absVars
<1> QED BY <1>1, <1>2, <1>3 DEF Enter

\* A run that has begun goes on, or ends with or without a report.
LEMMA SimulateEnd ==
    ASSUME LedgerInv, NEW r \in Runs, Spent' = Spent,
           NEW st \in {"idle", "queued", "init", "chat", "deliver"},
           run' = [run EXCEPT ![r] = st],
           run[r] \in {"init", "chat", "deliver"},
           \/ st \in {"init", "chat", "deliver"} /\ UNCHANGED db
           \/ /\ st = "idle"
              /\ UNCHANGED db \/ \E o \in {"success", "error"} : db' = Reported(r[2], o)
    PROVE  AbsStep
<1> USE DEF LedgerInv
<1>1. CASE st \in {"init", "chat", "deliver"} /\ UNCHANGED db
  <2>1. Begun' = Begun
    BY <1>1 DEF Begun, TypeOK
  <2> QED BY <1>1, <2>1 DEF AbsStep, Ledger!absVars
<1>2. CASE /\ st = "idle"
           /\ UNCHANGED db \/ \E o \in {"success", "error"} : db' = Reported(r[2], o)
  <2>1. Begun' = Begun \ {r} /\ r \in Begun
    BY <1>2 DEF Begun, TypeOK
  <2>2. UNCHANGED db \/ \E o \in {"success", "error"} : Ledger!Report(r[2], o)
    BY <1>2, RunJob, ReportedAbs
  <2>3. Ledger!End(r)
    BY <2>1, <2>2 DEF Ledger!End
  <2> QED BY <2>3 DEF AbsStep, Ledger!AbsNext
<1> QED BY <1>1, <1>2

\* The loop's steps change no call and no row's presence.
LEMMA SpentRun ==
    ASSUME TypeOK, UNCHANGED <<minted, call>>, \A j \in Jobs : Present(j)' <=> Present(j)
    PROVE  Spent' = Spent
BY DEF Spent, TypeOK

\* Each step of a run is a step of the ledger or leaves it alone.
LEMMA SimulateRun ==
    ASSUME LedgerInv, NEW r \in Runs, RunStep(r) \/ RunFails(r)
    PROVE  AbsStep
<1> USE DEF LedgerInv
<1>0. Spent' = Spent
  BY OwnerRun, RunWrites, SpentRun DEF RunAct
<1>1. CASE StartRun(r)
  BY <1>0, <1>1, SimulateEnter DEF StartRun
<1>2. CASE InitDone(r)
  BY <1>0, <1>2, SimulateEnd DEF InitDone
<1>3. CASE ChatDone(r)
  BY <1>0, <1>3, SimulateEnd DEF ChatDone
<1>4. CASE DeliverDone(r)
  BY <1>0, <1>4, SimulateEnd DEF DeliverDone
<1>5. CASE RunFails(r)
  <2>1. CASE run[r] = "queued"
    <3>1. Begun' = Begun
      BY <1>5, <2>1 DEF RunFails, Begun, TypeOK
    <3> QED BY <1>0, <1>5, <3>1 DEF RunFails, AbsStep, Ledger!absVars
  <2>2. CASE run[r] # "queued"
    BY <1>0, <1>5, <2>2, SimulateEnd DEF RunFails, TypeOK
  <2> QED BY <2>1, <2>2
<1> QED BY <1>1, <1>2, <1>3, <1>4, <1>5 DEF RunStep

\* Each step of the program is a step of the ledger or leaves it alone.
LEMMA Simulation == LedgerInv /\ LedgerInv' /\ [Next]_vars => AbsStep
<1> SUFFICES ASSUME LedgerInv, LedgerInv', [Next]_vars PROVE AbsStep
  OBVIOUS
<1> USE DEF LedgerInv
<1>1. ASSUME NEW j \in Jobs, FireOnce(j) \/ FireRecurring(j) PROVE AbsStep
  <2>1. UNCHANGED <<db, minted, call>> /\ Begun' = Begun
    BY <1>1 DEF FireOnce, FireRecurring, Begun, TypeOK
  <2> QED BY <2>1, SpentRun DEF AbsStep, Ledger!absVars, Present
<1>2. ASSUME NEW j \in Jobs, TriggerJob(j) PROVE AbsStep
  <2>1. <<"manual", j>> \in Runs
    BY DEF Runs
  <2>2. Spent' = Spent
    BY <1>2, <2>1, OwnerRun, RunWrites, SpentRun DEF TriggerJob, RunAct
  <2> QED BY <1>2, <2>1, <2>2, SimulateEnter DEF TriggerJob
<1>3. ASSUME NEW d \in Dates, Tick(d) PROVE AbsStep
  BY <1>3, SpentRun DEF Tick, Present, Begun, AbsStep, Ledger!absVars
<1>4. CASE Restart
  <2>1. Begun' = {}
    BY <1>4 DEF Restart, Begun
  <2>2. Spent' = {j \in minted : ~Present(j)}
    BY <1>4 DEF Restart, Spent, Present, Idle
  <2>3. Ledger!Reset
    BY <1>4, <2>1, <2>2 DEF Restart, Spent, Ledger!Reset, Ledger!Present, Present, TypeOK
  <2> QED BY <2>3 DEF AbsStep, Ledger!AbsNext
<1>5. CASE UNCHANGED vars
  BY <1>5 DEF vars, Spent, Begun, Present, AbsStep, Ledger!absVars
<1> QED BY <1>1, <1>2, <1>3, <1>4, <1>5, SimulateCaller, SimulateRun DEF Next

\* CronScheduler implements ScheduledJobs: whatever the threads, the timers,
\* the database errors and the restarts do, a run begins only for a row that
\* is enabled then, its end touches at most the status of a row that is still
\* there, and no id is used twice.
THEOREM ImplementsLedger == Spec => JobLedger
<1>1. Init => Ledger!AbsInit
  BY DEF Init, Ledger!AbsInit, Spent, Begun
<1>2. LedgerInv /\ LedgerInv' /\ [Next]_vars => [Ledger!AbsNext]_(Ledger!absVars)
  BY Simulation DEF AbsStep
<1> QED BY <1>1, <1>2, LedgerInvariant, PTL DEF Spec, JobLedger, Ledger!AbsSpec
-----------------------------------------------------------------------------
(* Calls one at a time *)

\* The inductive invariant of calls one at a time.
SeqInv == TypeOK /\ SequentialInv

\* A status report leaves presence, switch and schedule alone.
LEMMA ReportedKeeps ==
    ASSUME TypeOK, NEW j \in Jobs, NEW st \in Status, db' = Reported(j, st)
    PROVE  \A i \in Jobs : /\ Present(i)' <=> Present(i)
                           /\ Active(i)' <=> Active(i)
                           /\ Present(i) => db'[i].sched = db[i].sched
<1>1. \A i \in Jobs : Present(i)' <=> Present(i)
  BY ReportedPresent
<1>2. \A i \in Jobs : Present(i) => db'[i].enabled = db[i].enabled /\ db'[i].sched = db[i].sched
  BY DEF Reported, Present, TypeOK, Row
<1>3. \A i \in Jobs : Active(i)' <=> Active(i)
  BY <1>1, <1>2 DEF Active
<1> QED BY <1>1, <1>2, <1>3

\* A job keeps in step through a step that leaves its row's schedule and
\* switch, its timer and the dates alone.
LEMMA StaysInStep ==
    ASSUME NEW j \in Jobs, InStep(j), aps'[j] = aps[j],
           Active(j)' <=> Active(j), Active(j) => db'[j].sched = db[j].sched,
           \A d \in Dates : clock'[d] = "future" => clock[d] = "future"
    PROVE  InStep(j)'
BY DEF InStep

\* The loop goes on with its call, or returns leaving its job in step.
LEMMA SeqMove ==
    ASSUME SeqInv, NEW k, Goto(Loop, k), NEW j \in minted, UNCHANGED <<clock, minted>>,
           call[Loop] # Idle => call[Loop].job = j,
           \A m \in Jobs : m # j => db'[m] = db[m] /\ aps'[m] = aps[m],
           OnItsWay(k)', k # Idle => k.job = j, k = Idle => InStep(j)'
    PROVE  SequentialInv'
<1>1. call'[Loop] = k
  BY DEF Goto, SeqInv, TypeOK, Callers
<1>2. \A m \in Jobs : m # j => InStep(m)'
  BY StaysInStep DEF SeqInv, SequentialInv, Active, Present
<1>3. \A m \in Jobs \ minted' : ~Present(m)' /\ (aps[m] = NoSched)'
  BY DEF SeqInv, SequentialInv, Present
<1>4. OnItsWay(call[Loop])'
  BY <1>1 DEF OnItsWay, Present
<1>5. \A m \in Jobs : InStep(m)' \/ (call'[Loop] # Idle /\ call'[Loop].job = m)
  BY <1>1, <1>2
<1> QED BY <1>3, <1>4, <1>5 DEF SequentialInv

\* Each step of the one call in progress leaves its job on its way to
\* agreement, and the last one in agreement.
LEMMA SeqCaller ==
    ASSUME Workers = {}, SeqInv,
           \/ AddSchedule(Loop) \/ UpdateLoad(Loop) \/ RemoveCheck(Loop) \/ CallStep(Loop)
    PROVE  SequentialInv'
<1> USE DEF SeqInv
<1>k. PICK k : k = call[Loop]
  OBVIOUS
<1>j. PICK j : j = k.job
  OBVIOUS
<1> USE <1>k, <1>j
<1>t. k \in Call
  BY DEF TypeOK, Callers
<1>m. \A m \in Jobs : Present(m) \/ aps[m] # NoSched => m \in minted
  BY DEF SequentialInv
<1>w. OnItsWay(k)
  BY DEF SequentialInv
<1>1. CASE AddSchedule(Loop)
  <2>1. PICK i \in Jobs \ minted, s \in WellFormed :
          /\ minted' = minted \cup {i}
          /\ aps' = [aps EXCEPT ![i] = s]
          /\ Goto(Loop, [pc |-> "insert", job |-> i, sched |-> s])
    BY <1>1 DEF AddSchedule
  <2> DEFINE n == [pc |-> "insert", job |-> i, sched |-> s]
  <2>2. UNCHANGED <<db, clock>> /\ call[Loop] = Idle
    BY <1>1 DEF AddSchedule
  <2>3. \A m \in Jobs \ minted' : ~Present(m)' /\ (aps[m] = NoSched)'
    BY <2>1, <2>2 DEF SequentialInv, Present, TypeOK
  <2>4. \A m \in Jobs : m # i => InStep(m)'
    BY <2>1, <2>2, StaysInStep DEF SequentialInv, Active, Present, TypeOK
  <2>5. call'[Loop] = n /\ n # Idle /\ n.job = i
    BY <2>1 DEF Goto, TypeOK, Callers, Idle
  <2>6. ~Present(i)' /\ aps'[i] = s
    BY <2>1, <2>2 DEF SequentialInv, Present, TypeOK
  <2>7. OnItsWay(call[Loop])'
    BY <2>5, <2>6 DEF OnItsWay, Present
  <2> QED BY <2>3, <2>4, <2>5, <2>7 DEF SequentialInv
<1>2. CASE UpdateLoad(Loop)
  <2>1. PICK i \in Jobs, ch \in Change :
          Present(i) /\ Goto(Loop, [pc |-> "commit", job |-> i, asked |-> ch.enabled,
                      change |-> [sched |-> Modified(ch.sched, db[i].sched),
                                  enabled |-> Modified(ch.enabled, db[i].enabled)]])
    BY <1>2 DEF UpdateLoad
  <2>2. UNCHANGED <<db, aps, clock, minted>> /\ call[Loop] = Idle
    BY <1>2 DEF UpdateLoad
  <2> QED BY <2>1, <2>2, <1>m, SeqMove DEF OnItsWay, Present, Idle
<1>3. CASE RemoveCheck(Loop)
  <2>1. PICK i \in Jobs : Present(i) /\ Goto(Loop, [pc |-> "remove", job |-> i])
    BY <1>3 DEF RemoveCheck
  <2>2. UNCHANGED <<db, aps, clock, minted>> /\ call[Loop] = Idle
    BY <1>3 DEF RemoveCheck
  <2> QED BY <2>1, <2>2, <1>m, SeqMove DEF OnItsWay, Present, Idle
<1>4. CASE AddInsert(Loop)
  <2>1. /\ j \in Jobs /\ k.sched \in WellFormed /\ k # Idle /\ aps[j] = k.sched
        /\ j \in minted /\ UNCHANGED <<aps, clock, minted>> /\ Goto(Loop, Idle)
    BY <1>4, <1>t, <1>w, <1>m DEF AddInsert, Return, Call, Idle, OnItsWay, WellFormed
  <2> DEFINE new == [sched |-> k.sched, enabled |-> TRUE, status |-> "none"]
  <2>2. new \in Row /\ db' = [db EXCEPT ![j] = new]
    BY <1>4, <2>1 DEF AddInsert, Row, Status, Sched
  <2>3. InStep(j)'
    BY <2>1, <2>2, RowAssumption DEF InStep, Active, Present, TypeOK
  <2>4. OnItsWay(Idle)'
    BY DEF OnItsWay, Idle
  <2> HIDE DEF new
  <2> QED BY <2>1, <2>2, <2>3, <2>4, SeqMove DEF TypeOK
<1>5. CASE UpdateCommit(Loop)
  <2>1. /\ j \in Jobs /\ k.change \in Change /\ k # Idle /\ Present(j) /\ j \in minted
        /\ UNCHANGED <<aps, clock, minted>>
    BY <1>5, <1>t, <1>w, <1>m DEF UpdateCommit, Call, Idle, OnItsWay
  <2>2. /\ db' = [db EXCEPT ![j] = Written(@, k.change)]
        /\ Goto(Loop, [pc |-> "refresh", job |-> j])
    BY <1>5, <2>1 DEF UpdateCommit
  <2>3. Present(j)'
    BY <2>1, <2>2, WrittenTyped, RowAssumption DEF Present, TypeOK
  <2> QED BY <2>1, <2>2, <2>3, SeqMove DEF OnItsWay, Present, Idle, TypeOK
<1>6. CASE UpdateRefresh(Loop)
  <2>1. /\ j \in Jobs /\ k # Idle /\ Present(j) /\ j \in minted
        /\ UNCHANGED <<db, aps, clock, minted>>
    BY <1>6, <1>t, <1>w, <1>m DEF UpdateRefresh, Call, Idle, OnItsWay
  <2>2. Goto(Loop, [pc |-> "unschedule", job |-> j, enabled |-> db[j].enabled])
    BY <1>6, <2>1 DEF UpdateRefresh
  <2> QED BY <2>1, <2>2, SeqMove DEF OnItsWay, Present, Idle
<1>7. CASE UpdateUnschedule(Loop)
  <2>1. /\ j \in Jobs /\ k # Idle /\ Present(j) /\ j \in minted
        /\ db[j].enabled = k.enabled /\ k.enabled \in BOOLEAN
        /\ UNCHANGED <<db, clock, minted>> /\ aps' = [aps EXCEPT ![j] = NoSched]
    BY <1>7, <1>t, <1>w, <1>m DEF UpdateUnschedule, Call, Idle, OnItsWay
  <2>2. CASE k.enabled
    <3>1. Goto(Loop, [pc |-> "reread", job |-> j])
      BY <1>7, <2>2 DEF UpdateUnschedule
    <3>2. Present(j)' /\ db'[j].enabled /\ aps'[j] = NoSched
      BY <2>1, <2>2 DEF Present, TypeOK
    <3>3. \A m \in Jobs : m # j => db'[m] = db[m] /\ aps'[m] = aps[m]
      BY <2>1 DEF TypeOK
    <3>4. OnItsWay([pc |-> "reread", job |-> j])'
      BY <3>2 DEF OnItsWay
    <3> QED BY <2>1, <3>1, <3>3, <3>4, SeqMove DEF Idle
  <2>3. CASE ~k.enabled
    <3>1. Goto(Loop, Idle)
      BY <1>7, <2>3 DEF UpdateUnschedule, Return
    <3>2. InStep(j)'
      BY <2>1, <2>3 DEF InStep, Active, Present, TypeOK
    <3> QED BY <2>1, <3>1, <3>2, SeqMove DEF OnItsWay, Present, Idle, TypeOK
  <2> QED BY <2>2, <2>3
<1>8. CASE UpdateReread(Loop)
  <2>1. /\ j \in Jobs /\ k # Idle /\ Present(j) /\ j \in minted
        /\ db[j].enabled /\ aps[j] = NoSched
        /\ UNCHANGED <<db, aps, clock, minted>>
    BY <1>8, <1>t, <1>w, <1>m DEF UpdateReread, Call, Idle, OnItsWay
  <2>2. Goto(Loop, [pc |-> "reschedule", job |-> j, sched |-> db[j].sched])
    BY <1>8, <2>1 DEF UpdateReread
  <2> QED BY <2>1, <2>2, SeqMove DEF OnItsWay, Present, Idle
<1>9. CASE UpdateReschedule(Loop)
  <2>1. /\ j \in Jobs /\ k # Idle /\ Present(j) /\ j \in minted
        /\ db[j].enabled /\ aps[j] = NoSched /\ db[j].sched = k.sched /\ k.sched \in Sched
        /\ UNCHANGED <<db, clock, minted>> /\ Goto(Loop, Idle)
    BY <1>9, <1>t, <1>w, <1>m DEF UpdateReschedule, Return, Call, Idle, OnItsWay
  <2>2. aps' = IF k.sched \in WellFormed THEN [aps EXCEPT ![j] = k.sched] ELSE aps
    BY <1>9 DEF UpdateReschedule
  <2>3. InStep(j)'
    BY <2>1, <2>2 DEF InStep, Active, Present, TypeOK, WellFormed
  <2> QED BY <2>1, <2>2, <2>3, SeqMove DEF OnItsWay, Present, Idle, TypeOK
<1>10. CASE RemoveUnschedule(Loop)
  <2>1. /\ j \in Jobs /\ k # Idle /\ Present(j) /\ j \in minted
        /\ UNCHANGED <<db, clock, minted>> /\ aps' = [aps EXCEPT ![j] = NoSched]
        /\ Goto(Loop, [pc |-> "delete", job |-> j])
    BY <1>10, <1>t, <1>w, <1>m DEF RemoveUnschedule, Call, Idle, OnItsWay
  <2> QED BY <2>1, SeqMove DEF OnItsWay, Present, Idle, TypeOK
<1>11. CASE RemoveDelete(Loop)
  <2>1. /\ j \in Jobs /\ k # Idle /\ j \in minted /\ aps[j] = NoSched
        /\ UNCHANGED <<aps, clock, minted>> /\ db' = [db EXCEPT ![j] = NoRow]
        /\ Goto(Loop, Idle)
    BY <1>11, <1>t, <1>w, <1>m DEF RemoveDelete, Return, Call, Idle, OnItsWay
  <2>2. InStep(j)'
    BY <2>1 DEF InStep, Active, Present, TypeOK
  <2> QED BY <2>1, <2>2, SeqMove DEF OnItsWay, Present, Idle, TypeOK
<1> QED BY <1>1, <1>2, <1>3, <1>4, <1>5, <1>6, <1>7, <1>8, <1>9, <1>10, <1>11 DEF CallStep

\* The runs disturb no agreement: a status is no part of it.
LEMMA SeqRun ==
    ASSUME SeqInv, LoopFree, NEW r \in Runs, RunAct(r)
    PROVE  SequentialInv'
<1> USE DEF SeqInv
<1>1. UNCHANGED <<aps, clock, minted, call>>
  BY DEF RunAct, RunStep, StartRun, InitDone, ChatDone, DeliverDone, RunFails
<1>2. \A i \in Jobs : /\ Present(i)' <=> Present(i)
                      /\ Active(i)' <=> Active(i)
                      /\ Present(i) => db'[i].sched = db[i].sched
  <2>1. CASE UNCHANGED db
    BY <2>1 DEF Active, Present
  <2>2. ASSUME NEW st \in {"success", "error"}, db' = Reported(r[2], st)
        PROVE  \A i \in Jobs : /\ Present(i)' <=> Present(i)
                               /\ Active(i)' <=> Active(i)
                               /\ Present(i) => db'[i].sched = db[i].sched
    BY <2>2, RunJob, ReportedKeeps DEF Status
  <2> QED BY <2>1, <2>2, RunWrites
<1>3. \A i \in Jobs : InStep(i) => InStep(i)'
  BY <1>1, <1>2, StaysInStep DEF Active
<1>4. call[Loop] = Idle
  BY DEF LoopFree
<1>5. \A i \in Jobs \ minted' : ~Present(i)' /\ (aps[i] = NoSched)'
  BY <1>1, <1>2 DEF SequentialInv
<1> QED BY <1>1, <1>3, <1>4, <1>5 DEF SequentialInv, OnItsWay, Idle

\* Every step keeps the sequential invariant.
LEMMA SeqNext ==
    ASSUME Workers = {}, DbFails = FALSE
    PROVE  SeqInv /\ [Next]_vars => SeqInv'
<1> SUFFICES ASSUME SeqInv, [Next]_vars PROVE SequentialInv'
  BY TypeNext DEF SeqInv
<1> USE DEF SeqInv
<1>1. ASSUME NEW j \in Jobs, FireOnce(j) PROVE SequentialInv'
  <2>1. UNCHANGED <<db, clock, minted, call>> /\ aps' = [aps EXCEPT ![j] = NoSched]
    BY <1>1 DEF FireOnce
  <2>2. \A i \in Jobs : InStep(i)
    BY <1>1 DEF FireOnce, LoopFree, SequentialInv
  <2>3. InStep(j)'
    BY <1>1, <2>1, <2>2 DEF FireOnce, InStep, Active, Present, TypeOK
  <2>4. \A i \in Jobs : i # j => InStep(i)'
    BY <2>1, <2>2, StaysInStep DEF Active, Present, TypeOK
  <2>5. \A i \in Jobs \ minted' : ~Present(i)' /\ (aps[i] = NoSched)'
    BY <2>1 DEF SequentialInv, Present, TypeOK
  <2> QED BY <1>1, <2>1, <2>3, <2>4, <2>5 DEF FireOnce, LoopFree, SequentialInv, OnItsWay, Idle
<1>2. ASSUME UNCHANGED <<db, aps, minted, call>>,
             \A d \in Dates : clock'[d] = "future" => clock[d] = "future"
      PROVE  SequentialInv'
  <2>1. \A i \in Jobs : InStep(i) => InStep(i)'
    BY <1>2, StaysInStep DEF Active, Present
  <2> QED BY <1>2, <2>1 DEF SequentialInv, OnItsWay, Present
<1>3. ASSUME NEW j \in Jobs, FireRecurring(j) PROVE SequentialInv'
  BY <1>2, <1>3 DEF FireRecurring
<1>4. ASSUME NEW j \in Jobs, TriggerJob(j) PROVE SequentialInv'
  <2>1. <<"manual", j>> \in Runs
    BY DEF Runs
  <2> QED BY <1>4, <2>1, SeqRun DEF TriggerJob, RunAct
<1>5. ASSUME NEW r \in Runs, RunStep(r) PROVE SequentialInv'
  BY <1>5, SeqRun DEF RunAct, RunStep, StartRun, InitDone, ChatDone, DeliverDone
<1>6. ASSUME NEW d \in Dates, Tick(d) PROVE SequentialInv'
  BY <1>2, <1>6 DEF Tick, TypeOK
<1>7. CASE Restart
  <2>1. \A i \in Jobs : InStep(i)'
    BY <1>7 DEF Restart, LoadJobs, InStep, Active, Present, TypeOK, WellFormed
  <2>2. \A i \in Jobs \ minted' : ~Present(i)' /\ (aps[i] = NoSched)'
    BY <1>7 DEF Restart, LoadJobs, Active, Present, SequentialInv
  <2> QED BY <1>7, <2>1, <2>2 DEF Restart, SequentialInv, OnItsWay, Idle, Callers
<1>8. CASE UNCHANGED vars
  BY <1>2, <1>8 DEF vars
<1>9. ASSUME NEW c \in Callers,
             \/ AddSchedule(c) \/ UpdateLoad(c) \/ RemoveCheck(c)
             \/ CallStep(c) \/ CallerFails(c)
      PROVE  SequentialInv'
  BY <1>9, SeqCaller DEF Callers, CallerFails
<1> QED BY <1>1, <1>3, <1>4, <1>5, <1>6, <1>7, <1>8, <1>9 DEF Next, RunFails

\* When the operations are called one at a time and no database access
\* fails, APScheduler and the table agree between any two calls: a paused or
\* deleted job has no timer, an enabled well-formed one has the right timer.
THEOREM SequentialCoherence ==
    ASSUME Workers = {}, DbFails = FALSE
    PROVE  Spec => []Coherent
<1>1. Init => SeqInv
  BY TypeInit DEF SeqInv, SequentialInv, Init, InStep, Active, Present, OnItsWay, Idle, Callers
<1>2. SeqInv /\ [Next]_vars => SeqInv'
  BY SeqNext
<1>3. SeqInv => Coherent
  BY DEF SeqInv, SequentialInv, Coherent, Settled, Callers
<1> QED BY <1>1, <1>2, <1>3, PTL DEF Spec

\* After any history of threads, failures and crashes, a restart leaves
\* APScheduler holding exactly the jobs the table says should run.
THEOREM RestartsRepair == Spec => RestartRepairs
<1>1. TypeOK /\ Restart => Coherent'
  BY DEF Restart, LoadJobs, InStep, Active, Present, TypeOK, WellFormed, Coherent
<1>2. TypeOK /\ [Next]_vars => [Restart => Coherent']_vars
  BY <1>1
<1> QED BY <1>2, TypeCorrect, PTL DEF Spec, RestartRepairs
-----------------------------------------------------------------------------
(* Changes of "enabled" *)

\* A commit in progress writes to "enabled" what its caller asked for, if it
\* writes the column at all.
Asked ==
    \A c \in Callers :
        call[c].pc = "commit" => call[c].change.enabled \in {Keep, call[c].asked}

\* Only update_job's load makes such a call, and it keeps what was asked.
LEMMA AskedNext == TypeOK /\ Asked /\ [Next]_vars => Asked'
<1> SUFFICES ASSUME TypeOK, Asked, [Next]_vars PROVE Asked'
  OBVIOUS
<1>1. ASSUME NEW c \in Callers, NEW k, Goto(c, k),
             k.pc = "commit" => k.change.enabled \in {Keep, k.asked}
      PROVE  Asked'
  BY <1>1 DEF Goto, Asked, TypeOK
<1>2. ASSUME NEW c \in Callers, UpdateLoad(c) PROVE Asked'
  BY <1>1, <1>2 DEF UpdateLoad, Modified
<1>3. ASSUME NEW c \in Callers,
             AddSchedule(c) \/ RemoveCheck(c) \/ CallerFails(c) \/ CallStep(c)
      PROVE  Asked'
  <2>1. CASE AddSchedule(c) \/ RemoveCheck(c) \/ CallerFails(c)
    BY <1>1, <2>1 DEF AddSchedule, RemoveCheck, CallerFails, Return, Idle
  <2>2. CASE AddInsert(c) \/ UpdateCommit(c) \/ UpdateRefresh(c)
    BY <1>1, <2>2 DEF AddInsert, UpdateCommit, UpdateRefresh, Return, Idle
  <2>3. CASE UpdateUnschedule(c) \/ UpdateReread(c) \/ UpdateReschedule(c)
    BY <1>1, <2>3 DEF UpdateUnschedule, UpdateReread, UpdateReschedule, Return, Idle
  <2>4. CASE RemoveUnschedule(c) \/ RemoveDelete(c)
    BY <1>1, <2>4 DEF RemoveUnschedule, RemoveDelete, Return, Idle
  <2> QED BY <1>3, <2>1, <2>2, <2>3, <2>4 DEF CallStep
<1>4. ASSUME UNCHANGED call PROVE Asked'
  BY <1>4 DEF Asked
<1>5. ASSUME NEW j \in Jobs, FireOnce(j) \/ FireRecurring(j) \/ TriggerJob(j) PROVE Asked'
  BY <1>4, <1>5 DEF FireOnce, FireRecurring, TriggerJob
<1>6. ASSUME NEW r \in Runs, RunStep(r) \/ RunFails(r) PROVE Asked'
  BY <1>4, <1>6 DEF RunStep, StartRun, InitDone, ChatDone, DeliverDone, RunFails
<1>7. ASSUME NEW d \in Dates, Tick(d) PROVE Asked'
  BY <1>4, <1>7 DEF Tick
<1>8. CASE Restart
  BY <1>8 DEF Restart, Asked, Idle
<1>9. CASE UNCHANGED vars
  BY <1>4, <1>9 DEF vars
<1> QED BY <1>2, <1>3, <1>5, <1>6, <1>7, <1>8, <1>9 DEF Next

\* Rows change in three steps of the callers and in the reports of runs, and
\* of these only the commit touches the switch of a row that is there.
LEMMA SwitchedByCommit ==
    ASSUME LedgerInv, LedgerInv', Asked, Next, NEW j \in Jobs,
           Present(j), Present(j)', db'[j].enabled # db[j].enabled
    PROVE  \E c \in Callers : call[c].pc = "commit" /\ call[c].asked = db'[j].enabled
<1> USE DEF LedgerInv
<1>1. ASSUME NEW c \in Callers, UpdateCommit(c)
      PROVE  call[c].pc = "commit" /\ call[c].asked = db'[j].enabled
  <2>1. /\ call[c].pc = "commit" /\ Present(call[c].job)
        /\ db' = [db EXCEPT ![call[c].job] = Written(@, call[c].change)]
    BY <1>1 DEF UpdateCommit
  <2>2. j = call[c].job
    BY <2>1 DEF TypeOK
  <2>3. db'[j] = Written(db[j], call[c].change)
    BY <2>1, <2>2 DEF TypeOK
  <2>4. db[j] \in Row
    BY DEF Present, TypeOK
  <2>5. db'[j].enabled = IF call[c].change.enabled = Keep THEN db[j].enabled
                                                          ELSE call[c].change.enabled
    BY <2>3, <2>4 DEF Written, Row
  <2> QED BY <2>1, <2>5 DEF Asked
<1>2. ASSUME NEW c \in Callers,
             \/ AddSchedule(c) \/ UpdateLoad(c) \/ RemoveCheck(c) \/ CallerFails(c)
             \/ UpdateRefresh(c) \/ UpdateUnschedule(c) \/ UpdateReread(c)
             \/ UpdateReschedule(c) \/ RemoveUnschedule(c)
      PROVE  UNCHANGED db
  BY <1>2 DEF AddSchedule, UpdateLoad, RemoveCheck, CallerFails, UpdateRefresh,
              UpdateUnschedule, UpdateReread, UpdateReschedule, RemoveUnschedule
<1>3. ASSUME NEW c \in Callers, RemoveDelete(c) PROVE db'[j] = db[j]
  BY <1>3 DEF RemoveDelete, Present, TypeOK
<1>4. ASSUME NEW c \in Callers, AddInsert(c) PROVE db'[j] = db[j]
  <2>1. call[c].job # j
    BY <1>4 DEF AddInsert, OneOwner
  <2> QED BY <1>4, <2>1 DEF AddInsert, TypeOK
<1>5. ASSUME NEW r \in Runs, RunAct(r) PROVE FALSE
  <2>1. CASE UNCHANGED db
    BY <2>1
  <2>2. ASSUME NEW st \in {"success", "error"}, db' = Reported(r[2], st) PROVE FALSE
    <3>1. Active(j)' <=> Active(j)
      BY <2>2, RunJob, ReportedKeeps DEF Status
    <3>2. db[j] \in Row /\ db'[j] \in Row
      BY DEF Present, TypeOK
    <3> QED BY <3>1, <3>2 DEF Active, Row
  <2> QED BY <1>5, <2>1, <2>2, RunWrites
<1>6. ASSUME NEW i \in Jobs, TriggerJob(i) PROVE FALSE
  <2>1. <<"manual", i>> \in Runs
    BY DEF Runs
  <2> QED BY <1>5, <1>6, <2>1 DEF TriggerJob, RunAct
<1>7. ASSUME NEW i \in Jobs, FireOnce(i) \/ FireRecurring(i) PROVE UNCHANGED db
  BY <1>7 DEF FireOnce, FireRecurring
<1>8. ASSUME NEW r \in Runs, RunStep(r) \/ RunFails(r) PROVE FALSE
  BY <1>5, <1>8 DEF RunAct
<1>9. (\E d \in Dates : Tick(d)) \/ Restart => UNCHANGED db
  BY DEF Tick, Restart
<1> QED
  BY <1>1, <1>2, <1>3, <1>4, <1>6, <1>7, <1>8, <1>9 DEF Next, CallStep

\* A pause or a resume is undone only by a caller that asked for it: an
\* update of another column, loaded before it and committed after it, leaves
\* the switch as it finds it.
THEOREM NoPauseLost == Spec => NoLostPause
<1>1. Init => Asked
  BY DEF Init, Asked, Idle
<1>2. LedgerInv => TypeOK
  BY DEF LedgerInv
<1>3. LedgerInv /\ LedgerInv' /\ Asked /\ [Next]_vars
      => [\A j \in Jobs :
            Present(j) /\ Present(j)' /\ db'[j].enabled # db[j].enabled
            => \E c \in Callers : /\ call[c].pc = "commit"
                                  /\ call[c].asked = db'[j].enabled]_vars
  BY SwitchedByCommit
<1> QED BY <1>1, <1>2, <1>3, LedgerInvariant, AskedNext, PTL DEF Spec, NoLostPause
=============================================================================
