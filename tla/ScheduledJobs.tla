--------------------------- MODULE ScheduledJobs ---------------------------
(***************************************************************************)
(* What the scheduled-job subsystem promises to the owner of a job,        *)
(* whatever threads, timers, database failures and restarts lie            *)
(* underneath: a job id is created at most once and never comes back; a    *)
(* run begins only for a row that is enabled at that moment; the end of a  *)
(* run reports a status on the row if the row is still there and never     *)
(* touches what the owner set.  CronScheduler implements this module.      *)
(***************************************************************************)
CONSTANTS Jobs,      \* job ids
          Sched,     \* schedules a row can hold
          NoRow,     \* the value of a row that is not in the table
          Runs       \* identities of runs: <<kind, job>>

VARIABLES rows,      \* the scheduled_jobs table
          retired,   \* ids that will never have a row again
          running    \* runs that have begun and not ended

absVars == <<rows, retired, running>>

Status == {"none", "success", "error"}
Row == [sched: Sched, enabled: BOOLEAN, status: Status]

Present(j) == rows[j] # NoRow

AbsInit ==
    /\ rows = [j \in Jobs |-> NoRow]
    /\ retired = {}
    /\ running = {}

Create(j) ==
    /\ ~Present(j) /\ j \notin retired
    /\ \E s \in Sched :
        rows' = [rows EXCEPT ![j] = [sched |-> s, enabled |-> TRUE, status |-> "none"]]
    /\ UNCHANGED <<retired, running>>

\* A creation that failed after its id was generated: the id is spent.
GiveUp(j) ==
    /\ ~Present(j)
    /\ retired' = retired \cup {j}
    /\ UNCHANGED <<rows, running>>

\* The owner reschedules, pauses or resumes: the status column stays.
Amend(j) ==
    /\ Present(j)
    /\ \E s \in Sched, e \in BOOLEAN :
        rows' = [rows EXCEPT ![j] = [@ EXCEPT !.sched = s, !.enabled = e]]
    /\ UNCHANGED <<retired, running>>

Delete(j) ==
    /\ Present(j)
    /\ rows' = [rows EXCEPT ![j] = NoRow]
    /\ retired' = retired \cup {j}
    /\ UNCHANGED running

Report(j, st) ==
    rows' = IF Present(j) THEN [rows EXCEPT ![j] = [@ EXCEPT !.status = st]] ELSE rows

Begin(r) ==
    /\ Present(r[2]) /\ rows[r[2]].enabled
    /\ running' = running \cup {r}
    /\ UNCHANGED <<rows, retired>>

\* A run whose agent is missing fails before it begins.
Refuse(j) ==
    /\ Present(j) /\ rows[j].enabled
    /\ Report(j, "error")
    /\ UNCHANGED <<retired, running>>

End(r) ==
    /\ r \in running
    /\ running' = running \ {r}
    /\ \/ \E st \in {"success", "error"} : Report(r[2], st)
       \/ UNCHANGED rows
    /\ UNCHANGED retired

\* A restart ends every run and every creation in progress.
Reset ==
    /\ running' = {}
    /\ retired \subseteq retired'
    /\ \A j \in retired' : j \in Jobs /\ ~Present(j)
    /\ UNCHANGED rows

AbsNext ==
    \/ \E j \in Jobs : Create(j) \/ GiveUp(j) \/ Amend(j) \/ Delete(j) \/ Refuse(j)
    \/ \E r \in Runs : Begin(r) \/ End(r)
    \/ Reset

AbsSpec == AbsInit /\ [][AbsNext]_absVars
=============================================================================
