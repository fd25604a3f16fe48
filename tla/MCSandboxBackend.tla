-------------------------- MODULE MCSandboxBackend --------------------------
(***************************************************************************)
(* SandboxBackend and Backups for TLC: in each behaviour of MachineSpec    *)
(* one of them runs and the other rests.                                   *)
(***************************************************************************)
EXTENDS SandboxBackend, Backups, TLC

VARIABLE part

machineVars == <<part, sandboxVars, backupVars>>

MachineInit == part \in {"sandbox", "backups"} /\ SandboxInit /\ BackupsInit

SandboxRuns == part = "sandbox" /\ SandboxNext /\ UNCHANGED <<part, backupVars>>
BackupsRun == part = "backups" /\ BackupsNext /\ UNCHANGED <<part, sandboxVars>>

MachineSpec == MachineInit /\ [][SandboxRuns \/ BackupsRun]_machineVars

\* Bound: left out is what happens once the files have been harmed in two ways,
\* and once a backup is no longer beside another job.
HarmedOnce ==
    /\ \E harm \in {"failed", "skipped", "overlap"} : missed \subseteq {harm}
    /\ "overlap" \in missed => \E w \in Jobbers : BackingUp(w) /\ OthersBusy(w)

\* Threads, timers and sandboxes are interchangeable.
Symmetry == UNION {Permutations(s) : s \in {Threads, Timers, VMs, Sandboxes}}
=============================================================================
