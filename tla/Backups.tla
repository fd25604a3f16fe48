------------------------------ MODULE Backups ------------------------------
(***************************************************************************)
(* core/r2_storage.py with backup_to_r2 and restore_from_r2 of             *)
(* core/e2b_backend.py: the files of an agent's sandboxes and the copies   *)
(* of them in the R2 bucket.  The loop serves the dashboard's endpoints    *)
(* one at a time; the idle timer and the tools have threads of their own,  *)
(* and no lock keeps a backup or a restore of one from those of another.   *)
(* A backup and a restore are the steps at which others can come between;  *)
(* the rest of the backend, which SandboxBackend has in steps, is here at  *)
(* one go.                                                                 *)
(***************************************************************************)
EXTENDS Naturals

CONSTANTS Server,        \* the loop
          Workers,       \* threads of the idle timer and of tools
          Sandboxes,     \* bounds the sandboxes alive or referred to together
          NoBox,
          MaxVersion,    \* bound: changes to the files
          BackupFaults   \* what goes wrong, see below

\* put, get: an archive or a put, a download or an extraction fails.  lose: E2B
\* drops a sandbox.  api: connecting to one that is there, or pausing it, fails.
\* gateway: a 502, 503 or 504 of one that runs.  crash: the process stops
\* unannounced.
ASSUME BackupsAssumption ==
    /\ MaxVersion \in Nat
    /\ NoBox \notin Sandboxes
    /\ Server \notin Workers

Jobbers == {Server} \cup Workers

VARIABLES home,    \* the changes that each sandbox's home directory has
          state,   \* E2B's sandboxes: "off", "running" or "paused"
          held,    \* _sandbox
          kept,    \* _existing_sandbox_id
          changes, \* the changes made so far
          stored,  \* the timestamped archives
          latest,  \* latest.tar.gz and latest.requirements.txt
          acked,   \* all that backup_to_r2 has ever returned a key for
          missed,  \* what has come between the files and their copies
          job      \* the backup or restore that each thread is in

bucket == <<stored, latest, acked>>
backupVars == <<home, state, held, kept, changes, bucket, missed, job>>

\* Every change makes a file of its own, so an archive is the changes it has.
Archive == SUBSET (1..MaxVersion)
NoCopy == {0}              \* no such object in the bucket
Torn == {MaxVersion + 1}   \* what a tar has made of another's file
Copy == Archive \cup {NoCopy, Torn}

NoJob == [pc |-> "none"]
\* pause: the sandbox is paused afterwards, whatever has become of the backup.
\* alone: no other backup has been packing the same sandbox.
Backup == [pc: {"pack"}, sbx: Sandboxes, pause: BOOLEAN, alone: BOOLEAN]
    \cup [pc: {"tar", "latestTar", "req"}, copy: Archive \cup {Torn}, pause: BOOLEAN]
\* boot: at the start of the process, before anything else of the agent.
Restore == [pc: {"start"}, boot: BOOLEAN]
    \cup [pc: {"extract"}, sbx: Sandboxes, copy: Archive \cup {Torn}, boot: BOOLEAN]

\* failed: a restore did.  skipped: a sandbox was created where there was a
\* backup, without a restore.  overlap: a backup went on beside another or
\* beside a restore.
BackupsTypeOK ==
    /\ home \in [Sandboxes -> Archive]
    /\ state \in [Sandboxes -> {"off", "running", "paused"}]
    /\ held \in Sandboxes \cup {NoBox} /\ kept \in Sandboxes \cup {NoBox}
    /\ changes \in 0..MaxVersion
    /\ stored \subseteq Archive
    /\ latest \in [tar: Copy, req: Copy]
    /\ acked \in Archive
    /\ missed \subseteq {"failed", "skipped", "overlap"}
    /\ job \in [Jobbers -> {NoJob} \cup Backup \cup Restore]

RestoreJob(boot) == [pc |-> "start", boot |-> boot]
Booted == [w \in Jobbers |-> IF w = Server THEN RestoreJob(TRUE) ELSE NoJob]

BackupsInit ==
    /\ home = [v \in Sandboxes |-> {}]
    /\ state = [v \in Sandboxes |-> "off"]
    /\ held = NoBox /\ kept = NoBox
    /\ changes = 0
    /\ stored = {}
    /\ latest = [tar |-> NoCopy, req |-> NoCopy]
    /\ acked = {}
    /\ missed = {}
    /\ job = Booted

JobAt(w, pc) == job[w].pc = pc
BackingUp(w) == job[w].pc \in {"pack", "tar", "latestTar", "req"}
Restoring(w) == job[w].pc \in {"start", "extract"}
Up(v) == v # NoBox /\ state[v] = "running"

\* The agent's tools, timer and endpoints come after its start.
Started == Restoring(Server) => ~job[Server].boot
Begin(w, j) == job' = [job EXCEPT ![w] = j]
EndJob(w) == Begin(w, NoJob)

-----------------------------------------------------------------------------
(* The sandbox *)

\* Sandbox.create; a sandbox that a backup or a restore still refers to keeps
\* its name.
NewSandbox(v) ==
    /\ state[v] = "off" /\ \A w \in Jobbers : job[w].pc \in {"pack", "extract"} => job[w].sbx # v
    /\ state' = [state EXCEPT ![v] = "running"]
    /\ home' = [home EXCEPT ![v] = {}]
    /\ held' = v

Gone(v) == IF v = NoBox THEN TRUE ELSE state[v] = "off"

\* _ensure_sandbox: what is held; or, as connect does, what is kept, and where
\* that is gone or cannot be reached, a new sandbox.
EnsureSandbox ==
    \/ held # NoBox /\ UNCHANGED <<home, state, held, kept>>
    \/ /\ held = NoBox /\ ~Gone(kept)
       /\ held' = kept /\ state' = [state EXCEPT ![kept] = "running"]
       /\ UNCHANGED <<home, kept>>
    \/ /\ held = NoBox /\ (Gone(kept) \/ "api" \in BackupFaults)
       /\ \E v \in Sandboxes : NewSandbox(v)
       /\ kept' = IF Gone(kept) THEN NoBox ELSE kept

\* What _ensure_sandbox has created is not restored into.
Skipped == IF held = NoBox /\ state[held'] = "off" /\ latest.tar # NoCopy THEN {"skipped"} ELSE {}
Overlapped(others) == IF others THEN {"overlap"} ELSE {}
OthersBackUp(w) == \E x \in Jobbers \ {w} : BackingUp(x)
OthersBusy(w) == \E x \in Jobbers \ {w} : job[x] # NoJob

\* A call of a tool, or the resume endpoint.
UseSandbox ==
    /\ Started /\ held = NoBox
    /\ EnsureSandbox
    /\ missed' = missed \cup Skipped
    /\ UNCHANGED <<changes, bucket, job>>

WriteFiles ==
    /\ Started /\ Up(held) /\ changes < MaxVersion
    /\ changes' = changes + 1
    /\ home' = [home EXCEPT ![held] = @ \cup {changes'}]
    /\ UNCHANGED <<state, held, kept, bucket, missed, job>>

\* E2B drops a sandbox, running or paused, whatever goes on in it.
LoseSandbox(v) ==
    /\ "lose" \in BackupFaults /\ state[v] # "off"
    /\ state' = [state EXCEPT ![v] = "off"]
    /\ home' = [home EXCEPT ![v] = {}]
    /\ UNCHANGED <<held, kept, changes, bucket, missed, job>>

\* Mutant: the new sandbox is not restored into.
ReconnectOnly(w) ==
    /\ Started /\ job[w] = NoJob
    /\ held # NoBox /\ (Gone(held) \/ "gateway" \in BackupFaults)
    /\ \A x \in Workers : ~Restoring(x)
    /\ \E v \in Sandboxes : NewSandbox(v)
    /\ kept' = NoBox
    /\ UNCHANGED <<changes, bucket, missed, job>>

\* _reconnect_sandbox: a tool that finds its sandbox dead, or takes it for
\* dead, leaves it for a new one and restores into that.
ReconnectSandbox(w) ==
    /\ Started /\ job[w] = NoJob
    /\ held # NoBox /\ (Gone(held) \/ "gateway" \in BackupFaults)
    /\ \A x \in Workers : ~Restoring(x)
    /\ \E v \in Sandboxes : NewSandbox(v)
    /\ kept' = NoBox
    /\ Begin(w, RestoreJob(FALSE))
    /\ missed' = missed \cup Overlapped(OthersBackUp(w))
    /\ UNCHANGED <<changes, bucket>>

\* A new process restores too, into the sandbox that the row names if it is
\* there: that is the one held, one paused before, or none.
BackupRestart ==
    /\ "crash" \in BackupFaults
    /\ held' = NoBox /\ kept' \in {held, kept, NoBox}
    /\ job' = Booted
    /\ UNCHANGED <<home, state, changes, bucket, missed>>
-----------------------------------------------------------------------------
(* backup_to_r2 and upload_backup *)

\* The idle timer, the pause endpoint and the shutdown pause; the backup
\* endpoint does not.  A timer that finds no sandbox goes away.  tar writes
\* to one file of the sandbox, from which the backup then reads: others that
\* pack the same sandbox meanwhile are not alone, nor is this one.
StartBackup(w, pause) ==
    /\ Started /\ job[w] = NoJob
    /\ w \in Workers => held # NoBox /\ pause
    /\ EnsureSandbox
    /\ LET beside == {x \in Jobbers : JobAt(x, "pack") /\ job[x].sbx = held'}
           mine == [pc |-> "pack", sbx |-> held', pause |-> pause, alone |-> beside = {}]
       IN job' = [x \in Jobbers |-> IF x = w THEN mine
                                    ELSE IF x \in beside THEN [job[x] EXCEPT !.alone = FALSE]
                                    ELSE job[x]]
    /\ missed' = missed \cup Skipped \cup Overlapped(OthersBusy(w))
    /\ UNCHANGED <<changes, bucket>>

\* The archive is of one moment's home directory, or of none: two tars at once
\* may leave a torn file, or the last of them a whole one.
Pack(w) ==
    /\ JobAt(w, "pack") /\ Up(job[w].sbx)
    /\ \E copy \in {home[job[w].sbx]} \cup (IF job[w].alone THEN {} ELSE {Torn}) :
        Begin(w, [pc |-> "tar", copy |-> copy, pause |-> job[w].pause])
    /\ UNCHANGED <<home, state, held, kept, changes, bucket, missed>>

\* pause: of the sandbox held by now.  Where that fails the idle timer forgets
\* the sandbox and its identifier, and the endpoint leaves both.
Pause(w) ==
    \/ held = NoBox /\ UNCHANGED <<state, held, kept>>
    \/ /\ Up(held)
       /\ state' = [state EXCEPT ![held] = "paused"]
       /\ kept' = held /\ held' = NoBox
    \/ /\ held # NoBox /\ (~Up(held) \/ "api" \in BackupFaults)
       /\ IF w \in Workers THEN held' = NoBox /\ kept' = NoBox ELSE UNCHANGED <<held, kept>>
       /\ UNCHANGED state
PauseIf(w) == IF job[w].pause THEN Pause(w) ELSE UNCHANGED <<state, held, kept>>

\* Mutant: the pointer is moved first.
PutLatestFirst(w) ==
    /\ JobAt(w, "tar")
    /\ latest' = [latest EXCEPT !.tar = job[w].copy]
    /\ Begin(w, [job[w] EXCEPT !.pc = "latestTar"])
    /\ UNCHANGED <<home, state, held, kept, changes, stored, acked, missed>>

\* The key has the time in seconds: it may be that of a backup beside this one,
\* whose archive is then overwritten.
PutTar(w) ==
    /\ JobAt(w, "tar")
    /\ \E over \in {{}} \cup {{copy} : copy \in stored} :
        /\ over # {} => "overlap" \in missed
        /\ stored' = (stored \ over) \cup ({job[w].copy} \ {Torn})
    /\ Begin(w, [job[w] EXCEPT !.pc = "latestTar"])
    /\ UNCHANGED <<home, state, held, kept, changes, latest, acked, missed>>

BackedUp(w) ==
    /\ acked' = IF job[w].copy = Torn THEN acked ELSE acked \cup job[w].copy
    /\ PauseIf(w)
    /\ EndJob(w)

\* Without packages the requirements of an earlier backup stay.
PutLatestTar(w) ==
    /\ JobAt(w, "latestTar")
    /\ latest' = [latest EXCEPT !.tar = job[w].copy]
    /\ \/ BackedUp(w)
       \/ Begin(w, [job[w] EXCEPT !.pc = "req"]) /\ UNCHANGED <<state, held, kept, acked>>
    /\ UNCHANGED <<home, changes, stored, missed>>

\* Their own key, then the one of the latest.
PutReq(w) ==
    /\ JobAt(w, "req")
    /\ latest' = [latest EXCEPT !.req = job[w].copy]
    /\ BackedUp(w)
    /\ UNCHANGED <<home, changes, stored, missed>>

\* The archive or a put fails: logged, and not tried again.
BackupFails(w) ==
    /\ BackingUp(w)
    /\ "put" \in BackupFaults \/ (JobAt(w, "pack") /\ ~Up(job[w].sbx))
    /\ PauseIf(w)
    /\ EndJob(w)
    /\ UNCHANGED <<home, changes, bucket, missed>>
-----------------------------------------------------------------------------
(* restore_from_r2 and download_latest_backup *)

\* The restore endpoint.
StartRestore ==
    /\ Started /\ job[Server] = NoJob
    /\ Begin(Server, RestoreJob(FALSE))
    /\ missed' = missed \cup Overlapped(OthersBackUp(Server))
    /\ UNCHANGED <<home, state, held, kept, changes, bucket>>

\* Mutant: that there is a backup is taken for granted.
DownloadAny(w) ==
    /\ JobAt(w, "start")
    /\ EnsureSandbox
    /\ Begin(w, [pc |-> "extract", sbx |-> held', copy |-> latest.tar, boot |-> job[w].boot])
    /\ UNCHANGED <<changes, bucket, missed>>

\* Only with an archive in hand is the sandbox connected.
Download(w) ==
    /\ JobAt(w, "start")
    /\ IF latest.tar = NoCopy
       THEN EndJob(w) /\ UNCHANGED <<home, state, held, kept>>
       ELSE /\ EnsureSandbox
            /\ Begin(w, [pc |-> "extract", sbx |-> held', copy |-> latest.tar, boot |-> job[w].boot])
    /\ UNCHANGED <<changes, bucket, missed>>

\* tar xzf adds to the files there are, then the packages are installed.
Extract(w) ==
    /\ JobAt(w, "extract") /\ Up(job[w].sbx) /\ job[w].copy # Torn
    /\ home' = [home EXCEPT ![job[w].sbx] = @ \cup job[w].copy]
    /\ EndJob(w)
    /\ UNCHANGED <<state, held, kept, changes, bucket, missed>>

\* The download or the extraction fails: "non-fatal", the sandbox is used.
RestoreFails(w) ==
    /\ Restoring(w)
    /\ \/ "get" \in BackupFaults
       \/ JobAt(w, "extract") /\ (job[w].copy = Torn \/ ~Up(job[w].sbx))
    /\ missed' = missed \cup {"failed"}
    /\ EndJob(w)
    /\ UNCHANGED <<home, state, held, kept, changes, bucket>>

Backs(w) == Pack(w) \/ PutTar(w) \/ PutLatestTar(w) \/ PutReq(w) \/ BackupFails(w)
Restores(w) == Download(w) \/ Extract(w) \/ RestoreFails(w)

BackupsNext ==
    \/ UseSandbox \/ WriteFiles \/ BackupRestart \/ StartRestore
    \/ \E v \in Sandboxes : LoseSandbox(v)
    \/ \E w \in Workers : ReconnectSandbox(w)
    \/ \E w \in Jobbers, pause \in BOOLEAN : StartBackup(w, pause)
    \/ \E w \in Jobbers : Backs(w) \/ Restores(w)

BackupsSpec == BackupsInit /\ [][BackupsNext]_backupVars
-----------------------------------------------------------------------------
(* Properties *)

\* What is in the bucket.  As long as no backup has gone on beside another job,
\* all that was ever reported as backed up is there under some key, and the
\* latest archive under one of its own, whatever restores have been missed.
\* Where none has, a restore brings back all of it, with no packages of a later
\* backup: for tools that write meanwhile, puts that fail, crashes between two
\* puts, and sandboxes lost under a backup or a restore.
BackupKept ==
    /\ "overlap" \notin missed =>
        acked \subseteq UNION stored /\ latest.tar \in stored \cup {NoCopy}
    /\ missed = {} =>
        /\ latest.tar = NoCopy => acked = {} /\ latest.req = NoCopy
        /\ latest.tar # NoCopy =>
            /\ acked \subseteq latest.tar
            /\ latest.req # NoCopy => latest.req \subseteq latest.tar

InUse == Up(held) /\ \A w \in Jobbers : ~Restoring(w)

\* An agent's sandbox holds all that was ever reported as backed up: through
\* losses of the sandbox, restores at once, failing backups and restarts, each
\* of which unpacks the latest archive into it, as long as no restore fails or
\* is left out and no backup goes on beside another or beside a restore.
AckedRestored == missed = {} /\ InUse => acked \subseteq home[held]

\* README.md: "Idle agents consume zero compute (sandbox pauses, R2 backup
\* preserves state)".  A restore that fails may leave an agent without its
\* files, and so may a backup beside another job; but a sandbox that E2B has
\* dropped while it was idle is replaced by a new one without any restore.
StatePreserved == missed \subseteq {"skipped"} /\ InUse => acked \subseteq home[held]

\* core/r2_storage.py: "Also overwrite "latest" pointer", from which
\* download_latest_backup downloads the "latest backup".  Nothing keeps the
\* backup of an endpoint from that of the idle timer, and the one whose put
\* comes last may be the one that has packed the files first.
LatestIsLatest ==
    missed \subseteq {"overlap"} /\ latest.tar \in Archive => acked \subseteq latest.tar
=============================================================================
