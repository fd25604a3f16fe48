----------------------------- MODULE SshBackend -----------------------------
(***************************************************************************)
(* core/ssh_backend.py: the SSH client and the SFTP session that all of an *)
(* agent's tools share.  The tools run in threads and nothing is locked: a *)
(* step is one call of paramiko, or the statements between two.            *)
(***************************************************************************)
EXTENDS Naturals

CONSTANTS SshThreads,  \* threads that run tools on the backend
          Uses,        \* the calls that each of them makes
          Conns,       \* bound: connections alive and referred to together
          NoConn,
          Dead,        \* any connection whose transport is not active any more
          MaxTries     \* _max_retries

ASSUME SshAssumption ==
    /\ {NoConn, Dead} \cap Conns = {} /\ NoConn # Dead
    /\ MaxTries \in Nat \ {0}
    /\ Uses \in [SshThreads -> SUBSET {"cmd", "file", "write"}]

VARIABLES client,   \* _client: a connection
          sftp,     \* _sftp: the connection it is a session of
          sshCall,  \* what each thread is doing
          refuses   \* whether this server ever refuses a session on a live client

sshVars == <<client, sftp, sshCall, refuses>>

Conn == Conns \cup {NoConn, Dead}

\* cmd: execute, and grep_raw and glob_info by it.  file: ls_info, read, edit,
\* download_files.  write: write, upload_files.
SshOp == {"cmd", "file", "write"}
SshIdle == [pc |-> "idle"]
\* session: the call's own reference to an SFTP session.  conn: connect's own
\* reference to a client.
SshBusy == [pc: {"ensure", "connect", "open", "run", "session", "file"}, op: SshOp,
            try: 1..MaxTries, conn: Conn, session: Conn]

SshTypeOK ==
    /\ client \in Conn /\ sftp \in Conn
    /\ refuses \in BOOLEAN
    /\ sshCall \in [SshThreads -> {SshIdle} \cup SshBusy]

SshInit ==
    /\ client = NoConn /\ sftp = NoConn
    /\ refuses \in BOOLEAN
    /\ sshCall = [s \in SshThreads |-> SshIdle]

SshAt(s, pc) == sshCall[s].pc = pc
SshGo(s, pc) == sshCall' = [sshCall EXCEPT ![s].pc = pc]
SshDone(s) == sshCall' = [sshCall EXCEPT ![s] = SshIdle]
-----------------------------------------------------------------------------
SshStart(s, op) ==
    /\ SshAt(s, "idle")
    /\ sshCall' = [sshCall EXCEPT ![s] = [pc |-> "ensure", op |-> op, try |-> 1,
                       conn |-> NoConn, session |-> NoConn]]
    /\ UNCHANGED <<client, sftp, refuses>>

\* What a call does once it is connected.  write has its session by the time
\* it makes the directory.
Onward(s) ==
    IF sshCall[s].op = "cmd" \/ sshCall[s].session # NoConn THEN "run" ELSE "session"

\* Mutant: a client is a connection, dead or alive.
EnsureOnce(s) ==
    /\ SshAt(s, "ensure")
    /\ SshGo(s, IF client # NoConn THEN Onward(s) ELSE "connect")
    /\ UNCHANGED <<client, sftp, refuses>>

\* _ensure_connected.
EnsureConnected(s) ==
    /\ SshAt(s, "ensure")
    /\ IF client \in Conns
       THEN SshGo(s, Onward(s))
       ELSE SshGo(s, "connect")
    /\ UNCHANGED <<client, sftp, refuses>>

Referred == {client, sftp} \cup
    UNION {{sshCall[s].conn, sshCall[s].session} : s \in {t \in SshThreads : sshCall[t] # SshIdle}}

\* connect, up to the client: the one it replaces is not closed.
SshConnect(s) ==
    /\ SshAt(s, "connect") /\ Conns \ Referred # {}
    /\ client' = CHOOSE c \in Conns \ Referred : TRUE
    /\ sshCall' = [sshCall EXCEPT ![s].pc = "open", ![s].conn = client']
    /\ UNCHANGED <<sftp, refuses>>

\* Mutant: a session is only opened where there was none.
OpenSftpOnce(s) ==
    /\ SshAt(s, "open") /\ sshCall[s].conn \in Conns
    /\ sftp' = IF sftp = NoConn THEN sshCall[s].conn ELSE sftp
    /\ sshCall' = [sshCall EXCEPT ![s].pc = Onward(s), ![s].conn = NoConn, ![s].try = 1]
    /\ UNCHANGED <<client, refuses>>

\* The session of the client that this call has connected, which need not be
\* the client of the backend any more.
OpenSftp(s) ==
    /\ SshAt(s, "open") /\ sshCall[s].conn \in Conns
    /\ sftp' = sshCall[s].conn
    /\ sshCall' = [sshCall EXCEPT ![s].pc = Onward(s), ![s].conn = NoConn, ![s].try = 1]
    /\ UNCHANGED <<client, refuses>>

\* Mutant: one attempt too many.
ConnectFailsLate(s) ==
    /\ \/ SshAt(s, "connect")
       \/ SshAt(s, "open") /\ (refuses \/ sshCall[s].conn \notin Conns)
    /\ IF sshCall[s].try <= MaxTries
       THEN sshCall' = [sshCall EXCEPT ![s].pc = "connect", ![s].try = @ + 1,
                                       ![s].conn = NoConn]
       ELSE SshDone(s)
    /\ UNCHANGED <<client, sftp, refuses>>

\* Tried again after a delay; after the last the call raises.  A client that
\* has no session stays in place.
ConnectFails(s) ==
    /\ \/ SshAt(s, "connect")
       \/ SshAt(s, "open") /\ (refuses \/ sshCall[s].conn \notin Conns)
    /\ IF sshCall[s].try < MaxTries
       THEN sshCall' = [sshCall EXCEPT ![s].pc = "connect", ![s].try = @ + 1,
                                       ![s].conn = NoConn]
       ELSE SshDone(s)
    /\ UNCHANGED <<client, sftp, refuses>>

\* _ensure_sftp, once connected: any session will do.
EnsureSftp(s) ==
    /\ SshAt(s, "session")
    /\ sftp = NoConn => client \in Conns
    /\ sftp' = IF sftp = NoConn THEN client ELSE sftp
    /\ sshCall' = [sshCall EXCEPT ![s].session = sftp',
           ![s].pc = IF sshCall[s].op = "write" THEN "ensure" ELSE "file"]
    /\ UNCHANGED <<client, refuses>>

\* The command of cmd, or the mkdir of write, whose outcome write ignores.
AfterRun(s) == IF sshCall[s].op = "cmd" THEN SshDone(s) ELSE SshGo(s, "file")

Run(s) ==
    /\ SshAt(s, "run") /\ client \in Conns
    /\ AfterRun(s)
    /\ UNCHANGED <<client, sftp, refuses>>

\* exec_command raises, and the exception is the result.
RunFails(s) ==
    /\ SshAt(s, "run") /\ client \notin Conns
    /\ AfterRun(s)
    /\ UNCHANGED <<client, sftp, refuses>>

\* The result is the files' or the error of a server that answers.
Transfer(s) ==
    /\ SshAt(s, "file") /\ sshCall[s].session \in Conns
    /\ SshDone(s)
    /\ UNCHANGED <<client, sftp, refuses>>

\* The session's transport is lost, or that of the client to open one on.
TransferFails(s) ==
    /\ \/ SshAt(s, "file") /\ sshCall[s].session \notin Conns
       \/ SshAt(s, "session") /\ sftp = NoConn /\ (refuses \/ client \notin Conns)
    /\ SshDone(s)
    /\ UNCHANGED <<client, sftp, refuses>>
-----------------------------------------------------------------------------
(* The network *)

Lost(c, ref) == IF ref = c THEN Dead ELSE ref

Lose(c) ==
    /\ c \in Referred
    /\ client' = Lost(c, client) /\ sftp' = Lost(c, sftp)
    /\ sshCall' = [s \in SshThreads |->
           IF sshCall[s] = SshIdle THEN SshIdle
           ELSE [sshCall[s] EXCEPT !.conn = Lost(c, @), !.session = Lost(c, @)]]
    /\ UNCHANGED refuses

SshProceeds(s) ==
    \/ EnsureConnected(s) \/ SshConnect(s) \/ OpenSftp(s) \/ ConnectFails(s)
    \/ EnsureSftp(s) \/ Run(s) \/ RunFails(s) \/ Transfer(s) \/ TransferFails(s)

SshNext ==
    \/ \E s \in SshThreads : (\E op \in Uses[s] : SshStart(s, op)) \/ SshProceeds(s)
    \/ \E c \in Conns : Lose(c)

SshSpec == SshInit /\ [][SshNext]_sshVars
-----------------------------------------------------------------------------
(* Properties *)

\* The network and the server are well: no transport is lost, and a client or a
\* session is opened at the first try.
Healthy ==
    /\ \A c \in Conns : ~Lose(c)
    /\ \A s \in SshThreads :
        /\ ConnectFails(s) => SshAt(s, "open") /\ sshCall[s].conn \notin Conns
        /\ SshAt(s, "session") /\ TransferFails(s) => client \notin Conns

\* However many transports were lost and however the threads have overwritten
\* each other's client, once the server is well commands get through again.
CommandsRecover ==
    (/\ <>[][Healthy]_sshVars
     /\ \A s \in SshThreads : []<><<SshStart(s, "cmd")>>_sshVars)
        => \A s \in SshThreads : []<><<Run(s)>>_sshVars

\* Files recover too if one thread alone uses the backend and no session is
\* refused on a live connection.  Without either, the session may be one of a dead
\* connection beside a live client, and nothing replaces it.
FilesRecover ==
    \A s \in SshThreads :
        (/\ [](\A t \in SshThreads \ {s} : sshCall[t] = SshIdle)
         /\ ~refuses
         /\ <>[][Healthy]_sshVars
         /\ []<><<SshStart(s, "file")>>_sshVars)
            => []<><<Transfer(s)>>_sshVars
=============================================================================
