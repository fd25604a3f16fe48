--------------------------- MODULE BackendProofs ----------------------------
(***************************************************************************)
(* Theorems about the SSH backend, for any number of threads and           *)
(* connections: its types, that every call ends after a bounded number of  *)
(* steps, and that with one thread the session is always the client's; and *)
(* about the backups of an agent's files, for any threads, sandboxes and    *)
(* changes to the files, and whatever fails: their types, what of all that  *)
(* was ever acknowledged is in the bucket as long as no backup goes on      *)
(* beside another job, and that a sandbox in use then has it too.           *)
(***************************************************************************)
EXTENDS SshBackend, Backups, TLAPS

\* What a step of one thread leaves behind.
Steps(s) ==
    /\ client' \in Conn /\ sftp' \in Conn /\ refuses' = refuses
    /\ \E new \in {SshIdle} \cup SshBusy : sshCall' = [sshCall EXCEPT ![s] = new]

LEMMA StepKeepsType ==
    ASSUME SshTypeOK, NEW s \in SshThreads, Steps(s)
    PROVE  SshTypeOK'
BY DEF Steps, SshTypeOK

\* A thread past the start of a call is busy with it.
LEMMA Busy ==
    ASSUME SshTypeOK, NEW s \in SshThreads, sshCall[s].pc # "idle"
    PROVE  sshCall[s] \in SshBusy
BY DEF SshTypeOK, SshIdle

\* Only the place in the code changes, or the call ends.
LEMMA GoKeeps ==
    ASSUME SshTypeOK, NEW s \in SshThreads, sshCall[s].pc # "idle",
           \/ SshDone(s)
           \/ \E pc \in {"ensure", "connect", "open", "run", "session", "file"} : SshGo(s, pc),
           UNCHANGED <<client, sftp, refuses>>
    PROVE  Steps(s)
<1>1. sshCall[s] \in SshBusy
  BY Busy
<1>2. CASE SshDone(s)
  BY <1>2 DEF SshDone, Steps, SshTypeOK
<1>3. ASSUME NEW pc \in {"ensure", "connect", "open", "run", "session", "file"}, SshGo(s, pc)
      PROVE  Steps(s)
  <2>1. [sshCall[s] EXCEPT !.pc = pc] \in SshBusy
    BY <1>1 DEF SshBusy
  <2> QED BY <1>3, <2>1 DEF SshGo, Steps, SshTypeOK
<1> QED BY <1>2, <1>3

LEMMA StartKeeps ==
    ASSUME SshTypeOK, NEW s \in SshThreads, NEW op \in Uses[s], SshStart(s, op)
    PROVE  Steps(s)
<1>1. op \in SshOp
  BY SshAssumption DEF SshOp
<1>2. [pc |-> "ensure", op |-> op, try |-> 1, conn |-> NoConn, session |-> NoConn] \in SshBusy
  <2>1. 1 \in 1..MaxTries /\ NoConn \in Conn
    BY SshAssumption DEF Conn
  <2> QED BY <1>1, <2>1 DEF SshBusy
<1>3. sshCall' = [sshCall EXCEPT ![s] = [pc |-> "ensure", op |-> op, try |-> 1,
                       conn |-> NoConn, session |-> NoConn]]
  BY DEF SshStart
<1>4. UNCHANGED <<client, sftp, refuses>>
  BY DEF SshStart
<1>5. client \in Conn /\ sftp \in Conn
  BY DEF SshTypeOK
<1> QED BY <1>2, <1>3, <1>4, <1>5 DEF Steps

LEMMA ProceedKeeps ==
    ASSUME SshTypeOK, NEW s \in SshThreads, SshProceeds(s)
    PROVE  Steps(s)
<1>1. sshCall[s].pc # "idle"
  BY DEF SshProceeds, SshAt, EnsureConnected, SshConnect, OpenSftp, ConnectFails, EnsureSftp, Run,
         RunFails, Transfer, TransferFails
<1>2. sshCall[s] \in SshBusy
  BY <1>1, Busy
<1>3. Onward(s) \in {"run", "session"}
  BY DEF Onward
<1>4. CASE EnsureConnected(s)
  BY <1>1, <1>3, <1>4, GoKeeps DEF EnsureConnected
<1>5. CASE SshConnect(s)
  <2>1. client' \in Conns
    BY <1>5 DEF SshConnect
  <2>2. [sshCall[s] EXCEPT !.pc = "open", !.conn = client'] \in SshBusy
    BY <1>2, <2>1 DEF SshBusy, Conn
  <2>3. sshCall' = [sshCall EXCEPT ![s] = [sshCall[s] EXCEPT !.pc = "open", !.conn = client']]
    BY <1>5 DEF SshConnect, SshTypeOK
  <2> QED BY <1>5, <2>1, <2>2, <2>3 DEF SshConnect, Steps, SshTypeOK, Conn
<1>6. CASE OpenSftp(s)
  <2> DEFINE new == [sshCall[s] EXCEPT !.pc = Onward(s), !.conn = NoConn, !.try = 1]
  <2>1. new \in SshBusy
    <3>1. 1 \in 1..MaxTries /\ NoConn \in Conn
      BY SshAssumption DEF Conn
    <3> QED BY <1>2, <1>3, <3>1 DEF SshBusy
  <2>2. sshCall' = [sshCall EXCEPT ![s] = new]
    BY <1>6 DEF OpenSftp, SshTypeOK
  <2> QED BY <1>6, <2>1, <2>2 DEF OpenSftp, Steps, SshTypeOK, Conn
<1>7. CASE ConnectFails(s)
  <2>1. CASE sshCall[s].try < MaxTries
    <3> DEFINE new == [sshCall[s] EXCEPT !.pc = "connect", !.try = @ + 1, !.conn = NoConn]
    <3>1. sshCall[s].try + 1 \in 1..MaxTries
      <4>1. sshCall[s].try \in 1..MaxTries
        BY <1>2 DEF SshBusy
      <4> QED BY <4>1, <2>1, SshAssumption
    <3>2. new \in SshBusy
      BY <1>2, <3>1 DEF SshBusy, Conn
    <3>3. sshCall' = [sshCall EXCEPT ![s] = new]
      BY <1>7, <2>1 DEF ConnectFails, SshTypeOK
    <3> QED BY <1>7, <3>2, <3>3 DEF ConnectFails, Steps, SshTypeOK
  <2>2. CASE ~(sshCall[s].try < MaxTries)
    BY <1>1, <1>7, <2>2, GoKeeps DEF ConnectFails
  <2> QED BY <2>1, <2>2
<1>8. CASE EnsureSftp(s)
  <2> DEFINE pc == IF sshCall[s].op = "write" THEN "ensure" ELSE "file"
             new == [sshCall[s] EXCEPT !.session = sftp', !.pc = pc]
  <2>1. sftp' \in Conn
    BY <1>8 DEF EnsureSftp, SshTypeOK
  <2>2. new \in SshBusy
    BY <1>2, <2>1 DEF SshBusy
  <2>3. sshCall' = [sshCall EXCEPT ![s] = new]
    BY <1>8 DEF EnsureSftp, SshTypeOK
  <2> QED BY <1>8, <2>1, <2>2, <2>3 DEF EnsureSftp, Steps, SshTypeOK
<1>9. CASE Run(s) \/ RunFails(s)
  <2>1. AfterRun(s) => SshDone(s) \/ SshGo(s, "file")
    BY DEF AfterRun
  <2> QED BY <1>1, <1>9, <2>1, GoKeeps DEF Run, RunFails
<1>10. CASE Transfer(s) \/ TransferFails(s)
  BY <1>1, <1>10, GoKeeps DEF Transfer, TransferFails
<1> QED BY <1>4, <1>5, <1>6, <1>7, <1>8, <1>9, <1>10 DEF SshProceeds

\* A transport that is lost leaves every reference to it dead.
LEMMA LoseKeepsType ==
    ASSUME SshTypeOK, NEW c \in Conns, Lose(c)
    PROVE  SshTypeOK'
<1>1. \A ref \in Conn : Lost(c, ref) \in Conn
  BY DEF Lost, Conn
<1>2. \A call \in SshBusy :
        [call EXCEPT !.conn = Lost(c, @), !.session = Lost(c, @)] \in SshBusy
  BY <1>1 DEF SshBusy
<1>3. \A s \in SshThreads : sshCall[s] # SshIdle => sshCall[s] \in SshBusy
  BY DEF SshTypeOK
<1> QED BY <1>1, <1>2, <1>3 DEF Lose, SshTypeOK

LEMMA SshTypeInit == SshInit => SshTypeOK
BY DEF SshInit, SshTypeOK, Conn

LEMMA SshTypeStep == SshTypeOK /\ [SshNext]_sshVars => SshTypeOK'
<1> SUFFICES ASSUME SshTypeOK, [SshNext]_sshVars PROVE SshTypeOK'
  OBVIOUS
<1>1. ASSUME NEW s \in SshThreads, NEW op \in Uses[s], SshStart(s, op) PROVE SshTypeOK'
  BY <1>1, StartKeeps, StepKeepsType
<1>2. ASSUME NEW s \in SshThreads, SshProceeds(s) PROVE SshTypeOK'
  BY <1>2, ProceedKeeps, StepKeepsType
<1>3. ASSUME NEW c \in Conns, Lose(c) PROVE SshTypeOK'
  BY <1>3, LoseKeepsType
<1>4. CASE UNCHANGED sshVars
  BY <1>4 DEF sshVars, SshTypeOK
<1> QED BY <1>1, <1>2, <1>3, <1>4 DEF SshNext

\* Every reference is a connection, dead or alive, or none, and a call never
\* makes more than MaxTries attempts to connect.
THEOREM SshTypeCorrect == SshSpec => []SshTypeOK
<1> QED BY SshTypeInit, SshTypeStep, PTL DEF SshSpec

(***************************************************************************)
(* How long a call goes on.                                                *)

\* A session is asked for once: before the call has one.
Asked == \A s \in SshThreads : SshAt(s, "session") => sshCall[s].session = NoConn

\* A bound on the steps that a call has before it.  write connects twice: for
\* its session, and for the command that makes the directory.
AfterConnecting(call) ==
    IF call.op = "write" /\ call.session = NoConn THEN 2 * MaxTries + 4 ELSE 2
CallLeft(call) ==
    IF call = SshIdle THEN 0
    ELSE CASE call.pc = "file"    -> 1
           [] call.pc = "run"     -> 2
           [] call.pc = "session" -> AfterConnecting(call)
           [] call.pc = "open"    -> AfterConnecting(call) + 2 * (MaxTries - call.try) + 1
           [] call.pc = "connect" -> AfterConnecting(call) + 2 * (MaxTries - call.try) + 2
           [] call.pc = "ensure"  -> AfterConnecting(call) + 2 * MaxTries + 1

CallFalls(s) == CallLeft(sshCall'[s]) < CallLeft(sshCall[s])

LEMMA CallLeftOf ==
    ASSUME NEW call \in SshBusy
    PROVE  /\ call # SshIdle
           /\ AfterConnecting(call) \in {2, 2 * MaxTries + 4} /\ call.try \in 1..MaxTries
           /\ call.pc = "file"    => CallLeft(call) = 1
           /\ call.pc = "run"     => CallLeft(call) = 2
           /\ call.pc = "session" => CallLeft(call) = AfterConnecting(call)
           /\ call.pc = "open"    =>
                CallLeft(call) = AfterConnecting(call) + 2 * (MaxTries - call.try) + 1
           /\ call.pc = "connect" =>
                CallLeft(call) = AfterConnecting(call) + 2 * (MaxTries - call.try) + 2
           /\ call.pc = "ensure"  => CallLeft(call) = AfterConnecting(call) + 2 * MaxTries + 1
           /\ call.pc \in {"file", "run", "session", "open", "connect", "ensure"}
<1>1. call # SshIdle
  BY DEF SshBusy, SshIdle
<1>2. AfterConnecting(call) \in {2, 2 * MaxTries + 4}
  BY DEF AfterConnecting
<1> HIDE DEF AfterConnecting
<1> QED BY <1>1, <1>2 DEF CallLeft, SshBusy

LEMMA CallBounded ==
    ASSUME NEW call \in {SshIdle} \cup SshBusy
    PROVE  CallLeft(call) \in 0..(4 * MaxTries + 5) /\ (CallLeft(call) = 0 <=> call = SshIdle)
<1>1. CASE call = SshIdle
  BY <1>1, SshAssumption DEF CallLeft
<1>2. CASE call \in SshBusy
  BY <1>2, CallLeftOf, SshAssumption
<1> QED BY <1>1, <1>2

\* From one place to another of the same call.
LEMMA PlaceComesLater ==
    ASSUME SshTypeOK, SshTypeOK', NEW s \in SshThreads,
           sshCall[s] # SshIdle,
           \/ sshCall'[s] = SshIdle
           \/ /\ sshCall'[s].pc \in {"run", "session"}
              /\ sshCall[s].pc \in {"ensure", "open"}
              /\ AfterConnecting(sshCall'[s]) = AfterConnecting(sshCall[s])
           \/ /\ <<sshCall[s].pc, sshCall'[s].pc>> \in {<<"ensure", "connect">>, <<"connect", "open">>}
              /\ sshCall'[s].try = sshCall[s].try
              /\ AfterConnecting(sshCall'[s]) = AfterConnecting(sshCall[s])
           \/ /\ sshCall[s].pc \in {"connect", "open"} /\ sshCall'[s].pc = "connect"
              /\ sshCall'[s].try = sshCall[s].try + 1
              /\ AfterConnecting(sshCall'[s]) = AfterConnecting(sshCall[s])
           \/ sshCall[s].pc \in {"session", "run"} /\ sshCall'[s].pc = "file"
           \/ /\ sshCall[s].pc = "session" /\ AfterConnecting(sshCall[s]) = 2 * MaxTries + 4
              /\ sshCall'[s].pc = "ensure" /\ AfterConnecting(sshCall'[s]) = 2
    PROVE  CallFalls(s)
<1>1. sshCall[s] \in SshBusy /\ sshCall'[s] \in {SshIdle} \cup SshBusy
  BY DEF SshTypeOK
<1>2. CASE sshCall'[s] = SshIdle
  BY <1>1, <1>2, CallBounded, SshAssumption DEF CallFalls
<1>3. CASE sshCall'[s] \in SshBusy
  BY <1>1, <1>3, CallLeftOf, SshAssumption DEF CallFalls
<1> QED BY <1>1, <1>2, <1>3

\* Only the place changes.
LEMMA GoFalls ==
    ASSUME SshTypeOK, NEW s \in SshThreads, sshCall[s] # SshIdle, NEW pc, SshGo(s, pc)
    PROVE  /\ sshCall'[s].pc = pc /\ sshCall'[s].try = sshCall[s].try
           /\ AfterConnecting(sshCall'[s]) = AfterConnecting(sshCall[s])
<1>1. sshCall[s] \in SshBusy
  BY DEF SshTypeOK
<1>2. sshCall'[s] = [sshCall[s] EXCEPT !.pc = pc]
  BY DEF SshTypeOK, SshGo
<1> QED BY <1>1, <1>2 DEF SshBusy, AfterConnecting

LEMMA ProceedsComesLater ==
    ASSUME SshTypeOK, SshTypeOK', Asked, NEW s \in SshThreads, SshProceeds(s)
    PROVE  CallFalls(s)
<1>1. sshCall[s].pc # "idle" /\ sshCall[s] # SshIdle
  BY DEF SshProceeds, SshAt, EnsureConnected, SshConnect, OpenSftp, ConnectFails, EnsureSftp, Run,
         RunFails, Transfer, TransferFails, SshIdle
<1>2. sshCall[s] \in SshBusy
  BY <1>1, Busy
<1>3. SshDone(s) => sshCall'[s] = SshIdle
  BY DEF SshDone, SshTypeOK
<1>4. Onward(s) \in {"run", "session"}
  BY DEF Onward
<1>5. CASE EnsureConnected(s)
  <2>1. \E pc \in {"run", "session", "connect"} : SshGo(s, pc)
    BY <1>4, <1>5 DEF EnsureConnected
  <2> QED BY <1>1, <1>5, <2>1, GoFalls, PlaceComesLater DEF EnsureConnected, SshAt
<1>6. CASE SshConnect(s)
  <2>1. sshCall'[s] = [sshCall[s] EXCEPT !.pc = "open", !.conn = client']
    BY <1>6 DEF SshConnect, SshTypeOK
  <2>2. /\ sshCall'[s].pc = "open" /\ sshCall'[s].try = sshCall[s].try
        /\ AfterConnecting(sshCall'[s]) = AfterConnecting(sshCall[s])
    BY <1>2, <2>1 DEF SshBusy, AfterConnecting
  <2> QED BY <1>1, <1>6, <2>2, PlaceComesLater DEF SshConnect, SshAt
<1>7. CASE OpenSftp(s)
  <2>1. sshCall'[s] = [sshCall[s] EXCEPT !.pc = Onward(s), !.conn = NoConn, !.try = 1]
    BY <1>7 DEF OpenSftp, SshTypeOK
  <2>2. /\ sshCall'[s].pc \in {"run", "session"}
        /\ AfterConnecting(sshCall'[s]) = AfterConnecting(sshCall[s])
    BY <1>2, <1>4, <2>1 DEF SshBusy, AfterConnecting
  <2> QED BY <1>1, <1>7, <2>2, PlaceComesLater DEF OpenSftp, SshAt
<1>8. CASE ConnectFails(s)
  <2>1. sshCall[s].pc \in {"connect", "open"}
    BY <1>8 DEF ConnectFails, SshAt
  <2>2. CASE sshCall[s].try < MaxTries
    <3>1. sshCall'[s] = [sshCall[s] EXCEPT !.pc = "connect", !.try = @ + 1, !.conn = NoConn]
      BY <1>8, <2>2 DEF ConnectFails, SshTypeOK
    <3>2. /\ sshCall'[s].pc = "connect" /\ sshCall'[s].try = sshCall[s].try + 1
          /\ AfterConnecting(sshCall'[s]) = AfterConnecting(sshCall[s])
      BY <1>2, <3>1 DEF SshBusy, AfterConnecting
    <3> QED BY <1>1, <2>1, <3>2, PlaceComesLater
  <2> QED BY <1>1, <1>3, <1>8, <2>2, PlaceComesLater DEF ConnectFails
<1>9. CASE EnsureSftp(s)
  <2>1. sshCall'[s] = [sshCall[s] EXCEPT !.session = sftp',
                           !.pc = IF sshCall[s].op = "write" THEN "ensure" ELSE "file"]
    BY <1>9 DEF EnsureSftp, SshTypeOK
  <2>2. sftp' # NoConn
    BY <1>9, SshAssumption DEF EnsureSftp
  <2>3. sshCall[s].pc = "session" /\ sshCall[s].session = NoConn
    BY <1>9 DEF EnsureSftp, SshAt, Asked
  <2>4. CASE sshCall[s].op = "write"
    <3>1. sshCall'[s].pc = "ensure" /\ AfterConnecting(sshCall'[s]) = 2
      BY <1>2, <2>1, <2>2, <2>4 DEF SshBusy, AfterConnecting
    <3>2. AfterConnecting(sshCall[s]) = 2 * MaxTries + 4
      BY <2>3, <2>4 DEF AfterConnecting
    <3> QED BY <1>1, <2>3, <3>1, <3>2, PlaceComesLater
  <2>5. CASE sshCall[s].op # "write"
    <3>1. sshCall'[s].pc = "file"
      BY <1>2, <2>1, <2>5 DEF SshBusy
    <3> QED BY <1>1, <2>3, <3>1, PlaceComesLater
  <2> QED BY <2>4, <2>5
<1>10. CASE Run(s) \/ RunFails(s)
  <2>1. sshCall[s].pc = "run" /\ (SshDone(s) \/ SshGo(s, "file"))
    BY <1>10 DEF Run, RunFails, AfterRun, SshAt
  <2> QED BY <1>1, <1>3, <2>1, GoFalls, PlaceComesLater
<1>11. CASE Transfer(s) \/ TransferFails(s)
  BY <1>1, <1>3, <1>11, PlaceComesLater DEF Transfer, TransferFails
<1> QED BY <1>5, <1>6, <1>7, <1>8, <1>9, <1>10, <1>11 DEF SshProceeds

\* A step of a thread leaves the others' calls as they are; the loss of a
\* transport leaves each call where it is.
LEMMA OthersWait ==
    ASSUME SshTypeOK, NEW s \in SshThreads, NEW t \in SshThreads, t # s,
           (\E op \in Uses[s] : SshStart(s, op)) \/ SshProceeds(s)
    PROVE  sshCall'[t] = sshCall[t]
<1>1. CASE \E op \in Uses[s] : SshStart(s, op)
  BY <1>1 DEF SshStart, SshTypeOK
<1>2. CASE SshProceeds(s)
  BY <1>2, ProceedKeeps DEF Steps, SshTypeOK
<1> QED BY <1>1, <1>2

LEMMA LossWaits ==
    ASSUME SshTypeOK, NEW c \in Conns, Lose(c), NEW s \in SshThreads
    PROVE  /\ sshCall[s] = SshIdle => sshCall'[s] = SshIdle
           /\ sshCall[s] # SshIdle =>
                /\ sshCall'[s].pc = sshCall[s].pc /\ sshCall'[s].try = sshCall[s].try
                /\ sshCall'[s].session = NoConn <=> sshCall[s].session = NoConn
                /\ AfterConnecting(sshCall'[s]) = AfterConnecting(sshCall[s])
<1>1. CASE sshCall[s] = SshIdle
  BY <1>1 DEF Lose
<1>2. CASE sshCall[s] # SshIdle
  <2>1. sshCall[s] \in SshBusy
    BY <1>2 DEF SshTypeOK
  <2>2. sshCall'[s] = [sshCall[s] EXCEPT !.conn = Lost(c, @), !.session = Lost(c, @)]
    BY <1>2 DEF Lose
  <2>3. /\ sshCall'[s].pc = sshCall[s].pc /\ sshCall'[s].try = sshCall[s].try
        /\ sshCall'[s].op = sshCall[s].op
        /\ sshCall'[s].session = Lost(c, sshCall[s].session)
    BY <2>1, <2>2 DEF SshBusy
  <2>4. Lost(c, sshCall[s].session) = NoConn <=> sshCall[s].session = NoConn
    BY SshAssumption DEF Lost
  <2> QED BY <1>2, <2>3, <2>4 DEF AfterConnecting
<1> QED BY <1>1, <1>2

LEMMA AskedStep == SshTypeOK /\ SshTypeOK' /\ Asked /\ [SshNext]_sshVars => Asked'
<1> SUFFICES ASSUME SshTypeOK, SshTypeOK', Asked, [SshNext]_sshVars, NEW t \in SshThreads,
                    sshCall'[t].pc = "session"
             PROVE  sshCall'[t].session = NoConn
  BY DEF Asked, SshAt
<1>1. CASE UNCHANGED sshVars
  BY <1>1 DEF sshVars, Asked, SshAt
<1>2. ASSUME NEW c \in Conns, Lose(c) PROVE sshCall'[t].session = NoConn
  <2>1. sshCall[t] # SshIdle
    BY <1>2, LossWaits DEF SshIdle
  <2> QED BY <1>2, <2>1, LossWaits DEF Asked, SshAt
<1>3. ASSUME NEW s \in SshThreads, t # s,
             (\E op \in Uses[s] : SshStart(s, op)) \/ SshProceeds(s)
      PROVE  sshCall'[t].session = NoConn
  BY <1>3, OthersWait DEF Asked, SshAt
<1>4. ASSUME NEW op \in Uses[t], SshStart(t, op) PROVE FALSE
  BY <1>4 DEF SshStart, SshTypeOK
<1>5. ASSUME SshProceeds(t) PROVE sshCall'[t].session = NoConn
  <2>1. sshCall[t].pc # "idle"
    BY <1>5 DEF SshProceeds, SshAt, EnsureConnected, SshConnect, OpenSftp, ConnectFails,
           EnsureSftp, Run, RunFails, Transfer, TransferFails
  <2>2. sshCall[t] \in SshBusy
    BY <2>1, Busy
  <2>3. SshDone(t) => sshCall'[t].pc = "idle"
    BY DEF SshDone, SshTypeOK, SshIdle
  <2>4. \A pc : SshGo(t, pc) => sshCall'[t].pc = pc /\ sshCall'[t].session = sshCall[t].session
    BY <2>2 DEF SshGo, SshTypeOK, SshBusy
  <2>5. CASE EnsureConnected(t)
    BY <2>4, <2>5 DEF EnsureConnected, Onward
  <2>6. CASE SshConnect(t)
    <3>1. sshCall'[t] = [sshCall[t] EXCEPT !.pc = "open", !.conn = client']
      BY <2>6 DEF SshConnect, SshTypeOK
    <3> QED BY <2>2, <3>1 DEF SshBusy
  <2>7. CASE OpenSftp(t)
    <3>1. sshCall'[t] = [sshCall[t] EXCEPT !.pc = Onward(t), !.conn = NoConn, !.try = 1]
      BY <2>7 DEF OpenSftp, SshTypeOK
    <3>2. sshCall'[t].pc = Onward(t) /\ sshCall'[t].session = sshCall[t].session
      BY <2>2, <3>1 DEF SshBusy
    <3> QED BY <3>2 DEF Onward
  <2>8. CASE ConnectFails(t)
    <3>1. CASE sshCall[t].try < MaxTries
      <4>1. sshCall'[t] = [sshCall[t] EXCEPT !.pc = "connect", !.try = @ + 1, !.conn = NoConn]
        BY <2>8, <3>1 DEF ConnectFails, SshTypeOK
      <4> QED BY <2>2, <4>1 DEF SshBusy
    <3> QED BY <2>3, <2>8, <3>1 DEF ConnectFails
  <2>9. CASE EnsureSftp(t)
    <3>1. sshCall'[t] = [sshCall[t] EXCEPT !.session = sftp',
                             !.pc = IF sshCall[t].op = "write" THEN "ensure" ELSE "file"]
      BY <2>9 DEF EnsureSftp, SshTypeOK
    <3> QED BY <2>2, <3>1 DEF SshBusy
  <2>10. CASE Run(t) \/ RunFails(t) \/ Transfer(t) \/ TransferFails(t)
    BY <2>3, <2>4, <2>10 DEF Run, RunFails, AfterRun, Transfer, TransferFails
  <2> QED BY <1>5, <2>5, <2>6, <2>7, <2>8, <2>9, <2>10 DEF SshProceeds
<1> QED BY <1>1, <1>2, <1>3, <1>4, <1>5 DEF SshNext

\* A call that has started ends after a bounded number of its own steps, however
\* often the transport is lost and whatever client or session other threads put
\* in place of its own: five, and four for each attempt to connect that it has.
THEOREM CallsAreBounded ==
    SshSpec => /\ [](\A s \in SshThreads : /\ CallLeft(sshCall[s]) \in 0..(4 * MaxTries + 5)
                                           /\ CallLeft(sshCall[s]) = 0 <=> sshCall[s] = SshIdle)
               /\ [][\A s \in SshThreads :
                        /\ SshProceeds(s) => CallFalls(s)
                        /\ sshCall[s] # SshIdle => CallLeft(sshCall'[s]) <= CallLeft(sshCall[s])
                    ]_sshVars
<1> DEFINE Bounded == \A s \in SshThreads :
               /\ CallLeft(sshCall[s]) \in 0..(4 * MaxTries + 5)
               /\ CallLeft(sshCall[s]) = 0 <=> sshCall[s] = SshIdle
           Falling == \A s \in SshThreads :
               /\ SshProceeds(s) => CallFalls(s)
               /\ sshCall[s] # SshIdle => CallLeft(sshCall'[s]) <= CallLeft(sshCall[s])
<1>1. SshTypeOK => Bounded
  BY CallBounded DEF SshTypeOK
<1>2. SshInit => Asked
  BY DEF SshInit, Asked, SshAt, SshIdle
<1>3. SshTypeOK /\ SshTypeOK' /\ Asked /\ [SshNext]_sshVars => [Falling]_sshVars
  <2> SUFFICES ASSUME SshTypeOK, SshTypeOK', Asked, SshNext, NEW s \in SshThreads
               PROVE  /\ SshProceeds(s) => CallFalls(s)
                      /\ sshCall[s] # SshIdle => CallLeft(sshCall'[s]) <= CallLeft(sshCall[s])
    OBVIOUS
  <2>1. SshProceeds(s) => CallFalls(s)
    BY ProceedsComesLater
  <2>2. ASSUME sshCall[s] # SshIdle
        PROVE  CallLeft(sshCall'[s]) <= CallLeft(sshCall[s])
    <3>1. CallLeft(sshCall[s]) \in Nat /\ CallLeft(sshCall'[s]) \in Nat
      BY CallBounded, SshAssumption DEF SshTypeOK
    <3>2. CASE SshProceeds(s)
      BY <2>1, <3>1, <3>2 DEF CallFalls
    <3>3. CASE sshCall'[s] = sshCall[s]
      BY <3>1, <3>3
    <3>4. ASSUME NEW op \in Uses[s], SshStart(s, op) PROVE FALSE
      BY <2>2, <3>4, Busy DEF SshStart, SshAt, SshTypeOK, SshBusy
    <3>5. ASSUME NEW c \in Conns, Lose(c)
          PROVE  CallLeft(sshCall'[s]) <= CallLeft(sshCall[s])
      <4>1. sshCall[s] \in SshBusy
        BY <2>2 DEF SshTypeOK
      <4>2. sshCall'[s] \in SshBusy
        BY <2>2, <3>5, <4>1, LossWaits DEF SshTypeOK, SshIdle, SshBusy
      <4>3. CallLeft(sshCall'[s]) = CallLeft(sshCall[s])
        BY <2>2, <3>5, <4>1, <4>2, LossWaits, CallLeftOf
      <4> QED BY <3>1, <4>3
    <3> QED BY <3>2, <3>3, <3>4, <3>5, OthersWait DEF SshNext
  <2> QED BY <2>1, <2>2
<1> QED BY <1>1, <1>2, <1>3, SshTypeInit, SshTypeStep, AskedStep, PTL DEF SshSpec

(***************************************************************************)
(* One thread alone.                                                       *)

\* A live client is the one whose session the backend has, but for a call that
\* is on its way to open one.
SameConnection(s) ==
    /\ SshAt(s, "connect") => client \notin Conns
    /\ SshAt(s, "open") => sshCall[s].conn = client
    /\ ~SshAt(s, "open") /\ client \in Conns => sftp = client

LEMMA LossKeepsSame ==
    ASSUME SshTypeOK, NEW s \in SshThreads, SameConnection(s), NEW c \in Conns, Lose(c)
    PROVE  SameConnection(s)'
<1>1. Dead \notin Conns
  BY SshAssumption
<1>2. client' = Lost(c, client) /\ sftp' = Lost(c, sftp)
  BY DEF Lose
<1>3. client' \in Conns => client' = client /\ client # c
  BY <1>1, <1>2 DEF Lost
<1>4. CASE sshCall[s] = SshIdle
  <2>1. sshCall'[s] = SshIdle
    BY <1>4, LossWaits
  <2> QED BY <1>2, <1>3, <1>4, <2>1 DEF SameConnection, SshAt, SshIdle, Lost
<1>5. CASE sshCall[s] # SshIdle
  <2>1. sshCall[s] \in SshBusy
    BY <1>5 DEF SshTypeOK
  <2>2. sshCall'[s] = [sshCall[s] EXCEPT !.conn = Lost(c, @), !.session = Lost(c, @)]
    BY <1>5 DEF Lose
  <2>3. sshCall'[s].pc = sshCall[s].pc /\ sshCall'[s].conn = Lost(c, sshCall[s].conn)
    BY <2>1, <2>2 DEF SshBusy
  <2> QED BY <1>2, <1>3, <2>3 DEF SameConnection, SshAt, Lost
<1> QED BY <1>4, <1>5

LEMMA SameStep ==
    ASSUME NEW s, SshThreads = {s},
           SshTypeOK, ~refuses, SameConnection(s), [SshNext]_sshVars
    PROVE  ~refuses' /\ SameConnection(s)'
<1>1. s \in SshThreads
  OBVIOUS
<1>2. CASE UNCHANGED sshVars
  BY <1>2 DEF sshVars, SameConnection, SshAt
<1>3. ASSUME NEW c \in Conns, Lose(c) PROVE ~refuses' /\ SameConnection(s)'
  BY <1>1, <1>3, LossKeepsSame DEF Lose
<1>4. ASSUME NEW op \in Uses[s], SshStart(s, op) PROVE ~refuses' /\ SameConnection(s)'
  <2>1. sshCall'[s].pc = "ensure" /\ sshCall[s].pc = "idle"
    BY <1>1, <1>4 DEF SshStart, SshAt, SshTypeOK
  <2>2. UNCHANGED <<client, sftp, refuses>>
    BY <1>4 DEF SshStart
  <2> QED BY <2>1, <2>2 DEF SameConnection, SshAt
<1>5. ASSUME SshProceeds(s) PROVE ~refuses' /\ SameConnection(s)'
  <2>1. sshCall[s].pc # "idle"
    BY <1>5 DEF SshProceeds, SshAt, EnsureConnected, SshConnect, OpenSftp, ConnectFails,
           EnsureSftp, Run, RunFails, Transfer, TransferFails
  <2>2. sshCall[s] \in SshBusy
    BY <1>1, <2>1, Busy
  <2>3. SshDone(s) => sshCall'[s].pc = "idle"
    BY <1>1 DEF SshDone, SshTypeOK, SshIdle
  <2>4. \A pc : SshGo(s, pc) => sshCall'[s].pc = pc /\ sshCall'[s].conn = sshCall[s].conn
    BY <1>1, <2>2 DEF SshGo, SshTypeOK, SshBusy
  <2>5. Onward(s) \in {"run", "session"}
    BY DEF Onward
  <2>6. CASE EnsureConnected(s)
    BY <2>4, <2>5, <2>6 DEF EnsureConnected, SameConnection, SshAt
  <2>7. CASE SshConnect(s)
    <3>1. sshCall'[s] = [sshCall[s] EXCEPT !.pc = "open", !.conn = client']
      BY <1>1, <2>7 DEF SshConnect, SshTypeOK
    <3>2. sshCall'[s].pc = "open" /\ sshCall'[s].conn = client'
      BY <2>2, <3>1 DEF SshBusy
    <3> QED BY <2>7, <3>2 DEF SshConnect, SameConnection, SshAt
  <2>8. CASE OpenSftp(s)
    <3>1. sshCall'[s] = [sshCall[s] EXCEPT !.pc = Onward(s), !.conn = NoConn, !.try = 1]
      BY <1>1, <2>8 DEF OpenSftp, SshTypeOK
    <3>2. sshCall'[s].pc \in {"run", "session"}
      BY <2>2, <2>5, <3>1 DEF SshBusy
    <3> QED BY <2>8, <3>2 DEF OpenSftp, SameConnection, SshAt
  <2>9. CASE ConnectFails(s)
    <3>1. client \notin Conns
      BY <2>9 DEF ConnectFails, SameConnection, SshAt
    <3>2. sshCall'[s].pc \in {"connect", "idle"}
      <4>1. CASE sshCall[s].try < MaxTries
        <5>1. sshCall'[s] = [sshCall[s] EXCEPT !.pc = "connect", !.try = @ + 1, !.conn = NoConn]
          BY <1>1, <2>9, <4>1 DEF ConnectFails, SshTypeOK
        <5> QED BY <2>2, <5>1 DEF SshBusy
      <4> QED BY <2>3, <2>9, <4>1 DEF ConnectFails
    <3> QED BY <2>9, <3>1, <3>2 DEF ConnectFails, SameConnection, SshAt
  <2>10. CASE EnsureSftp(s)
    <3>1. sshCall'[s] = [sshCall[s] EXCEPT !.session = sftp',
                             !.pc = IF sshCall[s].op = "write" THEN "ensure" ELSE "file"]
      BY <1>1, <2>10 DEF EnsureSftp, SshTypeOK
    <3>2. sshCall'[s].pc \in {"ensure", "file"}
      BY <2>2, <3>1 DEF SshBusy
    <3> QED BY <2>10, <3>2 DEF EnsureSftp, SameConnection, SshAt
  <2>11. CASE Run(s) \/ RunFails(s) \/ Transfer(s) \/ TransferFails(s)
    BY <2>3, <2>4, <2>11
       DEF Run, RunFails, AfterRun, Transfer, TransferFails, SameConnection, SshAt
  <2> QED BY <1>5, <2>6, <2>7, <2>8, <2>9, <2>10, <2>11 DEF SshProceeds
<1> QED BY <1>2, <1>3, <1>4, <1>5 DEF SshNext

\* With one thread, and a server that refuses no session on a live client, the
\* session between two calls is never one of a dead connection beside a live
\* client: what replaces the client, whichever connection was lost and whichever
\* attempt failed, replaces the session.
THEOREM SessionIsTheClients ==
    ASSUME NEW s, SshThreads = {s}
    PROVE  SshSpec => [](~refuses /\ sshCall[s] = SshIdle /\ client \in Conns => sftp = client)
<1> DEFINE Inv == ~refuses => SameConnection(s)
<1>1. SshInit => Inv
  BY SshAssumption DEF SshInit, SameConnection, SshAt, SshIdle
<1>2. SshTypeOK /\ Inv /\ [SshNext]_sshVars => Inv'
  <2>1. [SshNext]_sshVars => refuses' = refuses
    BY DEF SshNext, sshVars, SshStart, Lose, SshProceeds, EnsureConnected, SshConnect, OpenSftp,
           ConnectFails, EnsureSftp, Run, RunFails, Transfer, TransferFails
  <2> QED BY <2>1, SameStep
<1>3. Inv => (~refuses /\ sshCall[s] = SshIdle /\ client \in Conns => sftp = client)
  BY DEF SameConnection, SshAt, SshIdle
<1> QED BY <1>1, <1>2, <1>3, SshTypeInit, SshTypeStep, PTL DEF SshSpec

-----------------------------------------------------------------------------
(* Backups. *)

\* What an archive and a copy are.
LEMMA Archives ==
    /\ {} \in Archive /\ Archive \subseteq Copy /\ NoCopy \in Copy /\ Torn \in Copy
    /\ NoCopy \notin Archive /\ Torn \notin Archive /\ Torn # NoCopy
    /\ \A n \in 1..MaxVersion, a \in Archive : a \cup {n} \in Archive
    /\ \A a, b \in Archive : a \cup b \in Archive
<1>1. 0 \notin 1..MaxVersion /\ MaxVersion + 1 \notin 1..MaxVersion /\ MaxVersion + 1 # 0
  BY BackupsAssumption
<1>2. NoCopy \notin Archive /\ Torn \notin Archive /\ Torn # NoCopy
  BY <1>1 DEF NoCopy, Torn, Archive
<1> QED BY <1>2 DEF Archive, Copy

\* What a thread has in hand in a backup or a restore.
LEMMA JobFields ==
    ASSUME BackupsTypeOK, NEW w \in Jobbers
    PROVE  /\ job[w].pc \in {"none", "start", "extract", "pack", "tar", "latestTar", "req"}
           /\ job[w].pc = "none" => job[w] = NoJob
           /\ job[w].pc = "start" => job[w].boot \in BOOLEAN
           /\ job[w].pc = "extract" =>
                /\ job[w].sbx \in Sandboxes /\ job[w].copy \in Archive \cup {Torn}
                /\ job[w].boot \in BOOLEAN
           /\ job[w].pc = "pack" =>
                /\ job[w] \in [pc: {"pack"}, sbx: Sandboxes, pause: BOOLEAN, alone: BOOLEAN]
                /\ job[w].sbx \in Sandboxes /\ job[w].pause \in BOOLEAN
           /\ job[w].pc \in {"tar", "latestTar", "req"} =>
                /\ job[w] \in [pc: {"tar", "latestTar", "req"}, copy: Archive \cup {Torn},
                               pause: BOOLEAN]
                /\ job[w].copy \in Archive \cup {Torn} /\ job[w].pause \in BOOLEAN
<1>1. job[w] \in {NoJob} \cup Backup \cup Restore
  BY DEF BackupsTypeOK
<1> QED BY <1>1 DEF NoJob, Backup, Restore

\* A thread that begins or ends a job leaves those of the others alone.
LEMMA BeginsJob ==
    ASSUME BackupsTypeOK, NEW w \in Jobbers, NEW j, Begin(w, j)
    PROVE  /\ job'[w] = j /\ \A x \in Jobbers \ {w} : job'[x] = job[x]
           /\ j \in {NoJob} \cup Backup \cup Restore
                => job' \in [Jobbers -> {NoJob} \cup Backup \cup Restore]
BY DEF BackupsTypeOK, Begin

LEMMA EnsureTyped ==
    ASSUME BackupsTypeOK, EnsureSandbox
    PROVE  /\ home' \in [Sandboxes -> Archive]
           /\ state' \in [Sandboxes -> {"off", "running", "paused"}]
           /\ held' \in Sandboxes /\ kept' \in Sandboxes \cup {NoBox}
BY Archives DEF BackupsTypeOK, EnsureSandbox, NewSandbox, Gone

LEMMA PauseTyped ==
    ASSUME BackupsTypeOK, NEW w \in Jobbers, PauseIf(w)
    PROVE  /\ state' \in [Sandboxes -> {"off", "running", "paused"}]
           /\ held' \in Sandboxes \cup {NoBox} /\ kept' \in Sandboxes \cup {NoBox}
BY DEF BackupsTypeOK, PauseIf, Pause, Up

LEMMA BackupsTypeInit == BackupsInit => BackupsTypeOK
<1> SUFFICES ASSUME BackupsInit PROVE BackupsTypeOK
  OBVIOUS
<1>1. job \in [Jobbers -> {NoJob} \cup Backup \cup Restore]
  BY DEF BackupsInit, Booted, RestoreJob, Restore
<1>2. latest \in [tar: Copy, req: Copy]
  BY Archives DEF BackupsInit
<1>3. changes \in 0..MaxVersion
  BY BackupsAssumption DEF BackupsInit
<1> QED BY <1>1, <1>2, <1>3, Archives DEF BackupsInit, BackupsTypeOK

LEMMA BackupsTypeStep == BackupsTypeOK /\ [BackupsNext]_backupVars => BackupsTypeOK'
<1> SUFFICES ASSUME BackupsTypeOK, [BackupsNext]_backupVars PROVE BackupsTypeOK'
  OBVIOUS
<1> USE DEF BackupsTypeOK, bucket
<1>1. CASE UseSandbox
  BY <1>1, EnsureTyped DEF UseSandbox, Skipped
<1>2. CASE WriteFiles
  <2>1. changes' \in 1..MaxVersion /\ held \in Sandboxes
    BY <1>2, BackupsAssumption DEF WriteFiles, Up
  <2>2. home' \in [Sandboxes -> Archive]
    BY <1>2, <2>1, Archives DEF WriteFiles
  <2> QED BY <1>2, <2>1, <2>2 DEF WriteFiles
<1>3. ASSUME NEW v \in Sandboxes, LoseSandbox(v) PROVE BackupsTypeOK'
  BY <1>3, Archives DEF LoseSandbox
<1>4. CASE BackupRestart
  <2>1. job' \in [Jobbers -> {NoJob} \cup Backup \cup Restore]
    BY <1>4 DEF BackupRestart, Booted, RestoreJob, Restore
  <2> QED BY <1>4, <2>1 DEF BackupRestart
<1>5. ASSUME NEW w \in Jobbers, NEW pause \in BOOLEAN, StartBackup(w, pause)
      PROVE  BackupsTypeOK'
  <2>1. held' \in Sandboxes
    BY <1>5, EnsureTyped DEF StartBackup
  <2>2. \A x \in Jobbers : JobAt(x, "pack") => [job[x] EXCEPT !.alone = FALSE] \in Backup
    <3> TAKE x \in Jobbers
    <3> HAVE JobAt(x, "pack")
    <3>1. job[x] \in [pc: {"pack"}, sbx: Sandboxes, pause: BOOLEAN, alone: BOOLEAN]
      BY JobFields DEF JobAt
    <3> QED BY <3>1 DEF Backup
  <2>3. \A b \in BOOLEAN : [pc |-> "pack", sbx |-> held', pause |-> pause, alone |-> b] \in Backup
    BY <2>1 DEF Backup
  <2>4. job' \in [Jobbers -> {NoJob} \cup Backup \cup Restore]
    BY <1>5, <2>2, <2>3 DEF StartBackup
  <2>5. missed' \subseteq {"failed", "skipped", "overlap"}
    BY <1>5 DEF StartBackup, Skipped, Overlapped
  <2> QED BY <1>5, <2>1, <2>4, <2>5, EnsureTyped DEF StartBackup
<1>6. ASSUME NEW w \in Jobbers, Pack(w) PROVE BackupsTypeOK'
  <2>1. home[job[w].sbx] \in Archive /\ job[w].pause \in BOOLEAN
    BY <1>6, JobFields DEF Pack, JobAt
  <2>2. PICK copy \in Archive \cup {Torn} :
            Begin(w, [pc |-> "tar", copy |-> copy, pause |-> job[w].pause])
    BY <1>6, <2>1 DEF Pack
  <2>3. [pc |-> "tar", copy |-> copy, pause |-> job[w].pause] \in Backup
    BY <2>1 DEF Backup
  <2>4. job' \in [Jobbers -> {NoJob} \cup Backup \cup Restore]
    BY <2>2, <2>3, BeginsJob
  <2> QED BY <1>6, <2>4 DEF Pack
<1>7. ASSUME NEW w \in Jobbers, PutTar(w) PROVE BackupsTypeOK'
  <2>1. [job[w] EXCEPT !.pc = "latestTar"] \in Backup /\ job[w].copy \in Archive \cup {Torn}
    BY <1>7, JobFields DEF PutTar, JobAt, Backup
  <2>2. job' \in [Jobbers -> {NoJob} \cup Backup \cup Restore]
    BY <1>7, <2>1, BeginsJob DEF PutTar
  <2> QED BY <1>7, <2>1, <2>2 DEF PutTar
<1>8. ASSUME NEW w \in Jobbers, PutLatestTar(w) PROVE BackupsTypeOK'
  <2>1. [job[w] EXCEPT !.pc = "req"] \in Backup /\ job[w].copy \in Archive \cup {Torn}
    BY <1>8, JobFields DEF PutLatestTar, JobAt, Backup
  <2>2. latest' \in [tar: Copy, req: Copy]
    BY <1>8, <2>1, Archives DEF PutLatestTar
  <2>3. CASE BackedUp(w)
    <3>1. acked' \in Archive
      BY <2>1, <2>3, Archives DEF BackedUp
    <3> QED BY <1>8, <2>2, <2>3, <3>1, BeginsJob, PauseTyped DEF PutLatestTar, BackedUp, EndJob
  <2>4. CASE Begin(w, [job[w] EXCEPT !.pc = "req"]) /\ UNCHANGED <<state, held, kept, acked>>
    BY <1>8, <2>1, <2>2, <2>4, BeginsJob DEF PutLatestTar
  <2> QED BY <1>8, <2>3, <2>4 DEF PutLatestTar
<1>9. ASSUME NEW w \in Jobbers, PutReq(w) PROVE BackupsTypeOK'
  <2>1. job[w].copy \in Archive \cup {Torn}
    BY <1>9, JobFields DEF PutReq, JobAt
  <2>2. latest' \in [tar: Copy, req: Copy] /\ acked' \in Archive
    BY <1>9, <2>1, Archives DEF PutReq, BackedUp
  <2> QED BY <1>9, <2>2, BeginsJob, PauseTyped DEF PutReq, BackedUp, EndJob
<1>10. ASSUME NEW w \in Jobbers, BackupFails(w) PROVE BackupsTypeOK'
  BY <1>10, BeginsJob, PauseTyped DEF BackupFails, EndJob
<1>11. CASE StartRestore
  <2>1. RestoreJob(FALSE) \in Restore /\ Server \in Jobbers
    BY DEF RestoreJob, Restore, Jobbers
  <2>2. missed' \subseteq {"failed", "skipped", "overlap"}
    BY <1>11 DEF StartRestore, Overlapped
  <2> QED BY <1>11, <2>1, <2>2, BeginsJob DEF StartRestore
<1>12. ASSUME NEW w \in Workers, ReconnectSandbox(w) PROVE BackupsTypeOK'
  <2>1. RestoreJob(FALSE) \in Restore /\ w \in Jobbers
    BY DEF RestoreJob, Restore, Jobbers
  <2>2. missed' \subseteq {"failed", "skipped", "overlap"}
    BY <1>12 DEF ReconnectSandbox, Overlapped
  <2>3. /\ home' \in [Sandboxes -> Archive] /\ held' \in Sandboxes /\ kept' = NoBox
        /\ state' \in [Sandboxes -> {"off", "running", "paused"}]
    BY <1>12, Archives DEF ReconnectSandbox, NewSandbox
  <2> QED BY <1>12, <2>1, <2>2, <2>3, BeginsJob DEF ReconnectSandbox
<1>13. ASSUME NEW w \in Jobbers, Download(w) PROVE BackupsTypeOK'
  <2>1. CASE latest.tar = NoCopy
    BY <1>13, <2>1, BeginsJob DEF Download, EndJob
  <2>2. CASE latest.tar # NoCopy
    <3>1. held' \in Sandboxes /\ job[w].boot \in BOOLEAN /\ latest.tar \in Archive \cup {Torn}
      BY <1>13, <2>2, EnsureTyped, JobFields DEF Download, JobAt, Copy
    <3>2. [pc |-> "extract", sbx |-> held', copy |-> latest.tar, boot |-> job[w].boot] \in Restore
      BY <3>1 DEF Restore
    <3> QED BY <1>13, <2>2, <3>2, EnsureTyped, BeginsJob DEF Download
  <2> QED BY <2>1, <2>2
<1>14. ASSUME NEW w \in Jobbers, Extract(w) PROVE BackupsTypeOK'
  <2>1. job[w].sbx \in Sandboxes /\ job[w].copy \in Archive
    BY <1>14, JobFields DEF Extract, JobAt
  <2>2. home' \in [Sandboxes -> Archive]
    BY <1>14, <2>1, Archives DEF Extract
  <2> QED BY <1>14, <2>2, BeginsJob DEF Extract, EndJob
<1>15. ASSUME NEW w \in Jobbers, RestoreFails(w) PROVE BackupsTypeOK'
  BY <1>15, BeginsJob DEF RestoreFails, EndJob
<1>16. CASE UNCHANGED backupVars
  BY <1>16 DEF backupVars
<1> QED BY <1>1, <1>2, <1>3, <1>4, <1>5, <1>6, <1>7, <1>8, <1>9, <1>10, <1>11, <1>12, <1>13,
           <1>14, <1>15, <1>16 DEF BackupsNext, Backs, Restores

\* The sandboxes, the bucket and the jobs keep their types, for any threads,
\* sandboxes and faults.
THEOREM BackupsTypeCorrect == BackupsSpec => []BackupsTypeOK
<1> QED BY BackupsTypeInit, BackupsTypeStep, PTL DEF BackupsSpec
-----------------------------------------------------------------------------
\* The sandbox that the next call will use.
Current == IF held # NoBox THEN held ELSE kept
Whole(v) == latest.tar # NoCopy => latest.tar \subseteq home[v]

\* A restore of the current sandbox is under way.
Filling(w) == JobAt(w, "start") \/ (JobAt(w, "extract") /\ job[w].sbx = Current)

\* A backup packs the sandbox that is held, or has packed all that the latest
\* archive has.
BackupInHand(w) ==
    /\ \A x \in Jobbers \ {w} : job[x] = NoJob
    /\ held # NoBox
    /\ JobAt(w, "pack") => job[w].sbx = held /\ job[w].alone
    /\ ~JobAt(w, "pack") =>
        /\ job[w].copy \in Archive
        /\ latest.tar # NoCopy => latest.tar \subseteq job[w].copy
        /\ ~Gone(held) => job[w].copy \subseteq home[held]
    /\ JobAt(w, "req") => job[w].copy = latest.tar

Unharmed ==
    /\ ~Gone(Current) => Whole(Current) \/ \E w \in Jobbers : Filling(w)
    /\ \A w \in Jobbers :
        /\ BackingUp(w) => BackupInHand(w)
        /\ JobAt(w, "extract") => job[w].copy = latest.tar /\ held # NoBox

\* An archive is put under its own key before it is the latest.
HasKey ==
    "overlap" \notin missed => \A w \in Jobbers :
        job[w].pc \in {"latestTar", "req"} => job[w].copy \in stored \cup {Torn}

\* No other tar has written to the file of this one.
WholeJob(w) ==
    /\ JobAt(w, "pack") => job[w].alone
    /\ job[w].pc \in {"tar", "latestTar", "req"} => job[w].copy # Torn
AllWhole == "overlap" \notin missed => \A w \in Jobbers : WholeJob(w)

BackupsInv == HasKey /\ AllWhole /\ BackupKept /\ (missed = {} => Unharmed)

LEMMA BackupsInvInit == BackupsInit => BackupsInv
<1> SUFFICES ASSUME BackupsInit PROVE BackupsInv
  OBVIOUS
<1>1. \A w \in Jobbers : job[w].pc \in {"none", "start"}
  BY DEF BackupsInit, Booted, RestoreJob, NoJob
<1>2. Gone(Current)
  BY DEF BackupsInit, Gone, Current
<1>3. HasKey /\ Unharmed
  BY <1>1, <1>2 DEF HasKey, Unharmed, BackingUp, JobAt
<1>4. AllWhole
  BY <1>1 DEF AllWhole, WholeJob, JobAt
<1> QED BY <1>3, <1>4 DEF BackupsInit, BackupsInv, BackupKept

-----------------------------------------------------------------------------
(* The bucket, whatever has been missed. *)

\* A step other than a put and the end of a backup.
BucketKept ==
    /\ UNCHANGED bucket
    /\ \A w \in Jobbers : job'[w].pc \in {"latestTar", "req"} => job'[w] = job[w]

LEMMA KeysKept ==
    ASSUME HasKey, BackupKept, BucketKept, missed \subseteq missed'
    PROVE  HasKey' /\ BackupKept'
<1>1. HasKey'
  BY DEF HasKey, BucketKept, bucket
<1>2. BackupKept'
  BY DEF BackupKept, BucketKept, bucket
<1> QED BY <1>1, <1>2

LEMMA OtherSteps ==
    ASSUME BackupsTypeOK, [BackupsNext]_backupVars,
           ~ \E w \in Jobbers : PutTar(w) \/ PutLatestTar(w) \/ PutReq(w)
    PROVE  BucketKept /\ missed \subseteq missed'
<1> USE DEF BucketKept, bucket
<1>1. CASE UseSandbox \/ WriteFiles \/ (\E v \in Sandboxes : LoseSandbox(v))
  BY <1>1 DEF UseSandbox, WriteFiles, LoseSandbox
<1>2. CASE BackupRestart
  BY <1>2 DEF BackupRestart, Booted, RestoreJob, NoJob
<1>3. ASSUME NEW w \in Jobbers, NEW pause \in BOOLEAN, StartBackup(w, pause)
      PROVE  BucketKept /\ missed \subseteq missed'
  <2>1. UNCHANGED bucket /\ missed \subseteq missed'
    BY <1>3 DEF StartBackup
  <2>2. ASSUME NEW x \in Jobbers, job'[x].pc \in {"latestTar", "req"} PROVE job'[x] = job[x]
    <3>1. x # w
      BY <1>3, <2>2 DEF StartBackup
    <3>2. CASE JobAt(x, "pack") /\ job[x].sbx = held'
      <4>1. job'[x] = [job[x] EXCEPT !.alone = FALSE]
        BY <1>3, <3>1, <3>2 DEF StartBackup
      <4>2. job[x] \in [pc: {"pack"}, sbx: Sandboxes, pause: BOOLEAN, alone: BOOLEAN]
        BY <3>2, JobFields DEF JobAt
      <4>3. job'[x].pc = "pack"
        BY <4>1, <4>2
      <4> QED BY <2>2, <4>3
    <3>3. CASE ~(JobAt(x, "pack") /\ job[x].sbx = held')
      BY <1>3, <3>1, <3>3 DEF StartBackup
    <3> QED BY <3>2, <3>3
  <2> QED BY <2>1, <2>2
<1>4. ASSUME NEW w \in Jobbers, NEW j, Begin(w, j), j.pc \notin {"latestTar", "req"},
             UNCHANGED bucket, missed \subseteq missed'
      PROVE  BucketKept /\ missed \subseteq missed'
  BY <1>4, BeginsJob
<1>5. ASSUME NEW w \in Jobbers, EndJob(w) \/ Begin(w, RestoreJob(FALSE)), UNCHANGED bucket,
             missed \subseteq missed'
      PROVE  BucketKept /\ missed \subseteq missed'
  <2>1. NoJob.pc \notin {"latestTar", "req"} /\ RestoreJob(FALSE).pc \notin {"latestTar", "req"}
    BY DEF NoJob, RestoreJob
  <2> QED BY <1>4, <1>5, <2>1 DEF EndJob
<1>6. ASSUME NEW w \in Jobbers, Pack(w) PROVE BucketKept /\ missed \subseteq missed'
  <2>1. PICK copy : Begin(w, [pc |-> "tar", copy |-> copy, pause |-> job[w].pause])
    BY <1>6 DEF Pack
  <2> QED BY <1>4, <1>6, <2>1 DEF Pack
<1>7. ASSUME NEW w \in Jobbers, Download(w) PROVE BucketKept /\ missed \subseteq missed'
  <2>1. CASE latest.tar = NoCopy
    BY <1>5, <1>7, <2>1 DEF Download
  <2>2. CASE latest.tar # NoCopy
    <3>1. Begin(w, [pc |-> "extract", sbx |-> held', copy |-> latest.tar, boot |-> job[w].boot])
      BY <1>7, <2>2 DEF Download
    <3> QED BY <1>4, <1>7, <3>1 DEF Download
  <2> QED BY <2>1, <2>2
<1>8. ASSUME NEW w \in Jobbers, BackupFails(w) \/ Extract(w) \/ RestoreFails(w)
      PROVE  BucketKept /\ missed \subseteq missed'
  BY <1>5, <1>8 DEF BackupFails, Extract, RestoreFails
<1>9. CASE StartRestore
  BY <1>5, <1>9 DEF StartRestore, Jobbers
<1>10. ASSUME NEW w \in Workers, ReconnectSandbox(w) PROVE BucketKept /\ missed \subseteq missed'
  BY <1>5, <1>10 DEF ReconnectSandbox, Jobbers
<1>11. CASE UNCHANGED backupVars
  BY <1>11 DEF backupVars
<1> QED BY <1>1, <1>2, <1>3, <1>6, <1>7, <1>8, <1>9, <1>10, <1>11
        DEF BackupsNext, Backs, Restores

\* A put, and what the thread then does.
LEMMA PutSteps ==
    ASSUME BackupsTypeOK, NEW w \in Jobbers, PutTar(w) \/ PutLatestTar(w) \/ PutReq(w)
    PROVE  /\ job[w].copy \in Archive \cup {Torn}
           /\ \A x \in Jobbers \ {w} : job'[x] = job[x]
           /\ \/ BackedUp(w) /\ job'[w] = NoJob /\ ~PutTar(w)
                 /\ acked' = (IF job[w].copy = Torn THEN acked ELSE acked \cup job[w].copy)
              \/ /\ job'[w] \in Backup /\ job'[w].copy = job[w].copy
                 /\ job'[w].pc = IF PutTar(w) THEN "latestTar" ELSE "req"
                 /\ UNCHANGED <<acked, state, held, kept>>
           /\ missed' = missed /\ home' = home
           /\ PutLatestTar(w) => latest'.tar = job[w].copy /\ latest'.req = latest.req
           /\ PutReq(w) => latest'.tar = latest.tar /\ latest'.req = job[w].copy
<1>1. /\ job[w].copy \in Archive \cup {Torn}
      /\ job[w] \in [pc: {"tar", "latestTar", "req"}, copy: Archive \cup {Torn}, pause: BOOLEAN]
  BY JobFields DEF PutTar, PutLatestTar, PutReq, JobAt
<1>2. /\ missed' = missed /\ home' = home
      /\ PutLatestTar(w) => latest'.tar = job[w].copy /\ latest'.req = latest.req
      /\ PutReq(w) => latest'.tar = latest.tar /\ latest'.req = job[w].copy
  BY DEF BackupsTypeOK, PutTar, PutLatestTar, PutReq
<1>3. ASSUME BackedUp(w), ~PutTar(w)
      PROVE  /\ \A x \in Jobbers \ {w} : job'[x] = job[x]
             /\ job'[w] = NoJob
             /\ acked' = (IF job[w].copy = Torn THEN acked ELSE acked \cup job[w].copy)
  BY <1>3, BeginsJob DEF BackedUp, EndJob
<1>4. ASSUME NEW pc \in {"latestTar", "req"}, Begin(w, [job[w] EXCEPT !.pc = pc])
      PROVE  /\ \A x \in Jobbers \ {w} : job'[x] = job[x]
             /\ job'[w] \in Backup /\ job'[w].copy = job[w].copy /\ job'[w].pc = pc
  <2>1. job'[w] = [job[w] EXCEPT !.pc = pc] /\ \A x \in Jobbers \ {w} : job'[x] = job[x]
    BY <1>4, BeginsJob
  <2> QED BY <1>1, <2>1 DEF Backup
<1>5. CASE PutTar(w)
  <2>1. Begin(w, [job[w] EXCEPT !.pc = "latestTar"]) /\ UNCHANGED <<acked, state, held, kept>>
    BY <1>5 DEF PutTar
  <2> QED BY <1>1, <1>2, <1>4, <1>5, <2>1
<1>6. CASE PutLatestTar(w) /\ ~PutTar(w)
  <2>1. \/ BackedUp(w)
        \/ Begin(w, [job[w] EXCEPT !.pc = "req"]) /\ UNCHANGED <<acked, state, held, kept>>
    BY <1>6 DEF PutLatestTar
  <2> QED BY <1>1, <1>2, <1>3, <1>4, <1>6, <2>1
<1>7. CASE PutReq(w) /\ ~PutTar(w)
  BY <1>1, <1>2, <1>3, <1>7 DEF PutReq
<1> QED BY <1>5, <1>6, <1>7

LEMMA PutsKeepKeys ==
    ASSUME BackupsTypeOK, HasKey, AllWhole, BackupKept, missed = {} => Unharmed,
           NEW w \in Jobbers, PutTar(w) \/ PutLatestTar(w) \/ PutReq(w)
    PROVE  HasKey' /\ BackupKept'
<1> DEFINE copy == job[w].copy
<1>1. missed = {} => copy \in Archive /\ BackupInHand(w)
  BY DEF Unharmed, BackingUp, BackupInHand, PutTar, PutLatestTar, PutReq, JobAt
<1>2. HasKey'
  <2>1. CASE PutTar(w)
    <3>1. "overlap" \notin missed => stored \subseteq stored' /\ copy \in stored' \cup {Torn}
      BY <2>1 DEF PutTar
    <3> QED BY <2>1, <3>1, PutSteps DEF HasKey, NoJob
  <2>2. CASE PutLatestTar(w) \/ PutReq(w)
    BY <2>2, PutSteps DEF HasKey, PutLatestTar, PutReq, JobAt, NoJob
  <2> QED BY <2>1, <2>2
<1>3. BackupKept'
  <2>1. CASE PutTar(w)
    <3>1. acked' = acked /\ latest' = latest /\ missed' = missed
      BY <2>1 DEF PutTar
    <3>2. "overlap" \notin missed => stored \subseteq stored'
      BY <2>1 DEF PutTar
    <3> QED BY <3>1, <3>2 DEF BackupKept
  <2>2. CASE PutLatestTar(w) \/ PutReq(w)
    <3>1. stored' = stored /\ missed' = missed
      BY <2>2 DEF PutLatestTar, PutReq
    <3>2. acked' = acked \/ (copy # Torn /\ acked' = acked \cup copy)
      BY <2>2, PutSteps
    <3>3. "overlap" \notin missed => copy \in stored
      BY <2>2 DEF HasKey, AllWhole, WholeJob, PutLatestTar, PutReq, JobAt
    <3>4. ASSUME "overlap" \notin missed'
          PROVE  acked' \subseteq UNION stored' /\ latest'.tar \in stored' \cup {NoCopy}
      <4>1. acked \subseteq UNION stored /\ latest.tar \in stored \cup {NoCopy} /\ copy \in stored
        BY <3>1, <3>3, <3>4 DEF BackupKept
      <4>2. latest'.tar \in {latest.tar, copy}
        BY <2>2, PutSteps
      <4> QED BY <3>1, <3>2, <4>1, <4>2
    <3>5. ASSUME missed' = {}
          PROVE  /\ latest'.tar \in Archive /\ acked' \subseteq latest'.tar
                 /\ latest'.req # NoCopy => latest'.req \subseteq latest'.tar
      <4>1. missed = {} /\ copy \in Archive /\ BackupInHand(w)
        BY <1>1, <3>5, PutSteps
      <4>2. CASE PutLatestTar(w)
        <5>1. latest'.tar = copy /\ latest'.req = latest.req
          BY <4>2, PutSteps
        <5>2. latest.tar # NoCopy => latest.tar \subseteq copy
          BY <4>1, <4>2 DEF BackupInHand, PutLatestTar, JobAt
        <5> QED BY <3>2, <4>1, <5>1, <5>2 DEF BackupKept
      <4>3. CASE PutReq(w)
        <5>1. latest'.tar = copy /\ latest'.req = copy /\ latest.tar = copy
          BY <4>1, <4>3, PutSteps DEF BackupInHand, PutReq
        <5> QED BY <3>2, <4>1, <5>1, Archives DEF BackupKept
      <4> QED BY <2>2, <4>2, <4>3
    <3> QED BY <3>4, <3>5, Archives DEF BackupKept
  <2> QED BY <2>1, <2>2
<1> QED BY <1>2, <1>3

\* What is packed alone is whole, and stays so.
LEMMA WholeStep ==
    ASSUME BackupsTypeOK, AllWhole, [BackupsNext]_backupVars
    PROVE  AllWhole'
<1>1. missed \subseteq missed'
  BY OtherSteps, PutSteps
<1> SUFFICES ASSUME "overlap" \notin missed' PROVE \A x \in Jobbers : WholeJob(x)'
  BY DEF AllWhole
<1>2. \A x \in Jobbers : WholeJob(x)
  BY <1>1 DEF AllWhole
<1>3. ASSUME job' = job PROVE \A x \in Jobbers : WholeJob(x)'
  BY <1>2, <1>3 DEF WholeJob, JobAt
<1>4. ASSUME NEW w \in Jobbers, NEW j, Begin(w, j),
             j.pc \notin {"pack", "tar", "latestTar", "req"} \/ (j.pc = "tar" /\ j.copy # Torn)
      PROVE  \A x \in Jobbers : WholeJob(x)'
  BY <1>2, <1>4, BeginsJob DEF WholeJob, JobAt
<1>5. ASSUME NEW w \in Jobbers, EndJob(w) \/ Begin(w, RestoreJob(FALSE))
      PROVE  \A x \in Jobbers : WholeJob(x)'
  <2>1. NoJob.pc = "none" /\ RestoreJob(FALSE).pc = "start"
    BY DEF NoJob, RestoreJob
  <2> QED BY <1>4, <1>5, <2>1 DEF EndJob
<1>6. ASSUME NEW w \in Jobbers, PutTar(w) \/ PutLatestTar(w) \/ PutReq(w)
      PROVE  \A x \in Jobbers : WholeJob(x)'
  <2>1. job'[w] = NoJob \/ (job'[w].copy = job[w].copy /\ job'[w].pc \in {"latestTar", "req"})
    BY <1>6, PutSteps
  <2>2. job[w].copy # Torn /\ \A x \in Jobbers \ {w} : job'[x] = job[x]
    BY <1>2, <1>6, PutSteps DEF WholeJob, PutTar, PutLatestTar, PutReq, JobAt
  <2> QED BY <1>2, <2>1, <2>2 DEF WholeJob, JobAt, NoJob
<1>7. ASSUME NEW w \in Jobbers, Pack(w) PROVE \A x \in Jobbers : WholeJob(x)'
  <2>1. JobAt(w, "pack") /\ job[w].alone /\ job[w].sbx \in Sandboxes
    BY <1>2, <1>7, JobFields DEF Pack, WholeJob, JobAt
  <2>2. Begin(w, [pc |-> "tar", copy |-> home[job[w].sbx], pause |-> job[w].pause])
    BY <1>7, <2>1 DEF Pack
  <2>3. home[job[w].sbx] # Torn
    BY <2>1, Archives DEF BackupsTypeOK
  <2> QED BY <1>4, <2>2, <2>3
<1>8. ASSUME NEW w \in Jobbers, NEW pause \in BOOLEAN, StartBackup(w, pause)
      PROVE  \A x \in Jobbers : WholeJob(x)'
  <2>1. \A x \in Jobbers \ {w} : job[x] = NoJob
    BY <1>8 DEF StartBackup, Overlapped, OthersBusy
  <2>2. \A x \in Jobbers : ~JobAt(x, "pack")
    BY <1>8, <2>1 DEF StartBackup, JobAt, NoJob
  <2>3. job'[w] = [pc |-> "pack", sbx |-> held', pause |-> pause, alone |-> TRUE]
    BY <1>8, <2>2 DEF StartBackup, BackupsTypeOK
  <2>4. \A x \in Jobbers \ {w} : job'[x] = NoJob
    BY <1>8, <2>1, <2>2 DEF StartBackup, BackupsTypeOK
  <2> QED BY <2>3, <2>4 DEF WholeJob, JobAt, NoJob
<1>9. ASSUME NEW w \in Jobbers, Restores(w) \/ BackupFails(w)
      PROVE  \A x \in Jobbers : WholeJob(x)'
  <2>1. CASE Download(w) /\ latest.tar # NoCopy
    <3>1. Begin(w, [pc |-> "extract", sbx |-> held', copy |-> latest.tar, boot |-> job[w].boot])
      BY <2>1 DEF Download
    <3> QED BY <1>4, <3>1
  <2> QED BY <1>5, <1>9, <2>1 DEF Restores, Download, Extract, RestoreFails, BackupFails
<1>10. CASE BackupRestart
  BY <1>10 DEF BackupRestart, Booted, RestoreJob, NoJob, WholeJob, JobAt
<1>11. CASE StartRestore \/ (\E w \in Workers : ReconnectSandbox(w))
  BY <1>5, <1>11 DEF StartRestore, ReconnectSandbox, Jobbers
<1>12. CASE UseSandbox \/ WriteFiles \/ UNCHANGED backupVars \/ (\E v \in Sandboxes : LoseSandbox(v))
  BY <1>3, <1>12 DEF UseSandbox, WriteFiles, LoseSandbox, backupVars
<1> QED BY <1>6, <1>7, <1>8, <1>9, <1>10, <1>11, <1>12 DEF BackupsNext, Backs

\* At the end of a backup the sandbox stays, is paused, or is forgotten.
LEMMA PauseKeeps ==
    ASSUME BackupsTypeOK, NEW w \in Jobbers, PauseIf(w), held # NoBox
    PROVE  Current' \in {held, NoBox} /\ (Gone(held) => Gone(Current)')
<1> USE DEF BackupsTypeOK, Current, Gone
<1>1. CASE UNCHANGED <<state, held, kept>>
  BY <1>1
<1>2. CASE held' = NoBox /\ kept' = held /\ Up(held) /\ state' = [state EXCEPT ![held] = "paused"]
  BY <1>2, BackupsAssumption DEF Up
<1>3. CASE held' = NoBox /\ kept' = NoBox
  BY <1>3
<1> QED BY <1>1, <1>2, <1>3 DEF PauseIf, Pause

LEMMA PutsUnharmed ==
    ASSUME BackupsTypeOK, Unharmed, NEW w \in Jobbers,
           PutTar(w) \/ PutLatestTar(w) \/ PutReq(w)
    PROVE  Unharmed'
<1>1. BackupInHand(w) /\ ~JobAt(w, "pack") /\ job[w].pc \in {"tar", "latestTar", "req"}
  BY DEF Unharmed, BackingUp, PutTar, PutLatestTar, PutReq, JobAt
<1>2. \A x \in Jobbers \ {w} : job'[x] = NoJob
  BY <1>1, PutSteps DEF BackupInHand
<1>3. ~Gone(held) => Whole(held)
  <2>1. \A x \in Jobbers : ~Filling(x)
    BY <1>1 DEF BackupInHand, Filling, JobAt, NoJob
  <2> QED BY <1>1, <2>1 DEF Unharmed, BackupInHand, Current
<1>4. ~Gone(held) => (latest'.tar # NoCopy => latest'.tar \subseteq home'[held])
  <2>1. ~Gone(held) => job[w].copy \subseteq home[held]
    BY <1>1 DEF BackupInHand
  <2>2. latest'.tar \in {latest.tar, job[w].copy} /\ home' = home
    BY PutSteps DEF PutTar
  <2> QED BY <1>3, <2>1, <2>2 DEF Whole
<1>5. CASE BackedUp(w) /\ job'[w] = NoJob
  <2>1. ~Gone(Current)' => Current' = held /\ ~Gone(held)
    BY <1>1, <1>5, PauseKeeps DEF BackedUp, BackupInHand, Gone
  <2>2. ~Gone(Current)' => Whole(Current)'
    BY <1>4, <2>1 DEF Whole
  <2> QED BY <1>2, <1>5, <2>2 DEF Unharmed, BackingUp, JobAt, NoJob
<1>6. CASE /\ job'[w] \in Backup /\ job'[w].copy = job[w].copy
           /\ job'[w].pc = IF PutTar(w) THEN "latestTar" ELSE "req"
           /\ UNCHANGED <<acked, state, held, kept>>
  <2>1. ~Gone(Current)' => Whole(Current)'
    BY <1>1, <1>4, <1>6 DEF BackupInHand, Gone, Current, Whole
  <2>2. latest'.tar # NoCopy => latest'.tar \subseteq job[w].copy
    BY <1>1, PutSteps DEF BackupInHand, PutTar
  <2>3. ~PutTar(w) => latest'.tar = job[w].copy
    <3>1. PutReq(w) => job[w].copy = latest.tar
      BY <1>1 DEF BackupInHand, PutReq
    <3> QED BY <3>1, PutSteps
  <2>4. BackupInHand(w)'
    <3>1. held' # NoBox /\ ~JobAt(w, "pack")' /\ job'[w].copy \in Archive
      BY <1>1, <1>6 DEF BackupInHand, JobAt
    <3>2. ~Gone(held)' => job'[w].copy \subseteq home'[held']
      BY <1>1, <1>6, PutSteps DEF BackupInHand, Gone
    <3>3. JobAt(w, "req")' => job'[w].copy = latest'.tar
      BY <1>6, <2>3 DEF JobAt
    <3> QED BY <1>2, <1>6, <2>2, <3>1, <3>2, <3>3 DEF BackupInHand
  <2> QED BY <1>2, <1>6, <2>1, <2>4 DEF Unharmed, BackingUp, JobAt, NoJob
<1> QED BY <1>5, <1>6, PutSteps

-----------------------------------------------------------------------------
(* What else can happen while nothing has been missed. *)

\* With nothing held, nothing is backed up or unpacked.
LEMMA NothingHeld ==
    ASSUME Unharmed, held = NoBox
    PROVE  \A w \in Jobbers : ~BackingUp(w) /\ ~JobAt(w, "extract")
BY DEF Unharmed, BackupInHand

\* Connecting, where it may not create a sandbox unnoticed.
LEMMA EnsureKeeps ==
    ASSUME BackupsTypeOK, Unharmed, EnsureSandbox, Skipped = {}, latest' = latest
    PROVE  /\ held' \in Sandboxes /\ Current' = held'
           /\ held # NoBox => UNCHANGED <<home, state, held>>
           /\ ~Gone(Current)' => \/ Whole(Current)'
                                 \/ ~Gone(Current) /\ Current' = Current /\ home' = home
<1> USE DEF BackupsTypeOK
<1>1. held' \in Sandboxes /\ Current' = held'
  BY EnsureTyped, BackupsAssumption DEF Current
<1>2. CASE held # NoBox
  BY <1>1, <1>2 DEF EnsureSandbox, Current, Gone
<1>3. CASE held = NoBox /\ ~Gone(kept) /\ held' = kept /\ UNCHANGED <<home, kept>>
  BY <1>1, <1>3 DEF Current
<1>4. CASE held = NoBox /\ \E v \in Sandboxes : NewSandbox(v)
  <2>1. state[held'] = "off"
    BY <1>4 DEF NewSandbox
  <2>2. latest.tar = NoCopy
    BY <1>4, <2>1 DEF Skipped
  <2> QED BY <1>1, <1>4, <2>2 DEF Whole
<1> QED BY <1>2, <1>3, <1>4 DEF EnsureSandbox

LEMMA UseUnharmed ==
    ASSUME BackupsTypeOK, Unharmed, UseSandbox, missed' = {}
    PROVE  Unharmed'
<1>1. /\ held = NoBox /\ EnsureSandbox /\ Skipped = {} /\ latest' = latest /\ job' = job
  BY DEF UseSandbox, bucket
<1>2. \A w \in Jobbers : ~BackingUp(w)' /\ ~JobAt(w, "extract")'
  BY <1>1, NothingHeld DEF BackingUp, JobAt
<1>3. ~Gone(Current)' => Whole(Current)' \/ \E w \in Jobbers : Filling(w)'
  <2>1. \A w \in Jobbers : Filling(w) => Filling(w)'
    BY <1>1, NothingHeld DEF Filling, JobAt
  <2>2. ASSUME ~Gone(Current), Current' = Current, home' = home, Whole(Current)
        PROVE  Whole(Current)'
    BY <1>1, <2>2 DEF Whole
  <2> QED BY <1>1, <2>1, <2>2, EnsureKeeps DEF Unharmed
<1> QED BY <1>2, <1>3 DEF Unharmed

LEMMA WriteUnharmed ==
    ASSUME BackupsTypeOK, Unharmed, WriteFiles
    PROVE  Unharmed'
<1>1. \A v \in Sandboxes : home[v] \subseteq home'[v]
  BY DEF BackupsTypeOK, WriteFiles, Up
<1>2. UNCHANGED <<state, held, kept, latest, job>>
  BY DEF WriteFiles, bucket
<1>3. \A v \in Sandboxes \cup {NoBox} : Gone(v)' = Gone(v)
  BY <1>2 DEF Gone
<1>4. \A v \in Sandboxes : Whole(v) => Whole(v)'
  BY <1>1, <1>2 DEF Whole
<1>5. Current' = Current /\ Current \in Sandboxes \cup {NoBox} /\ ~Gone(NoBox)' = FALSE
  BY <1>2 DEF Current, BackupsTypeOK, Gone
<1>6. \A w \in Jobbers :
        /\ BackupInHand(w) => BackupInHand(w)'
        /\ Filling(w)' = Filling(w) /\ BackingUp(w)' = BackingUp(w)
        /\ JobAt(w, "extract")' = JobAt(w, "extract")
  BY <1>1, <1>2, <1>3, <1>5 DEF BackupInHand, Filling, BackingUp, JobAt, BackupsTypeOK
<1> QED BY <1>2, <1>3, <1>4, <1>5, <1>6 DEF Unharmed, Gone

LEMMA LoseUnharmed ==
    ASSUME BackupsTypeOK, Unharmed, NEW v \in Sandboxes, LoseSandbox(v)
    PROVE  Unharmed'
<1>1. /\ \A x \in Sandboxes \ {v} : home'[x] = home[x] /\ state'[x] = state[x]
      /\ state'[v] = "off" /\ UNCHANGED <<held, kept, latest, job>>
  BY DEF BackupsTypeOK, LoseSandbox, bucket
<1>2. \A x \in Sandboxes : ~Gone(x)' => ~Gone(x) /\ home'[x] = home[x]
  BY <1>1, BackupsAssumption DEF Gone
<1>3. Current' = Current /\ Current \in Sandboxes \cup {NoBox}
  BY <1>1 DEF Current, BackupsTypeOK
<1>4. ~Gone(Current)' => Whole(Current)' \/ \E w \in Jobbers : Filling(w)'
  <2>1. ASSUME ~Gone(Current)' PROVE Current \in Sandboxes /\ ~Gone(Current)
    BY <1>2, <1>3, <2>1 DEF Gone
  <2>2. \A w \in Jobbers : Filling(w) => Filling(w)'
    BY <1>1, <1>3 DEF Filling, JobAt
  <2>3. ASSUME Whole(Current), ~Gone(Current)' PROVE Whole(Current)'
    BY <1>1, <1>2, <1>3, <2>1, <2>3 DEF Whole
  <2> QED BY <2>1, <2>2, <2>3 DEF Unharmed
<1>5. \A w \in Jobbers : BackupInHand(w) => BackupInHand(w)'
  BY <1>1, <1>2 DEF BackupInHand, JobAt, BackupsTypeOK
<1> QED BY <1>1, <1>4, <1>5 DEF Unharmed, BackingUp, JobAt

\* A step of a restore, and the start of one.
LEMMA RestoreUnharmed ==
    ASSUME BackupsTypeOK, Unharmed, NEW w \in Jobbers, missed' = {},
           Download(w) \/ Extract(w) \/ RestoreFails(w)
    PROVE  Unharmed'
<1> USE DEF BackupsTypeOK
<1>1. \A x \in Jobbers : ~BackingUp(x)
  <2>1. job[w].pc \in {"start", "extract"}
    BY DEF Download, Extract, RestoreFails, Restoring, JobAt
  <2> QED BY <2>1 DEF Unharmed, BackingUp, BackupInHand, NoJob
<1>2. \A x \in Jobbers \ {w} : job'[x] = job[x]
  BY BeginsJob DEF Download, Extract, RestoreFails, EndJob
<1>3. latest' = latest /\ ~RestoreFails(w)
  BY DEF Download, Extract, RestoreFails, bucket
<1>4. CASE Download(w) /\ latest.tar = NoCopy
  <2>1. job'[w] = NoJob /\ held' = held
    BY <1>4, BeginsJob DEF Download, EndJob
  <2>2. Whole(Current)'
    BY <1>3, <1>4 DEF Whole
  <2> QED BY <1>1, <1>2, <1>3, <2>1, <2>2 DEF Unharmed, BackingUp, JobAt, NoJob
<1>5. CASE Download(w) /\ latest.tar # NoCopy
  <2>1. /\ EnsureSandbox
        /\ job'[w] = [pc |-> "extract", sbx |-> held', copy |-> latest.tar, boot |-> job[w].boot]
    BY <1>5, BeginsJob DEF Download
  <2>2. held' \in Sandboxes /\ held' # NoBox /\ Current' = held'
    BY <2>1, EnsureTyped, BackupsAssumption DEF Current
  <2>3. Filling(w)'
    BY <2>1, <2>2 DEF Filling, JobAt
  <2>4. ~BackingUp(w)' /\ job'[w].copy = latest.tar
    BY <2>1 DEF BackingUp
  <2> QED BY <1>1, <1>2, <1>3, <2>2, <2>3, <2>4 DEF Unharmed, BackingUp, JobAt
<1>6. CASE Extract(w)
  <2>1. /\ job'[w] = NoJob /\ UNCHANGED <<state, held, kept>> /\ Current' = Current
        /\ job[w].copy = latest.tar /\ job[w].sbx \in Sandboxes
    BY <1>6, BeginsJob, JobFields DEF Extract, EndJob, Unharmed, Current, JobAt
  <2>2. /\ \A v \in Sandboxes : home[v] \subseteq home'[v]
        /\ home'[job[w].sbx] = home[job[w].sbx] \cup latest.tar
    BY <1>6, <2>1 DEF Extract
  <2>3. ASSUME ~Gone(Current)' PROVE Whole(Current)' \/ \E x \in Jobbers : Filling(x)'
    <3>1. ~Gone(Current) /\ Current \in Sandboxes
      BY <2>1, <2>3 DEF Gone, Current
    <3>2. CASE job[w].sbx = Current
      BY <1>3, <2>1, <2>2, <3>2 DEF Whole
    <3>3. CASE Whole(Current)
      BY <1>3, <2>1, <2>2, <3>1, <3>3 DEF Whole
    <3>4. ASSUME NEW x \in Jobbers, Filling(x), job[w].sbx # Current PROVE Filling(x)'
      <4>1. x # w
        BY <1>6, <3>4 DEF Filling, Extract, JobAt
      <4> QED BY <1>2, <2>1, <3>4, <4>1 DEF Filling, JobAt
    <3> QED BY <3>1, <3>2, <3>3, <3>4 DEF Unharmed
  <2> QED BY <1>1, <1>2, <1>3, <2>1, <2>3 DEF Unharmed, BackingUp, JobAt, NoJob
<1> QED BY <1>3, <1>4, <1>5, <1>6

LEMMA StartUnharmed ==
    ASSUME BackupsTypeOK, Unharmed, NEW w \in Jobbers, missed' = {}, latest' = latest,
           Begin(w, RestoreJob(FALSE)), job[w] = NoJob, ~OthersBackUp(w),
           held' = held \/ held' # NoBox
    PROVE  Unharmed'
<1>1. job'[w] = RestoreJob(FALSE) /\ \A x \in Jobbers \ {w} : job'[x] = job[x]
  BY BeginsJob
<1>2. \A x \in Jobbers : ~BackingUp(x)'
  BY <1>1 DEF OthersBackUp, BackingUp, RestoreJob
<1>3. Filling(w)' /\ ~JobAt(w, "extract")'
  BY <1>1 DEF Filling, JobAt, RestoreJob
<1> QED BY <1>1, <1>2, <1>3 DEF Unharmed, JobAt

LEMMA RestartUnharmed ==
    ASSUME BackupsTypeOK, BackupRestart
    PROVE  Unharmed'
<1>1. /\ job'[Server] = RestoreJob(TRUE) /\ Server \in Jobbers
      /\ \A w \in Jobbers \ {Server} : job'[w] = NoJob
  BY DEF BackupRestart, Booted, Jobbers
<1>2. Filling(Server)' /\ \A w \in Jobbers : ~BackingUp(w)' /\ ~JobAt(w, "extract")'
  BY <1>1 DEF Filling, BackingUp, JobAt, RestoreJob, NoJob
<1> QED BY <1>1, <1>2 DEF Unharmed

\* A backup starts beside nothing, or something is missed.
LEMMA StartBackupUnharmed ==
    ASSUME BackupsTypeOK, Unharmed, NEW w \in Jobbers, NEW pause \in BOOLEAN,
           StartBackup(w, pause), missed' = {}
    PROVE  Unharmed'
<1>1. /\ \A x \in Jobbers : job[x] = NoJob
      /\ EnsureSandbox /\ Skipped = {} /\ latest' = latest
  BY DEF StartBackup, Overlapped, OthersBusy, bucket
<1>2. \A x \in Jobbers : ~JobAt(x, "pack") /\ ~Filling(x)
  BY <1>1 DEF JobAt, Filling, NoJob
<1>3. /\ job'[w] = [pc |-> "pack", sbx |-> held', pause |-> pause, alone |-> TRUE]
      /\ \A x \in Jobbers \ {w} : job'[x] = NoJob
  <2>1. {x \in Jobbers : JobAt(x, "pack") /\ job[x].sbx = held'} = {}
    BY <1>2
  <2> QED BY <1>1, <2>1 DEF StartBackup
<1>4. ~Gone(Current)' => Whole(Current)'
  BY <1>1, <1>2, EnsureKeeps DEF Unharmed, Whole
<1>5. BackupInHand(w)'
  BY <1>1, <1>3, EnsureTyped, BackupsAssumption DEF BackupInHand, JobAt
<1> QED BY <1>3, <1>4, <1>5 DEF Unharmed, BackingUp, JobAt, NoJob

\* One moment's home directory is packed.
LEMMA PackUnharmed ==
    ASSUME BackupsTypeOK, Unharmed, NEW w \in Jobbers, Pack(w)
    PROVE  Unharmed'
<1>1. /\ BackupInHand(w) /\ JobAt(w, "pack") /\ Up(job[w].sbx)
      /\ UNCHANGED <<home, state, held, kept, latest>>
  BY DEF Unharmed, Pack, BackingUp, JobAt, bucket
<1>2. /\ job[w].sbx = held /\ job[w].alone /\ held \in Sandboxes /\ held # NoBox /\ ~Gone(held)
      /\ \A x \in Jobbers \ {w} : job[x] = NoJob
  BY <1>1, JobFields DEF BackupInHand, Up, Gone, JobAt
<1>3. Whole(held) /\ Current = held
  <2>1. \A x \in Jobbers : ~Filling(x)
    BY <1>1, <1>2 DEF Filling, JobAt, NoJob
  <2> QED BY <1>2, <2>1 DEF Unharmed, Current
<1>4. Begin(w, [pc |-> "tar", copy |-> home[held], pause |-> job[w].pause])
  BY <1>2 DEF Pack
<1>5. /\ job'[w] = [pc |-> "tar", copy |-> home[held], pause |-> job[w].pause]
      /\ \A x \in Jobbers \ {w} : job'[x] = NoJob
  BY <1>2, <1>4, BeginsJob
<1>6. home[held] \in Archive
  BY <1>2 DEF BackupsTypeOK
<1>7. BackupInHand(w)'
  BY <1>1, <1>2, <1>3, <1>5, <1>6 DEF BackupInHand, JobAt, Whole, Gone
<1>8. Whole(Current)'
  BY <1>1, <1>3 DEF Whole, Current
<1> QED BY <1>5, <1>7, <1>8 DEF Unharmed, BackingUp, JobAt, NoJob

LEMMA FailUnharmed ==
    ASSUME BackupsTypeOK, Unharmed, NEW w \in Jobbers, BackupFails(w)
    PROVE  Unharmed'
<1>1. BackupInHand(w) /\ held # NoBox /\ UNCHANGED <<home, latest>> /\ PauseIf(w)
  BY DEF Unharmed, BackupFails, BackupInHand, bucket
<1>2. \A x \in Jobbers : job'[x] = NoJob /\ ~Filling(x)
  BY <1>1, BeginsJob DEF BackupFails, EndJob, BackupInHand, Filling, BackingUp, JobAt, NoJob
<1>3. ~Gone(Current)' => Current' = held /\ ~Gone(held)
  BY <1>1, PauseKeeps DEF Gone
<1>4. ~Gone(Current)' => Whole(Current)'
  BY <1>1, <1>2, <1>3 DEF Unharmed, Current, Whole
<1> QED BY <1>2, <1>4 DEF Unharmed, BackingUp, JobAt, NoJob

LEMMA BackupsInvStep ==
    ASSUME BackupsTypeOK, BackupsInv, [BackupsNext]_backupVars
    PROVE  BackupsInv'
<1>1. CASE \E w \in Jobbers : PutTar(w) \/ PutLatestTar(w) \/ PutReq(w)
  BY <1>1, PutsKeepKeys, WholeStep, PutsUnharmed, PutSteps DEF BackupsInv
<1>2. CASE ~ \E w \in Jobbers : PutTar(w) \/ PutLatestTar(w) \/ PutReq(w)
  <2>1. BucketKept /\ missed \subseteq missed'
    BY <1>2, OtherSteps
  <2>2. HasKey' /\ BackupKept'
    BY <2>1, KeysKept DEF BackupsInv
  <2> SUFFICES ASSUME missed' = {} PROVE Unharmed'
    BY <2>2, WholeStep DEF BackupsInv
  <2>3. Unharmed /\ latest' = latest
    BY <2>1 DEF BackupsInv, BucketKept, bucket
  <2>4. CASE UseSandbox
    BY <2>3, <2>4, UseUnharmed
  <2>5. CASE WriteFiles \/ (\E v \in Sandboxes : LoseSandbox(v))
    BY <2>3, <2>5, WriteUnharmed, LoseUnharmed
  <2>6. CASE BackupRestart
    BY <2>6, RestartUnharmed
  <2>7. CASE StartRestore
    BY <2>3, <2>7, StartUnharmed DEF StartRestore, Overlapped, Jobbers
  <2>8. ASSUME NEW w \in Workers, ReconnectSandbox(w) PROVE Unharmed'
    <3>1. held' # NoBox
      BY <2>8, BackupsAssumption DEF ReconnectSandbox, NewSandbox
    <3> QED BY <2>3, <2>8, <3>1, StartUnharmed DEF ReconnectSandbox, Overlapped, Jobbers
  <2>9. CASE \E w \in Jobbers, pause \in BOOLEAN : StartBackup(w, pause)
    BY <2>3, <2>9, StartBackupUnharmed
  <2>10. CASE \E w \in Jobbers : Pack(w) \/ BackupFails(w)
    BY <2>3, <2>10, PackUnharmed, FailUnharmed
  <2>11. CASE \E w \in Jobbers : Restores(w)
    BY <2>3, <2>11, RestoreUnharmed DEF Restores
  <2>12. CASE UNCHANGED backupVars
    BY <2>3, <2>12 DEF backupVars, Unharmed, Gone, Current, Whole, Filling, BackingUp, JobAt,
                       BackupInHand
  <2> QED BY <1>2, <2>4, <2>5, <2>6, <2>7, <2>8, <2>9, <2>10, <2>11, <2>12
          DEF BackupsNext, Backs
<1> QED BY <1>1, <1>2

LEMMA BackupsInvariant == BackupsSpec => [](BackupsTypeOK /\ BackupsInv)
<1>1. BackupsTypeOK /\ BackupsInv /\ [BackupsNext]_backupVars => (BackupsTypeOK /\ BackupsInv)'
  BY BackupsTypeStep, BackupsInvStep
<1> QED BY <1>1, BackupsTypeInit, BackupsInvInit, PTL DEF BackupsSpec

\* For any threads, sandboxes and changes: as long as no backup has gone on
\* beside another job, all that was ever acknowledged is in the bucket under some
\* key.  If no restore was missed either, the latest archive has it too, and its
\* packages are not of a later one.
THEOREM BackupsKept == BackupsSpec => []BackupKept
<1>1. BackupsInv => BackupKept
  BY DEF BackupsInv
<1> QED BY <1>1, BackupsInvariant, PTL

\* Under both hypotheses a sandbox in use holds all that was ever
\* acknowledged: also when restores overlap and sandboxes are lost under them.
THEOREM AlwaysRestored == BackupsSpec => []AckedRestored
<1>1. BackupsInv => AckedRestored
  <2> SUFFICES ASSUME BackupsInv, missed = {}, InUse PROVE acked \subseteq home[held]
    BY DEF AckedRestored
  <2>1. \A w \in Jobbers : ~Filling(w)
    BY DEF InUse, Restoring, Filling, JobAt
  <2>2. Whole(held)
    BY <2>1 DEF BackupsInv, Unharmed, InUse, Up, Gone, Current
  <2>3. latest.tar = NoCopy => acked = {}
    BY DEF BackupsInv, BackupKept
  <2> QED BY <2>2, <2>3 DEF BackupsInv, BackupKept, Whole
<1> QED BY <1>1, BackupsInvariant, PTL
=============================================================================
