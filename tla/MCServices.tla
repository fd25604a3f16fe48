----------------------------- MODULE MCServices -----------------------------
(***************************************************************************)
(* The services beside the scheduler and the sandbox, for TLC: in each     *)
(* behaviour one of them runs and the others rest.  Conversation is there  *)
(* twice: several chats, each message with an id of its own, and one chat  *)
(* that goes on for ever, for the liveness of a thread.                    *)
(***************************************************************************)
EXTENDS Conversation, Dashboard, SshBackend, PlatformBots,
        Contacts, UserAccounts

CONSTANTS t1, t2, chat1, lark, discord, ou1, ou2, u3, ann, anna, m1, m2

VARIABLES service, soloThread, soloChat

SshUses == [s \in SshThreads |-> IF s = t1 THEN SshOp ELSE {"cmd"}]
AccountPlatforms == [a \in {ou1, ou2, u3} |-> IF a = u3 THEN discord ELSE lark]
NamesLike == [n \in Names |-> IF n = ann THEN {ann, anna} ELSE {n}]

Asking(email, active) ==
    [email |-> email, role |-> Keep, active |-> active, password |-> Keep]
UserAsks == {Asking(m1, TRUE), Asking(m2, Keep), Asking(Keep, FALSE)}

Solo == INSTANCE Conversation WITH
    Chats <- {chat1}, Streams <- {chat1}, MaxMessages <- 4, KeepRecent <- 2, Ids <- 1..10,
    Reuse <- TRUE, MaxLen <- 5, MaxCalls <- 1,
    Faults <- {"llm", "db", "write", "disconnect", "crash"},
    thread <- soloThread, chat <- soloChat

soloVars == <<soloThread, soloChat>>
servicesVars == <<service, vars, dashVars, sshVars, botVars, contactVars, accountVars, soloVars>>

ServicesInit ==
    /\ service \in {"chats", "solo", "dashboard", "ssh", "bots", "contacts",
                    "accounts"}
    /\ Init /\ DashInit /\ SshInit /\ BotsInit /\ ContactsInit /\ AccountsInit
    /\ Solo!Init
    /\ service # "ssh" => ~refuses
    /\ service # "bots" => botFaults = {}
    /\ service # "accounts" => "users" \in desk

ChatsRun == service = "chats" /\ Next
    /\ UNCHANGED <<service, dashVars, sshVars, botVars, contactVars, accountVars, soloVars>>
SoloRuns == service = "solo" /\ Solo!Next
    /\ UNCHANGED <<service, vars, dashVars, sshVars, botVars, contactVars, accountVars>>
DashboardRuns == service = "dashboard" /\ DashNext
    /\ UNCHANGED <<service, vars, sshVars, botVars, contactVars, accountVars, soloVars>>
SshRuns == service = "ssh" /\ SshNext
    /\ UNCHANGED <<service, vars, dashVars, botVars, contactVars, accountVars, soloVars>>
BotsRun == service = "bots" /\ BotsNext
    /\ UNCHANGED <<service, vars, dashVars, sshVars, contactVars, accountVars, soloVars>>
ContactsRun == service = "contacts" /\ ContactsNext
    /\ UNCHANGED <<service, vars, dashVars, sshVars, botVars, accountVars, soloVars>>
AccountsRun == service = "accounts" /\ AccountsNext
    /\ UNCHANGED <<service, vars, dashVars, sshVars, botVars, contactVars, soloVars>>

ServicesNext ==
    ChatsRun \/ SoloRuns \/ DashboardRuns \/ SshRuns \/ BotsRun
    \/ ContactsRun \/ AccountsRun

SshGoes(s) == service = "ssh" /\ SshProceeds(s)
    /\ UNCHANGED <<service, vars, dashVars, botVars, contactVars, accountVars, soloVars>>
SoloGoes == service = "solo" /\ Solo!Proceeds(chat1)
    /\ UNCHANGED <<service, vars, dashVars, sshVars, botVars, contactVars, accountVars>>
BotGoes(e) == service = "bots" /\ (Handle(e) \/ Stream(e))
    /\ UNCHANGED <<service, vars, dashVars, sshVars, contactVars, accountVars, soloVars>>

\* Every call of a platform, an LLM, a server or the database ends.
ServicesSpec ==
    /\ ServicesInit /\ [][ServicesNext]_servicesVars
    /\ WF_servicesVars(SoloGoes)
    /\ \A s \in SshThreads : WF_servicesVars(SshGoes(s))
    /\ \A e \in Events : WF_servicesVars(BotGoes(e))

\* Heals and Ends of the chat that goes on for ever.
SoloHeals == Solo!Heals
SoloEnds == Solo!Ends
=============================================================================
