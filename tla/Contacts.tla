------------------------------ MODULE Contacts ------------------------------
(***************************************************************************)
(* core/messaging.py: the directory of contacts and the sending of a       *)
(* message to one of them.  Bots capture whom they hear from and the agent *)
(* adds contacts by hand, each by one statement in a thread, while sends   *)
(* go on: a send makes up to two queries, then calls a bot.                *)
(***************************************************************************)
EXTENDS Naturals, Sequences, FiniteSets

CONSTANTS Platforms,   \* VALID_PLATFORMS
          NoPlatform,
          Default,     \* the agent's default platform, or NoPlatform
          Accounts,    \* an id on a platform each
          PlatformOf,
          Names,       \* display names, and parts of them
          Like,        \* for each of these, the names that have it as a part
          Sends,       \* messages being sent at once
          Limit        \* of the second query

ASSUME ContactsAssumption ==
    /\ NoPlatform \notin Platforms
    /\ Default \in Platforms \cup {NoPlatform}
    /\ PlatformOf \in [Accounts -> Platforms]
    /\ Like \in [Names -> SUBSET Names]
    /\ Limit \in Nat \ {0}

VARIABLES directory,  \* the table contacts, last updated first
          send        \* what each message is going through

contactVars == <<directory, send>>

AccountKinds == {"user", "group"}
Override == Platforms \cup {NoPlatform}

Contact == [account: Accounts, kind: AccountKinds, name: Names]

\* known: the account comes from the directory.
NoSend == [pc |-> "idle"]
Sending == [pc: {"exact", "fuzzy"}, to: Names, override: Override]
    \cup [pc: {"bot"}, to: Accounts, kind: AccountKinds, known: BOOLEAN, target: Platforms]

ContactsTypeOK ==
    /\ directory \in Seq(Contact)
    /\ \A i, j \in 1..Len(directory) : directory[i].account = directory[j].account => i = j
    /\ send \in [Sends -> {NoSend} \cup Sending]

ContactsInit ==
    /\ directory = <<>>
    /\ send = [s \in Sends |-> NoSend]

\* Rows are named by their positions: the least is the last updated.
Of(account) == {i \in 1..Len(directory) : directory[i].account = account}
Latest(rows) == CHOOSE i \in rows : \A j \in rows : i <= j

Insert(row) == directory' = <<row>> \o directory
\* The row at position i, which goes to the front.
Update(i, row) ==
    directory' = [j \in 1..Len(directory) |->
        IF j = 1 THEN row ELSE directory[IF j <= i THEN j - 1 ELSE j]]
-----------------------------------------------------------------------------
\* Mutant: inserted beside the old row.
UpsertContactTwice(account, kind, name) ==
    /\ Len(directory) < 3
    /\ Insert([account |-> account, kind |-> kind, name |-> name])
    /\ UNCHANGED send

\* Mutant: the kind is written over too.
UpsertContactAll(account, kind, name) ==
    /\ LET old == Of(account)
           new == [account |-> account, kind |-> kind, name |-> name]
       IN IF old = {} THEN Insert(new) ELSE Update(Latest(old), new)
    /\ UNCHANGED send

\* ON CONFLICT only the name is written, be it one that was given by hand.
UpsertContact(account, kind, name) ==
    /\ LET old == Of(account)
           Row(k) == [account |-> account, kind |-> k, name |-> name]
       IN IF old = {}
          THEN Insert(Row(kind))
          ELSE Update(Latest(old), Row(directory[Latest(old)].kind))
    /\ UNCHANGED send

\* A bot captures who wrote and, unless it was to the bot alone, where; the
\* agent adds whom it likes.
CaptureUser(account, name) == UpsertContact(account, "user", name)
CaptureGroup(account, name) == UpsertContact(account, "group", name)
AddContact(account, kind, name) == UpsertContact(account, kind, name)

\* Mutant: the latest match, whatever its platform.
LatestMatch(rows, platform) == directory[Latest(rows)]

\* One of several: the latest on the platform preferred, or the latest.
BestMatch(rows, platform) ==
    LET there == {i \in rows : PlatformOf[directory[i].account] = platform}
    IN directory[Latest(IF there = {} THEN rows ELSE there)]

Preferred(override) == IF override = NoPlatform THEN Default ELSE override

\* A platform asked for decides whose bot sends, even to another's account.
SendTo(s, account, kind, known, override) ==
    send' = [send EXCEPT ![s] =
        [pc |-> "bot", to |-> account, kind |-> kind, known |-> known,
         target |-> IF override = NoPlatform THEN PlatformOf[account] ELSE override]]

\* "lark:ou_xxx": found, or else taken for a user's id.
SendPrefixed(s, account, override) ==
    /\ send[s] = NoSend
    /\ LET rows == Of(account) IN
        IF rows = {}
        THEN SendTo(s, account, "user", FALSE, override)
        ELSE SendTo(s, account, directory[Latest(rows)].kind, TRUE, override)
    /\ UNCHANGED directory

SendNamed(s, name, override) ==
    /\ send[s] = NoSend
    /\ send' = [send EXCEPT ![s] = [pc |-> "exact", to |-> name, override |-> override]]
    /\ UNCHANGED directory

SendToBest(s, rows) ==
    LET best == BestMatch(rows, Preferred(send[s].override))
    IN SendTo(s, best.account, best.kind, TRUE, send[s].override)

FindExact(s) ==
    /\ send[s].pc = "exact"
    /\ LET rows == {i \in 1..Len(directory) : directory[i].name = send[s].to}
       IN IF rows = {}
          THEN send' = [send EXCEPT ![s].pc = "fuzzy"]
          ELSE SendToBest(s, rows)
    /\ UNCHANGED directory

\* LIMIT 5 comes before the preference.
FindFuzzy(s) ==
    /\ send[s].pc = "fuzzy"
    /\ LET all == {i \in 1..Len(directory) : directory[i].name \in Like[send[s].to]}
           rows == {i \in all : Cardinality({j \in all : j <= i}) <= Limit}
       IN IF rows = {}
          THEN send' = [send EXCEPT ![s] = NoSend]
          ELSE SendToBest(s, rows)
    /\ UNCHANGED directory

\* There is a bot of the target or not, and it fails or not: a reply anyway.
SendByBot(s) ==
    /\ send[s].pc = "bot"
    /\ send' = [send EXCEPT ![s] = NoSend]
    /\ UNCHANGED directory

ContactsNext ==
    \/ \E account \in Accounts, name \in Names :
        \/ CaptureUser(account, name) \/ CaptureGroup(account, name)
        \/ \E kind \in AccountKinds : AddContact(account, kind, name)
    \/ \E s \in Sends, override \in Override :
        \/ \E name \in Names : SendNamed(s, name, override)
        \/ \E account \in Accounts : SendPrefixed(s, account, override)
    \/ \E s \in Sends : FindExact(s) \/ FindFuzzy(s) \/ SendByBot(s)

ContactsSpec == ContactsInit /\ [][ContactsNext]_contactVars
-----------------------------------------------------------------------------
(* Properties *)

\* A bot sends to users and to groups by different calls.  What a send found
\* in the directory is still of the kind it takes it for when the bot is
\* called, whatever was captured or added meanwhile.
KindKept ==
    \A s \in Sends : send[s].pc = "bot" /\ send[s].known =>
        \E i \in 1..Len(directory) :
            directory[i].account = send[s].to /\ directory[i].kind = send[s].kind

\* A name some contact on the preferred platform has reaches a contact there
\* of just this name, though others of the name were heard from later, on any
\* platform.
NamesakePreferred ==
    [][\A s \in Sends :
        LET Namesakes == {i \in 1..Len(directory) :
                /\ directory[i].name = send[s].to
                /\ PlatformOf[directory[i].account] = Preferred(send[s].override)}
        IN send[s].pc = "exact" /\ send'[s] # send[s] /\ Namesakes # {} =>
            send'[s].pc = "bot"
                /\ \E i \in Namesakes : directory[i].account = send'[s].to]_contactVars
=============================================================================
