---------------------------- MODULE PlatformBots ----------------------------
(***************************************************************************)
(* integrations/: what becomes of a message that a bot receives.  Lark and *)
(* Discord go through handle_event of base.py, Telegram streams.  Each     *)
(* message is a coroutine of the loop of its own, also two of one chat;    *)
(* none is remembered over a crash.  A step is one call of the platform or *)
(* of the agent.                                                           *)
(***************************************************************************)
EXTENDS Naturals, Sequences

CONSTANTS Events,     \* messages in hand at once
          TgChats,    \* Telegram chats
          MaxThreads  \* _MAX_THREADS

ASSUME BotsAssumption == MaxThreads \in Nat \ {0}

VARIABLES event,     \* what has become of each message, or of the last one here
          threads,   \* _threads of the Telegram bot, oldest first
          botFaults  \* what goes wrong in this behaviour, besides the agent

botVars == <<event, threads, botFaults>>

\* platform: a call of a platform fails, or is done but times out.  empty: the
\* model answers nothing.  crash: the process restarts.
BotFaults == {"platform", "empty", "crash"}

NotReceived == [pc |-> "none"]
\* note: what the "Thinking..." message shows by now.  id: whether the bot
\* knows that message.  text: the response so far.  sent: other messages sent.
Received == [pc: {"typing", "chat", "retry", "deliver", "send", "think", "stream", "finish", "end"},
             note: {"none", "thinking", "partial", "final"}, id: BOOLEAN,
             text: {"none", "part", "reply", "sorry"}, sent: Nat]

BotsTypeOK ==
    /\ event \in [Events -> {NotReceived} \cup Received]
    /\ threads \in Seq(TgChats)
    /\ \A i, j \in 1..Len(threads) : threads[i] = threads[j] => i = j
    /\ botFaults \subseteq BotFaults

BotsInit ==
    /\ event = [e \in Events |-> NotReceived]
    /\ threads = <<>>
    /\ botFaults \in SUBSET BotFaults

BotAt(e, pc) == event[e].pc = pc
NewEvent(pc) == [pc |-> pc, note |-> "none", id |-> FALSE, text |-> "none", sent |-> 0]
Receive(e, pc) ==
    /\ event[e].pc \in {"none", "end"}
    /\ event' = [event EXCEPT ![e] = NewEvent(pc)]
BotGo(e, pc) == event' = [event EXCEPT ![e].pc = pc]
Note(e, note, pc) == event' = [event EXCEPT ![e].note = note, ![e].pc = pc]
Text(e, text, pc) == event' = [event EXCEPT ![e].text = text, ![e].pc = pc]
KeepMap == UNCHANGED <<threads, botFaults>>
PlatformFails == "platform" \in botFaults
-----------------------------------------------------------------------------
(* Reception *)

\* Only Lark has a typing indicator, in direct messages.
LarkMessage(e) == (\E pc \in {"typing", "chat"} : Receive(e, pc)) /\ KeepMap
DiscordMessage(e) == Receive(e, "chat") /\ KeepMap

HasThread(c) == \E i \in 1..Len(threads) : threads[i] = c

\* The entry first added goes, however recently it was used.
GetThreadId(c) ==
    threads' = IF HasThread(c) THEN threads
               ELSE Append(IF Len(threads) >= MaxThreads THEN Tail(threads) ELSE threads, c)

\* The webhook has answered Telegram by now.
TelegramMessage(e) ==
    /\ \E c \in TgChats : GetThreadId(c)
    /\ Receive(e, "think")
    /\ UNCHANGED botFaults

\* /new: a known chat keeps its place, a new one is added without a look at
\* the bound.
ResetThread ==
    /\ \E c \in TgChats : threads' = IF HasThread(c) THEN threads ELSE Append(threads, c)
    /\ UNCHANGED <<event, botFaults>>
-----------------------------------------------------------------------------
(* handle_event *)

Typing(e) == BotAt(e, "typing") /\ KeepMap
    /\ event' = [event EXCEPT ![e].note = "thinking", ![e].id = TRUE, ![e].pc = "chat"]

\* Swallowed.  After a timeout the message may be there, and nobody knows it.
TypingFails(e) ==
    /\ BotAt(e, "typing") /\ PlatformFails
    /\ \E note \in {"none", "thinking"} : Note(e, note, "chat")
    /\ KeepMap

\* A budget or a rule that refuses is a reply as well.
ChatReplies(e) ==
    /\ event[e].pc \in {"chat", "retry"}
    /\ Text(e, "reply", "deliver")
    /\ KeepMap

\* Only the answer of the second run is looked at.
ChatRepliesNothing(e) ==
    /\ "empty" \in botFaults
    /\ event[e].pc \in {"chat", "retry"}
    /\ IF BotAt(e, "chat") THEN BotGo(e, "end") ELSE Text(e, "sorry", "deliver")
    /\ KeepMap

\* Mutant: no apology after the second failure.
ChatRaisesSilently(e) ==
    /\ event[e].pc \in {"chat", "retry"}
    /\ IF BotAt(e, "chat") THEN BotGo(e, "retry") ELSE BotGo(e, "end")
    /\ KeepMap

\* Whatever the agent raised, be it after the run was complete, the message is
\* given to it once more, on a fresh thread.
ChatRaises(e) ==
    /\ event[e].pc \in {"chat", "retry"}
    /\ IF BotAt(e, "chat") THEN BotGo(e, "retry") ELSE Text(e, "sorry", "deliver")
    /\ KeepMap

\* Where there is no indicator to update, a message is sent.
Deliver(e) ==
    /\ BotAt(e, "deliver")
    /\ IF event[e].id THEN Note(e, "final", "end") ELSE BotGo(e, "send")
    /\ KeepMap

\* update_message returns FALSE.
UpdateRefused(e) ==
    /\ BotAt(e, "deliver") /\ event[e].id /\ PlatformFails
    /\ BotGo(e, "send")
    /\ KeepMap

\* Mutant: an update that raises is one that was refused.
UpdateRaisesSent(e) ==
    /\ BotAt(e, "deliver") /\ event[e].id /\ PlatformFails
    /\ \E note \in {event[e].note, "final"} : Note(e, note, "send")
    /\ KeepMap

\* A timeout ends handle_event, whether the update was made or not.
UpdateRaises(e) ==
    /\ BotAt(e, "deliver") /\ event[e].id /\ PlatformFails
    /\ \E note \in {event[e].note, "final"} : Note(e, note, "end")
    /\ KeepMap

Send(e) ==
    /\ BotAt(e, "send")
    /\ event' = [event EXCEPT ![e].sent = @ + 1, ![e].pc = "end"]
    /\ KeepMap

\* Logged by Lark and raised by the others; not tried again.
SendFails(e) ==
    /\ BotAt(e, "send") /\ PlatformFails
    /\ \E n \in {0, 1} : event' = [event EXCEPT ![e].sent = @ + n, ![e].pc = "end"]
    /\ KeepMap
-----------------------------------------------------------------------------
(* _handle_event_stream *)

Think(e) == BotAt(e, "think") /\ KeepMap
    /\ event' = [event EXCEPT ![e].note = "thinking", ![e].id = TRUE, ![e].pc = "stream"]

\* Nothing is caught here: the message is dropped.
ThinkFails(e) ==
    /\ BotAt(e, "think") /\ PlatformFails
    /\ \E note \in {"none", "thinking"} : Note(e, note, "end")
    /\ KeepMap

\* Tokens are shown now and then, and an edit may fail.
Token(e) ==
    /\ BotAt(e, "stream")
    /\ \E note \in {event[e].note, "partial"} :
        event' = [event EXCEPT ![e].text = "part", ![e].note = note]
    /\ KeepMap

StreamDone(e) ==
    /\ BotAt(e, "stream")
    /\ Text(e, "reply", "finish")
    /\ KeepMap

StreamDoneEmpty(e) ==
    /\ BotAt(e, "stream") /\ "empty" \in botFaults
    /\ BotGo(e, "end")
    /\ KeepMap

\* What has come so far is the answer, if anything has.
StreamRaises(e) ==
    /\ BotAt(e, "stream")
    /\ Text(e, IF event[e].text = "part" THEN "part" ELSE "sorry", "finish")
    /\ KeepMap

FinalEdit(e) ==
    /\ BotAt(e, "finish")
    /\ Note(e, "final", "end")
    /\ KeepMap

\* Swallowed, whether the edit was made or not.
FinalEditFails(e) ==
    /\ BotAt(e, "finish") /\ PlatformFails
    /\ \E note \in {event[e].note, "final"} : Note(e, note, "end")
    /\ KeepMap

\* A long answer takes the place of the message, which may refuse to go.
FinalDelete(e) ==
    /\ BotAt(e, "finish") /\ event[e].text # "sorry"
    /\ \/ Note(e, "none", "send")
       \/ PlatformFails /\ BotGo(e, "send")
    /\ KeepMap

\* Mutant: messages that never came are ended too.
BotCrashAll ==
    /\ "crash" \in botFaults
    /\ event' = [e \in Events |-> [event[e] EXCEPT !.pc = "end"]]
    /\ threads' = <<>>
    /\ UNCHANGED botFaults

\* All is forgotten; the webhook drops what Telegram has kept meanwhile.
BotCrash ==
    /\ "crash" \in botFaults
    /\ event' = [e \in Events |->
           IF event[e] = NotReceived THEN NotReceived ELSE [event[e] EXCEPT !.pc = "end"]]
    /\ threads' = <<>>
    /\ UNCHANGED botFaults

Handle(e) ==
    \/ Typing(e) \/ TypingFails(e) \/ ChatReplies(e) \/ ChatRepliesNothing(e) \/ ChatRaises(e)
    \/ Deliver(e) \/ UpdateRefused(e) \/ UpdateRaises(e) \/ Send(e) \/ SendFails(e)
Stream(e) ==
    \/ Think(e) \/ ThinkFails(e) \/ StreamDone(e) \/ StreamDoneEmpty(e) \/ StreamRaises(e)
    \/ FinalEdit(e) \/ FinalEditFails(e) \/ FinalDelete(e)

BotsNext ==
    \/ \E e \in Events :
        \/ LarkMessage(e) \/ DiscordMessage(e) \/ TelegramMessage(e)
        \/ Handle(e) \/ Token(e) \/ Stream(e)
    \/ ResetThread \/ BotCrash

BotsSpec == BotsInit /\ [][BotsNext]_botVars
-----------------------------------------------------------------------------
(* Properties *)

Answers(e) == event[e].sent + (IF event[e].note = "final" THEN 1 ELSE 0)

\* Whatever fails, times out or is fallen back from, nobody gets two answers
\* to one message.
OneAnswer == \A e \in Events : event[e] # NotReceived => Answers(e) <= 1

\* However often the agent fails, a message gets its answer, or an apology,
\* and no "Thinking..." stays: if the platform works, the model says something
\* and the process lives.
Answered ==
    \A e \in Events :
        event[e] # NotReceived /\ botFaults = {}
            ~> event[e] # NotReceived /\ Answers(e) = 1 /\ event[e].note \in {"none", "final"}

\* integrations/telegram/bot.py: "Prevent unbounded memory growth" and
\* "(bounded)": the map of threads stays within _MAX_THREADS.  A /new of a chat
\* that is not in it adds an entry without a look at the bound, and a message
\* then makes room for its own only, so the map never comes back.
MapBound == Len(threads) <= MaxThreads
=============================================================================
