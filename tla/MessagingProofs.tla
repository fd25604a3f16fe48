-------------------------- MODULE MessagingProofs ---------------------------
(***************************************************************************)
(* Theorems about the chat platforms' bots, for any number of messages,    *)
(* chats and threads and whatever fails: their types, that no message is   *)
(* answered twice, that a message is answered if nothing but the agent     *)
(* fails, and that a bot is done with it after five steps; and about the   *)
(* directory of contacts, for any contacts, names and messages at once:    *)
(* its types, that an account keeps its kind, and that a message without a *)
(* platform goes to the namesake on the preferred one.                     *)
(***************************************************************************)
EXTENDS PlatformBots, Contacts, SequenceTheorems, WellFoundedInduction, TLAPS

\* What is known of a message while its bot is at work on it.
LEMMA EventFields ==
    ASSUME BotsTypeOK, NEW e \in Events, event[e].pc # "none"
    PROVE  event[e] \in Received
BY DEF BotsTypeOK, NotReceived

\* A step on one message: the message changes, nothing else.
Changes(e) ==
    /\ \E new \in Received : event' = [event EXCEPT ![e] = new]
    /\ threads' = threads /\ botFaults' = botFaults

LEMMA ReceiveChanges ==
    ASSUME BotsTypeOK, NEW e \in Events, NEW pc \in {"typing", "chat", "think"}, Receive(e, pc)
    PROVE  NewEvent(pc) \in Received /\ event' = [event EXCEPT ![e] = NewEvent(pc)]
BY DEF Receive, NewEvent, Received

\* Every step of handle_event and of the stream is of this kind.
LEMMA WorkChanges ==
    ASSUME BotsTypeOK, NEW e \in Events, Handle(e) \/ Token(e) \/ Stream(e)
    PROVE  Changes(e)
<1>1. event[e].pc # "none"
  BY DEF Handle, Token, Stream, BotAt, Typing, TypingFails, ChatReplies, ChatRepliesNothing,
         ChatRaises, Deliver, UpdateRefused, UpdateRaises, Send, SendFails, Think, ThinkFails,
         StreamDone, StreamDoneEmpty, StreamRaises, FinalEdit, FinalEditFails, FinalDelete
<1>2. event[e] \in Received
  BY <1>1, EventFields
<1>3. threads' = threads /\ botFaults' = botFaults
  BY DEF Handle, Token, Stream, KeepMap, Typing, TypingFails, ChatReplies, ChatRepliesNothing,
         ChatRaises, Deliver, UpdateRefused, UpdateRaises, Send, SendFails, Think, ThinkFails,
         StreamDone, StreamDoneEmpty, StreamRaises, FinalEdit, FinalEditFails, FinalDelete
<1>4. \A pc \in {"chat", "retry", "deliver", "send", "stream", "finish", "end"} :
        BotGo(e, pc) => \E new \in Received : event' = [event EXCEPT ![e] = new]
  <2> TAKE pc \in {"chat", "retry", "deliver", "send", "stream", "finish", "end"}
  <2>1. [event[e] EXCEPT !.pc = pc] \in Received
    BY <1>2 DEF Received
  <2> QED BY <2>1 DEF BotGo
<1>5. \A note \in {"none", "thinking", "partial", "final"}, pc \in {"chat", "send", "end"} :
        Note(e, note, pc) => \E new \in Received : event' = [event EXCEPT ![e] = new]
  <2> TAKE note \in {"none", "thinking", "partial", "final"}, pc \in {"chat", "send", "end"}
  <2>1. [event[e] EXCEPT !.note = note, !.pc = pc] \in Received
    BY <1>2 DEF Received
  <2> QED BY <2>1 DEF Note
<1>6. \A text \in {"none", "part", "reply", "sorry"}, pc \in {"deliver", "finish"} :
        Text(e, text, pc) => \E new \in Received : event' = [event EXCEPT ![e] = new]
  <2> TAKE text \in {"none", "part", "reply", "sorry"}, pc \in {"deliver", "finish"}
  <2>1. [event[e] EXCEPT !.text = text, !.pc = pc] \in Received
    BY <1>2 DEF Received
  <2> QED BY <2>1 DEF Text
<1>7. event[e].note \in {"none", "thinking", "partial", "final"} /\ event[e].sent \in Nat
  BY <1>2 DEF Received
<1>8. CASE Typing(e) \/ Think(e)
  <2>1. \A pc \in {"chat", "stream"} :
          [event[e] EXCEPT !.note = "thinking", !.id = TRUE, !.pc = pc] \in Received
    BY <1>2 DEF Received
  <2>2. CASE Typing(e)
    BY <1>3, <2>1, <2>2 DEF Typing, Changes
  <2>3. CASE Think(e)
    BY <1>3, <2>1, <2>3 DEF Think, Changes
  <2> QED BY <1>8, <2>2, <2>3
<1>9. CASE Send(e) \/ SendFails(e)
  <2>1. \A m \in Nat : [event[e] EXCEPT !.sent = m, !.pc = "end"] \in Received
    BY <1>2 DEF Received
  <2>2. \A n \in {0, 1} : event[e].sent + n \in Nat
    BY <1>7
  <2>3. \A n \in {0, 1} :
          [event EXCEPT ![e].sent = @ + n, ![e].pc = "end"]
            = [event EXCEPT ![e] = [event[e] EXCEPT !.sent = event[e].sent + n, !.pc = "end"]]
    BY DEF BotsTypeOK
  <2>4. \E n \in {0, 1} : event' = [event EXCEPT ![e].sent = @ + n, ![e].pc = "end"]
    BY <1>9 DEF Send, SendFails
  <2> QED BY <1>3, <2>1, <2>2, <2>3, <2>4 DEF Changes
<1>10. CASE Token(e)
  <2>1. \A note \in {"none", "thinking", "partial", "final"} :
          [event[e] EXCEPT !.text = "part", !.note = note] \in Received
    BY <1>2 DEF Received
  <2> QED BY <1>3, <1>7, <1>10, <2>1 DEF Token, Changes
<1>11. CASE TypingFails(e) \/ Deliver(e) \/ UpdateRaises(e) \/ ThinkFails(e)
              \/ FinalEdit(e) \/ FinalEditFails(e) \/ FinalDelete(e)
  BY <1>3, <1>4, <1>5, <1>7, <1>11
     DEF TypingFails, Deliver, UpdateRaises, ThinkFails, FinalEdit, FinalEditFails, FinalDelete,
         Changes
<1>12. CASE ChatReplies(e) \/ ChatRepliesNothing(e) \/ ChatRaises(e) \/ UpdateRefused(e)
              \/ StreamDone(e) \/ StreamDoneEmpty(e) \/ StreamRaises(e)
  BY <1>3, <1>4, <1>6, <1>12
     DEF ChatReplies, ChatRepliesNothing, ChatRaises, UpdateRefused, StreamDone, StreamDoneEmpty,
         StreamRaises, Changes
<1> QED BY <1>8, <1>9, <1>10, <1>11, <1>12 DEF Handle, Stream

\* The map of threads stays a sequence of different chats.
LEMMA ThreadsTyped ==
    ASSUME BotsTypeOK, NEW c \in TgChats,
           \/ GetThreadId(c)
           \/ threads' = IF HasThread(c) THEN threads ELSE Append(threads, c)
    PROVE  /\ threads' \in Seq(TgChats)
           /\ \A i, j \in 1..Len(threads') : threads'[i] = threads'[j] => i = j
<1> DEFINE Different(h) == \A i, j \in 1..Len(h) : h[i] = h[j] => i = j
<1>1. threads \in Seq(TgChats) /\ Different(threads)
  BY DEF BotsTypeOK
<1>2. ASSUME NEW h \in Seq(TgChats), Different(h), \A i \in 1..Len(h) : h[i] # c
      PROVE  Append(h, c) \in Seq(TgChats) /\ Different(Append(h, c))
  <2>1. /\ Append(h, c) \in Seq(TgChats) /\ Len(Append(h, c)) = Len(h) + 1
        /\ Append(h, c)[Len(h) + 1] = c
        /\ \A i \in 1..Len(h) : Append(h, c)[i] = h[i]
    BY AppendProperties
  <2>2. \A i \in 1..(Len(h) + 1) : i \in 1..Len(h) \/ i = Len(h) + 1
    OBVIOUS
  <2> QED BY <1>2, <2>1, <2>2
<1>3. CASE HasThread(c)
  BY <1>1, <1>3 DEF GetThreadId
<1>4. CASE ~HasThread(c) /\ threads' = Append(threads, c)
  BY <1>1, <1>2, <1>4 DEF HasThread
<1>5. CASE ~HasThread(c) /\ Len(threads) >= MaxThreads /\ threads' = Append(Tail(threads), c)
  <2>1. threads # <<>>
    BY <1>1, <1>5, BotsAssumption
  <2>2. /\ Tail(threads) \in Seq(TgChats) /\ Len(Tail(threads)) = Len(threads) - 1
        /\ \A i \in 1..Len(Tail(threads)) : Tail(threads)[i] = threads[i + 1]
    BY <1>1, <2>1, HeadTailProperties
  <2>3. \A i \in 1..Len(Tail(threads)) : i + 1 \in 1..Len(threads)
    BY <1>1, <2>2
  <2>4. \A i \in 1..Len(Tail(threads)) : Tail(threads)[i] # c
    BY <1>5, <2>2, <2>3 DEF HasThread
  <2>5. ASSUME NEW i \in 1..Len(Tail(threads)), NEW j \in 1..Len(Tail(threads)),
               Tail(threads)[i] = Tail(threads)[j]
        PROVE  i = j
    <3>1. threads[i + 1] = threads[j + 1]
      BY <2>2, <2>5
    <3>2. i + 1 = j + 1
      BY <1>1, <2>3, <3>1
    <3> QED BY <3>2
  <2> QED BY <1>2, <1>5, <2>2, <2>4, <2>5
<1> QED BY <1>3, <1>4, <1>5 DEF GetThreadId
-----------------------------------------------------------------------------
LEMMA BotsTypeInit == BotsInit => BotsTypeOK
BY DEF BotsInit, BotsTypeOK

LEMMA BotsTypeStep == BotsTypeOK /\ [BotsNext]_botVars => BotsTypeOK'
<1> SUFFICES ASSUME BotsTypeOK, [BotsNext]_botVars PROVE BotsTypeOK'
  OBVIOUS
<1>1. ASSUME NEW e \in Events, NEW new \in Received, event' = [event EXCEPT ![e] = new]
      PROVE  event' \in [Events -> {NotReceived} \cup Received]
  BY <1>1 DEF BotsTypeOK
<1>2. ASSUME NEW e \in Events, Handle(e) \/ Token(e) \/ Stream(e) PROVE BotsTypeOK'
  BY <1>1, <1>2, WorkChanges DEF Changes, BotsTypeOK
<1>3. ASSUME NEW e \in Events, LarkMessage(e) \/ DiscordMessage(e) PROVE BotsTypeOK'
  <2>1. \E pc \in {"typing", "chat"} : Receive(e, pc)
    BY <1>3 DEF LarkMessage, DiscordMessage
  <2>2. event' \in [Events -> {NotReceived} \cup Received]
    BY <1>1, <2>1, ReceiveChanges
  <2> QED BY <1>3, <2>2 DEF LarkMessage, DiscordMessage, KeepMap, BotsTypeOK
<1>4. ASSUME NEW e \in Events, TelegramMessage(e) PROVE BotsTypeOK'
  <2>1. event' \in [Events -> {NotReceived} \cup Received]
    BY <1>1, <1>4, ReceiveChanges DEF TelegramMessage
  <2>2. PICK c \in TgChats : GetThreadId(c)
    BY <1>4 DEF TelegramMessage
  <2> QED BY <1>4, <2>1, <2>2, ThreadsTyped DEF TelegramMessage, BotsTypeOK
<1>5. CASE ResetThread
  <2>1. PICK c \in TgChats : threads' = IF HasThread(c) THEN threads ELSE Append(threads, c)
    BY <1>5 DEF ResetThread
  <2> QED BY <1>5, <2>1, ThreadsTyped DEF ResetThread, BotsTypeOK
<1>6. CASE BotCrash
  <2>1. \A e \in Events : event[e] # NotReceived => [event[e] EXCEPT !.pc = "end"] \in Received
    BY DEF BotsTypeOK, Received
  <2>2. event' \in [Events -> {NotReceived} \cup Received]
    BY <1>6, <2>1 DEF BotCrash
  <2> QED BY <1>6, <2>2 DEF BotCrash, BotsTypeOK
<1>7. CASE UNCHANGED botVars
  BY <1>7 DEF botVars, BotsTypeOK
<1> QED BY <1>2, <1>3, <1>4, <1>5, <1>6, <1>7 DEF BotsNext

\* The messages, the map and the faults keep their types.
THEOREM BotsTypeCorrect == BotsSpec => []BotsTypeOK
<1> QED BY BotsTypeInit, BotsTypeStep, PTL DEF BotsSpec
-----------------------------------------------------------------------------
(* Answers *)

\* A message that is still at work has no answer yet.
NoneYet(m) == m.sent = 0 /\ m.note # "final"
AtMostOne(m) == m.sent = 0 \/ (m.sent = 1 /\ m.note # "final")
AnsweredOnce ==
    \A e \in Events : event[e] # NotReceived =>
        IF event[e].pc = "end" THEN AtMostOne(event[e]) ELSE NoneYet(event[e])

LEMMA AnswersWork ==
    ASSUME BotsTypeOK, AnsweredOnce, NEW e \in Events, Handle(e) \/ Token(e) \/ Stream(e)
    PROVE  AnsweredOnce'
<1>1. PICK new \in Received : event' = [event EXCEPT ![e] = new]
  BY WorkChanges DEF Changes
<1>2. event'[e] = new /\ \A d \in Events : d # e => event'[d] = event[d]
  BY <1>1 DEF BotsTypeOK
<1>3. event[e].pc \notin {"none", "end"}
  BY DEF Handle, Token, Stream, BotAt, Typing, TypingFails, ChatReplies, ChatRepliesNothing,
         ChatRaises, Deliver, UpdateRefused, UpdateRaises, Send, SendFails, Think, ThinkFails,
         StreamDone, StreamDoneEmpty, StreamRaises, FinalEdit, FinalEditFails, FinalDelete
<1>4. event[e] \in Received /\ event[e] # NotReceived
  BY <1>3, EventFields DEF NotReceived
<1>5. event[e].sent = 0 /\ event[e].note # "final"
  BY <1>3, <1>4 DEF AnsweredOnce, NoneYet
<1> SUFFICES IF new.pc = "end" THEN AtMostOne(new) ELSE NoneYet(new)
  BY <1>2 DEF AnsweredOnce, AtMostOne, NoneYet
<1>6. \A pc : BotGo(e, pc) => new = [event[e] EXCEPT !.pc = pc]
  BY <1>1, <1>2 DEF BotGo, BotsTypeOK
<1>7. \A note, pc : Note(e, note, pc) => new = [event[e] EXCEPT !.note = note, !.pc = pc]
  BY <1>1, <1>2 DEF Note, BotsTypeOK
<1>8. \A text, pc : Text(e, text, pc) => new = [event[e] EXCEPT !.text = text, !.pc = pc]
  BY <1>1, <1>2 DEF Text, BotsTypeOK
<1>9. \A pc : BotGo(e, pc) => new.sent = 0 /\ new.note # "final"
  BY <1>4, <1>5, <1>6 DEF Received
<1>10. ASSUME NEW note, NEW pc, Note(e, note, pc)
       PROVE  new.sent = 0 /\ new.note = note /\ new.pc = pc
  <2>1. new = [event[e] EXCEPT !.note = note, !.pc = pc]
    BY <1>7, <1>10
  <2> QED BY <1>4, <1>5, <2>1 DEF Received
<1>11. \A text, pc : Text(e, text, pc) => new.sent = 0 /\ new.note # "final"
  BY <1>4, <1>5, <1>8 DEF Received
<1> USE DEF AtMostOne, NoneYet
<1>12. CASE Typing(e) \/ Think(e)
  <2>1. \E pc \in {"chat", "stream"} :
          new = [event[e] EXCEPT !.note = "thinking", !.id = TRUE, !.pc = pc]
    BY <1>1, <1>2, <1>12 DEF Typing, Think, BotsTypeOK
  <2> QED BY <1>4, <1>5, <2>1 DEF Received
<1>13. CASE Send(e) \/ SendFails(e)
  <2>1. \E n \in {0, 1} : event' = [event EXCEPT ![e].sent = @ + n, ![e].pc = "end"]
    BY <1>13 DEF Send, SendFails
  <2>2. \E n \in {0, 1} : new = [event[e] EXCEPT !.sent = event[e].sent + n, !.pc = "end"]
    BY <1>1, <1>2, <2>1 DEF BotsTypeOK
  <2>3. (new.sent = 0 \/ new.sent = 1) /\ new.note # "final"
    BY <1>4, <1>5, <2>2 DEF Received
  <2> QED BY <2>2, <2>3, <1>4 DEF Received
<1>14. CASE Token(e)
  <2>1. \E note \in {event[e].note, "partial"} :
          new = [event[e] EXCEPT !.text = "part", !.note = note]
    BY <1>1, <1>2, <1>14 DEF Token, BotsTypeOK
  <2> QED BY <1>4, <1>5, <2>1 DEF Received
<1>15. CASE TypingFails(e) \/ Deliver(e) \/ UpdateRaises(e) \/ ThinkFails(e)
              \/ FinalEdit(e) \/ FinalEditFails(e) \/ FinalDelete(e)
  BY <1>5, <1>9, <1>10, <1>15
     DEF TypingFails, Deliver, UpdateRaises, ThinkFails, FinalEdit, FinalEditFails, FinalDelete
<1>16. CASE ChatReplies(e) \/ ChatRepliesNothing(e) \/ ChatRaises(e) \/ UpdateRefused(e)
              \/ StreamDone(e) \/ StreamDoneEmpty(e) \/ StreamRaises(e)
  BY <1>9, <1>11, <1>16
     DEF ChatReplies, ChatRepliesNothing, ChatRaises, UpdateRefused, StreamDone, StreamDoneEmpty,
         StreamRaises
<1> QED BY <1>12, <1>13, <1>14, <1>15, <1>16 DEF Handle, Stream

LEMMA AnswersStep == BotsTypeOK /\ AnsweredOnce /\ [BotsNext]_botVars => AnsweredOnce'
<1> SUFFICES ASSUME BotsTypeOK, AnsweredOnce, [BotsNext]_botVars PROVE AnsweredOnce'
  OBVIOUS
<1>1. ASSUME NEW e \in Events, Handle(e) \/ Token(e) \/ Stream(e) PROVE AnsweredOnce'
  BY <1>1, AnswersWork
<1>2. ASSUME NEW e \in Events, NEW pc \in {"typing", "chat", "think"}, Receive(e, pc)
      PROVE  AnsweredOnce'
  <2>1. event'[e] = NewEvent(pc) /\ \A d \in Events : d # e => event'[d] = event[d]
    BY <1>2, ReceiveChanges DEF BotsTypeOK
  <2>2. NoneYet(NewEvent(pc)) /\ NewEvent(pc).pc # "end"
    BY DEF NoneYet, NewEvent
  <2> QED BY <2>1, <2>2 DEF AnsweredOnce, NoneYet, AtMostOne
<1>3. \A e \in Events : LarkMessage(e) \/ DiscordMessage(e) \/ TelegramMessage(e) =>
        \E pc \in {"typing", "chat", "think"} : Receive(e, pc)
  BY DEF LarkMessage, DiscordMessage, TelegramMessage
<1>4. CASE ResetThread \/ UNCHANGED botVars
  BY <1>4 DEF ResetThread, botVars, AnsweredOnce, NoneYet, AtMostOne
<1>5. CASE BotCrash
  <2>1. \A e \in Events : event[e] # NotReceived =>
          /\ event'[e].pc = "end"
          /\ event'[e].sent = event[e].sent /\ event'[e].note = event[e].note
    BY <1>5 DEF BotCrash, BotsTypeOK, Received
  <2>2. \A e \in Events : event[e] = NotReceived => event'[e] = NotReceived
    BY <1>5 DEF BotCrash
  <2> QED BY <2>1, <2>2 DEF AnsweredOnce, NoneYet, AtMostOne
<1> QED BY <1>1, <1>2, <1>3, <1>4, <1>5 DEF BotsNext

\* Nobody gets two answers to one message, whatever fails, times out or is
\* fallen back from.
THEOREM OnlyOneAnswer == BotsSpec => []OneAnswer
<1>1. BotsInit => AnsweredOnce
  BY DEF BotsInit, AnsweredOnce
<1>2. BotsTypeOK /\ AnsweredOnce => OneAnswer
  <2> SUFFICES ASSUME BotsTypeOK, AnsweredOnce, NEW e \in Events, event[e] # NotReceived
               PROVE  Answers(e) <= 1
    BY DEF OneAnswer
  <2>1. AtMostOne(event[e])
    BY DEF AnsweredOnce, AtMostOne, NoneYet
  <2> QED BY <2>1 DEF AtMostOne, Answers
<1> QED BY <1>1, <1>2, BotsTypeInit, BotsTypeStep, AnswersStep, PTL DEF BotsSpec
-----------------------------------------------------------------------------
(* The answer, if nothing fails *)

\* The bot knows the "Thinking..." message that it has sent, an answer of its own
\* is sent only where there is none, and at the end there is one answer and no
\* "Thinking...".
Served(m) ==
    /\ m.pc \in {"typing", "chat", "retry", "deliver"} => (m.id <=> m.note # "none")
    /\ m.pc = "send" => m.note = "none"
    /\ m.pc = "end" => \/ m.sent = 1 /\ m.note = "none"
                       \/ m.sent = 0 /\ m.note = "final"
AllServed == botFaults = {} => \A e \in Events : event[e] # NotReceived => Served(event[e])

LEMMA ServedWork ==
    ASSUME BotsTypeOK, AnsweredOnce, AllServed, botFaults = {},
           NEW e \in Events, Handle(e) \/ Token(e) \/ Stream(e)
    PROVE  AllServed'
<1>1. PICK new \in Received : event' = [event EXCEPT ![e] = new]
  BY WorkChanges DEF Changes
<1>2. event'[e] = new /\ \A d \in Events : d # e => event'[d] = event[d]
  BY <1>1 DEF BotsTypeOK
<1>3. event[e].pc \notin {"none", "end"}
  BY DEF Handle, Token, Stream, BotAt, Typing, TypingFails, ChatReplies, ChatRepliesNothing,
         ChatRaises, Deliver, UpdateRefused, UpdateRaises, Send, SendFails, Think, ThinkFails,
         StreamDone, StreamDoneEmpty, StreamRaises, FinalEdit, FinalEditFails, FinalDelete
<1>4. event[e] \in Received /\ event[e] # NotReceived
  BY <1>3, EventFields DEF NotReceived
<1>5. event[e].sent = 0 /\ event[e].note # "final" /\ Served(event[e])
  BY <1>3, <1>4 DEF AnsweredOnce, NoneYet, AllServed
<1> SUFFICES Served(new)
  BY <1>2 DEF AllServed, Served
<1>6. ASSUME NEW pc, BotGo(e, pc)
      PROVE  new.pc = pc /\ new.note = event[e].note /\ new.id = event[e].id /\ new.sent = 0
  <2>1. new = [event[e] EXCEPT !.pc = pc]
    BY <1>1, <1>2, <1>6 DEF BotGo, BotsTypeOK
  <2> QED BY <1>4, <1>5, <2>1 DEF Received
<1>7. ASSUME NEW note, NEW pc, Note(e, note, pc)
      PROVE  new.pc = pc /\ new.note = note /\ new.id = event[e].id /\ new.sent = 0
  <2>1. new = [event[e] EXCEPT !.note = note, !.pc = pc]
    BY <1>1, <1>2, <1>7 DEF Note, BotsTypeOK
  <2> QED BY <1>4, <1>5, <2>1 DEF Received
<1>8. ASSUME NEW text, NEW pc, Text(e, text, pc)
      PROVE  new.pc = pc /\ new.note = event[e].note /\ new.id = event[e].id /\ new.sent = 0
  <2>1. new = [event[e] EXCEPT !.text = text, !.pc = pc]
    BY <1>1, <1>2, <1>8 DEF Text, BotsTypeOK
  <2> QED BY <1>4, <1>5, <2>1 DEF Received
<1>9. ~PlatformFails /\ "empty" \notin botFaults
  BY DEF PlatformFails
<1>10. CASE Typing(e) \/ Think(e)
  <2>1. \E pc \in {"chat", "stream"} :
          new = [event[e] EXCEPT !.note = "thinking", !.id = TRUE, !.pc = pc]
    BY <1>1, <1>2, <1>10 DEF Typing, Think, BotsTypeOK
  <2> QED BY <1>4, <2>1 DEF Received, Served
<1>11. CASE Send(e)
  <2>1. new = [event[e] EXCEPT !.sent = @ + 1, !.pc = "end"]
    BY <1>1, <1>2, <1>11 DEF Send, BotsTypeOK
  <2>2. new.sent = 1 /\ new.note = event[e].note /\ new.pc = "end"
    BY <1>4, <1>5, <2>1 DEF Received
  <2> QED BY <1>5, <1>11, <2>2 DEF Send, BotAt, Served
<1>12. CASE Token(e)
  <2>1. \E note \in {event[e].note, "partial"} :
          new = [event[e] EXCEPT !.text = "part", !.note = note]
    BY <1>1, <1>2, <1>12 DEF Token, BotsTypeOK
  <2>2. new.pc = "stream"
    BY <1>4, <1>12, <2>1 DEF Token, BotAt, Received
  <2> QED BY <2>2 DEF Served
<1>13. CASE ChatReplies(e) \/ ChatRaises(e)
  BY <1>5, <1>6, <1>8, <1>13 DEF ChatReplies, ChatRaises, BotAt, Served
<1>14. CASE Deliver(e)
  BY <1>5, <1>6, <1>7, <1>14 DEF Deliver, BotAt, Served
<1>15. CASE StreamDone(e) \/ StreamRaises(e)
  BY <1>8, <1>15 DEF StreamDone, StreamRaises, Served
<1>16. CASE FinalEdit(e) \/ FinalDelete(e)
  BY <1>7, <1>9, <1>16 DEF FinalEdit, FinalDelete, Served
<1> QED
  BY <1>9, <1>10, <1>11, <1>12, <1>13, <1>14, <1>15, <1>16
     DEF Handle, Stream, TypingFails, ChatRepliesNothing, UpdateRefused, UpdateRaises, SendFails,
         ThinkFails, StreamDoneEmpty, FinalEditFails

LEMMA ServedStep ==
    BotsTypeOK /\ AnsweredOnce /\ AllServed /\ [BotsNext]_botVars => AllServed'
<1> SUFFICES ASSUME BotsTypeOK, AnsweredOnce, AllServed, [BotsNext]_botVars, botFaults' = {}
             PROVE  AllServed'
  BY DEF AllServed
<1>1. ASSUME NEW e \in Events, Handle(e) \/ Token(e) \/ Stream(e) PROVE AllServed'
  <2>1. botFaults' = botFaults
    BY <1>1, WorkChanges DEF Changes
  <2> QED BY <1>1, <2>1, ServedWork
<1>2. ASSUME NEW e \in Events, NEW pc \in {"typing", "chat", "think"}, Receive(e, pc),
             botFaults' = botFaults
      PROVE  AllServed'
  <2>1. event'[e] = NewEvent(pc) /\ \A d \in Events : d # e => event'[d] = event[d]
    BY <1>2, ReceiveChanges DEF BotsTypeOK
  <2>2. Served(NewEvent(pc))
    BY DEF Served, NewEvent
  <2> QED BY <1>2, <2>1, <2>2 DEF AllServed, Served
<1>3. \A e \in Events : LarkMessage(e) \/ DiscordMessage(e) \/ TelegramMessage(e) =>
        botFaults' = botFaults /\ \E pc \in {"typing", "chat", "think"} : Receive(e, pc)
  BY DEF LarkMessage, DiscordMessage, TelegramMessage, KeepMap
<1>4. CASE ResetThread \/ UNCHANGED botVars
  BY <1>4 DEF ResetThread, botVars, AllServed, Served
<1>5. ~BotCrash
  BY DEF BotCrash
<1> QED BY <1>1, <1>2, <1>3, <1>4, <1>5 DEF BotsNext

\* If the platform works, the model says something and the process lives, then
\* whatever the agent raises, a message that is done with has one answer, or an
\* apology, and no "Thinking..." is left beside it.
THEOREM EndsAnswered ==
    BotsSpec => [](botFaults = {} => \A e \in Events :
        event[e].pc = "end" => Answers(e) = 1 /\ event[e].note \in {"none", "final"})
<1>1. BotsInit => AnsweredOnce /\ AllServed
  BY DEF BotsInit, AnsweredOnce, AllServed
<1>2. BotsTypeOK /\ AllServed =>
        (botFaults = {} => \A e \in Events :
            event[e].pc = "end" => Answers(e) = 1 /\ event[e].note \in {"none", "final"})
  BY DEF AllServed, Served, Answers, NotReceived
<1> QED BY <1>1, <1>2, BotsTypeInit, BotsTypeStep, AnswersStep, ServedStep, PTL DEF BotsSpec

\* The steps that a message at pc has before it, the tokens of a stream aside.
HandlingLeft(pc) ==
    CASE pc \in {"none", "end"}       -> 0
      [] pc = "send"                  -> 1
      [] pc \in {"deliver", "finish"} -> 2
      [] pc \in {"retry", "stream"}   -> 3
      [] pc \in {"chat", "think"}     -> 4
      [] pc = "typing"                -> 5

\* However often the agent and the platform fail, a bot is done with a message
\* after five steps at most: nothing is retried for ever.
THEOREM HandlingBounded ==
    BotsSpec => [][\A e \in Events :
        /\ Handle(e) \/ Stream(e) => HandlingLeft(event'[e].pc) < HandlingLeft(event[e].pc)
        /\ Token(e) => event'[e].pc = event[e].pc]_botVars
<1>1. ASSUME BotsTypeOK, NEW e \in Events, Handle(e) \/ Stream(e)
      PROVE  HandlingLeft(event'[e].pc) < HandlingLeft(event[e].pc)
  <2>1. event[e].pc # "none"
    BY <1>1 DEF Handle, Stream, BotAt, Typing, TypingFails, ChatReplies, ChatRepliesNothing,
           ChatRaises, Deliver, UpdateRefused, UpdateRaises, Send, SendFails, Think, ThinkFails,
           StreamDone, StreamDoneEmpty, StreamRaises, FinalEdit, FinalEditFails, FinalDelete
  <2>2. event[e] \in Received
    BY <1>1, <2>1, EventFields
  <2>3. \A pc : BotGo(e, pc) => event'[e].pc = pc
    BY <1>1, <2>2 DEF BotGo, BotsTypeOK, Received
  <2>4. \A note, pc : Note(e, note, pc) => event'[e].pc = pc
    BY <1>1, <2>2 DEF Note, BotsTypeOK, Received
  <2>5. \A text, pc : Text(e, text, pc) => event'[e].pc = pc
    BY <1>1, <2>2 DEF Text, BotsTypeOK, Received
  <2>6. CASE Handle(e)
    <3>1. CASE Typing(e) \/ Send(e) \/ SendFails(e)
      <4>1. \/ event[e].pc = "typing" /\ event'[e].pc = "chat"
            \/ event[e].pc = "send" /\ event'[e].pc = "end"
        BY <1>1, <2>2, <3>1 DEF Typing, Send, SendFails, BotAt, BotsTypeOK, Received
      <4> QED BY <4>1 DEF HandlingLeft
    <3>2. CASE TypingFails(e) \/ ChatReplies(e) \/ ChatRepliesNothing(e) \/ ChatRaises(e)
      <4>1. \/ event[e].pc = "typing" /\ event'[e].pc = "chat"
            \/ event[e].pc \in {"chat", "retry"} /\ event'[e].pc \in {"deliver", "end"}
            \/ event[e].pc = "chat" /\ event'[e].pc = "retry"
        BY <2>3, <2>4, <2>5, <3>2
           DEF TypingFails, ChatReplies, ChatRepliesNothing, ChatRaises, BotAt
      <4> QED BY <4>1 DEF HandlingLeft
    <3>3. CASE Deliver(e) \/ UpdateRefused(e) \/ UpdateRaises(e)
      <4>1. event[e].pc = "deliver" /\ event'[e].pc \in {"send", "end"}
        BY <2>3, <2>4, <3>3 DEF Deliver, UpdateRefused, UpdateRaises, BotAt
      <4> QED BY <4>1 DEF HandlingLeft
    <3> QED BY <2>6, <3>1, <3>2, <3>3 DEF Handle
  <2>7. CASE Stream(e)
    <3>1. CASE Think(e)
      <4>1. event[e].pc = "think" /\ event'[e].pc = "stream"
        BY <1>1, <2>2, <3>1 DEF Think, BotAt, BotsTypeOK, Received
      <4> QED BY <4>1 DEF HandlingLeft
    <3>2. CASE ThinkFails(e) \/ StreamDone(e) \/ StreamDoneEmpty(e) \/ StreamRaises(e)
      <4>1. \/ event[e].pc = "think" /\ event'[e].pc = "end"
            \/ event[e].pc = "stream" /\ event'[e].pc \in {"finish", "end"}
        BY <2>3, <2>4, <2>5, <3>2
           DEF ThinkFails, StreamDone, StreamDoneEmpty, StreamRaises, BotAt
      <4> QED BY <4>1 DEF HandlingLeft
    <3>3. CASE FinalEdit(e) \/ FinalEditFails(e) \/ FinalDelete(e)
      <4>1. event[e].pc = "finish" /\ event'[e].pc \in {"send", "end"}
        BY <2>3, <2>4, <3>3 DEF FinalEdit, FinalEditFails, FinalDelete, BotAt
      <4> QED BY <4>1 DEF HandlingLeft
    <3> QED BY <2>7, <3>1, <3>2, <3>3 DEF Stream
  <2> QED BY <1>1, <2>6, <2>7
<1>2. ASSUME BotsTypeOK, NEW e \in Events, Token(e)
      PROVE  event'[e].pc = event[e].pc
  <2>1. event[e] \in Received
    BY <1>2, EventFields DEF Token, BotAt
  <2>2. PICK note : event' = [event EXCEPT ![e].text = "part", ![e].note = note]
    BY <1>2 DEF Token
  <2> QED BY <1>2, <2>1, <2>2 DEF BotsTypeOK, Received
<1>3. BotsTypeOK /\ [BotsNext]_botVars => [\A e \in Events :
        /\ Handle(e) \/ Stream(e) => HandlingLeft(event'[e].pc) < HandlingLeft(event[e].pc)
        /\ Token(e) => event'[e].pc = event[e].pc]_botVars
  BY <1>1, <1>2
<1> QED BY <1>3, BotsTypeInit, BotsTypeStep, PTL DEF BotsSpec
-----------------------------------------------------------------------------
(* Contacts. *)

\* Every nonempty set of numbers has a least.
LEMMA LeastNumber ==
    ASSUME NEW T, T \subseteq Nat, T # {}
    PROVE  \E n \in T : \A m \in T : n <= m
<1> DEFINE R == {p \in Nat \X Nat : p[1] < p[2]}
<1>1. R = OpToRel(<, Nat)
  BY DEF OpToRel
<1>2. IsWellFoundedOn(R, Nat)
  BY <1>1, NatLessThanWellFounded
<1>3. \A n, m \in Nat : n < m => <<n, m>> \in R
  OBVIOUS
<1> HIDE DEF R
<1>4. PICK n \in T : \A m \in T : ~ (<<m, n>> \in R)
  BY <1>2, WFMin
<1>5. \A m \in T : ~ (m < n)
  BY <1>3, <1>4
<1>6. \A m \in T : n <= m
  BY <1>5
<1> QED BY <1>6

\* The latest of some rows is one of them, and none of them is later.
LEMMA LatestOfRows ==
    ASSUME NEW rows, rows \subseteq Nat, rows # {}
    PROVE  Latest(rows) \in rows /\ \A j \in rows : Latest(rows) <= j
BY LeastNumber DEF Latest

\* What a sequence becomes when an element is put before it.
LEMMA PutFirst ==
    ASSUME NEW S, NEW s \in Seq(S), NEW e \in S
    PROVE  /\ <<e>> \o s \in Seq(S)
           /\ Len(<<e>> \o s) = Len(s) + 1
           /\ (<<e>> \o s)[1] = e
           /\ \A i \in 1..Len(s) : (<<e>> \o s)[i + 1] = s[i]
           /\ \A j \in 2..(Len(s) + 1) : (<<e>> \o s)[j] = s[j - 1]
OBVIOUS

\* A bot or the agent adds a row or renames one and moves it to the front:
\* every row keeps its account and its kind, and no account gets a second.
LEMMA Upserted ==
    ASSUME ContactsTypeOK, NEW account \in Accounts, NEW kind \in AccountKinds,
           NEW name \in Names, UpsertContact(account, kind, name)
    PROVE  /\ ContactsTypeOK'
           /\ send' = send
           /\ \A i \in 1..Len(directory) : \E j \in 1..Len(directory') :
                /\ directory'[j].account = directory[i].account
                /\ directory'[j].kind = directory[i].kind
<1> DEFINE old == Of(account)
           Row(k) == [account |-> account, kind |-> k, name |-> name]
<1>1. CASE old = {}
  <2>1. Row(kind) \in Contact
    BY DEF Contact
  <2>2. directory' = <<Row(kind)>> \o directory /\ send' = send
    BY <1>1 DEF UpsertContact, Insert
  <2>3. Row(kind).account = account
    OBVIOUS
  <2> HIDE DEF Row
  <2>4. /\ directory' \in Seq(Contact)
        /\ Len(directory') = Len(directory) + 1
        /\ directory'[1].account = account
        /\ \A i \in 1..Len(directory) : directory'[i + 1] = directory[i]
        /\ \A j \in 2..Len(directory') : directory'[j] = directory[j - 1]
    BY <2>1, <2>2, <2>3, PutFirst DEF ContactsTypeOK
  <2>5. \A i \in 1..Len(directory) : directory[i].account # account
    BY <1>1 DEF Of
  <2>6. Len(directory) \in Nat
    BY DEF ContactsTypeOK
  <2>7. ASSUME NEW i \in 1..Len(directory'), NEW j \in 1..Len(directory'),
               directory'[i].account = directory'[j].account
        PROVE  i = j
    <3>1. \A n \in 2..Len(directory') :
            n - 1 \in 1..Len(directory) /\ directory'[n] = directory[n - 1]
      BY <2>4, <2>6
    <3>2. \A n \in 2..Len(directory') : directory'[n].account # account
      BY <2>5, <3>1
    <3>3. CASE i = 1 \/ j = 1
      BY <2>4, <2>6, <2>7, <3>2, <3>3
    <3>4. CASE i # 1 /\ j # 1
      <4>1. i \in 2..Len(directory') /\ j \in 2..Len(directory')
        BY <2>4, <2>6, <3>4
      <4>2. directory[i - 1].account = directory[j - 1].account
        BY <2>7, <3>1, <4>1
      <4>3. i - 1 = j - 1
        BY <3>1, <4>1, <4>2 DEF ContactsTypeOK
      <4> QED BY <4>3, <4>1
    <3> QED BY <3>3, <3>4
  <2>8. ContactsTypeOK'
    BY <2>2, <2>4, <2>7 DEF ContactsTypeOK
  <2>9. ASSUME NEW i \in 1..Len(directory)
        PROVE  i + 1 \in 1..Len(directory') /\ directory'[i + 1] = directory[i]
    BY <2>4, <2>6
  <2> QED BY <2>2, <2>8, <2>9
<1>2. CASE old # {}
  <2> DEFINE k == Latest(old)
             row == Row(directory[k].kind)
  <2>1. k \in 1..Len(directory) /\ directory[k].account = account
    BY <1>2, LatestOfRows DEF Of
  <2>2. /\ directory' = [j \in 1..Len(directory) |->
                IF j = 1 THEN row ELSE directory[IF j <= k THEN j - 1 ELSE j]]
        /\ send' = send
    BY <1>2 DEF UpsertContact, Update
  <2>3. /\ row \in Contact
        /\ row.account = directory[k].account /\ row.kind = directory[k].kind
    <3>1. directory[k] \in Contact
      BY <2>1 DEF ContactsTypeOK
    <3>2. row \in Contact
      BY <3>1 DEF Contact
    <3> QED BY <2>1, <3>2
  <2> HIDE DEF k, row
  <2>4. /\ directory' \in Seq(Contact)
        /\ Len(directory') = Len(directory)
        /\ directory'[1] = row
        /\ \A j \in 2..k : directory'[j] = directory[j - 1]
        /\ \A j \in (k + 1)..Len(directory) : directory'[j] = directory[j]
    <3>1. directory \in Seq(Contact)
      BY DEF ContactsTypeOK
    <3>2. directory' \in [1..Len(directory) -> Contact]
      BY <3>1, <2>1, <2>2, <2>3
    <3>3. directory' \in Seq(Contact) /\ Len(directory') = Len(directory)
      BY <3>1, <3>2
    <3> QED BY <3>1, <3>3, <2>1, <2>2
  <2>5. Len(directory) \in Nat /\ k \in Nat /\ 1 <= k /\ k <= Len(directory)
    BY <2>1 DEF ContactsTypeOK
  <2> DEFINE now(i) == IF i < k THEN i + 1 ELSE IF i = k THEN 1 ELSE i
             was(i) == IF i = 1 THEN k ELSE IF i <= k THEN i - 1 ELSE i
  <2>6. ASSUME NEW i \in 1..Len(directory)
        PROVE  /\ now(i) \in 1..Len(directory')
               /\ directory'[now(i)].account = directory[i].account
               /\ directory'[now(i)].kind = directory[i].kind
    <3>1. CASE i < k
      <4>1. i + 1 \in 2..k /\ i + 1 \in 1..Len(directory) /\ (i + 1) - 1 = i
        BY <2>5, <3>1
      <4>2. directory'[i + 1] = directory[i]
        BY <2>4, <4>1
      <4> QED BY <2>4, <3>1, <4>1, <4>2
    <3>2. CASE i = k
      BY <2>3, <2>4, <2>5, <3>2
    <3>3. CASE i > k
      BY <2>4, <2>5, <3>3
    <3> QED BY <2>5, <3>1, <3>2, <3>3
  <2>7. ASSUME NEW i \in 1..Len(directory')
        PROVE  /\ was(i) \in 1..Len(directory)
               /\ directory'[i].account = directory[was(i)].account
    <3>1. CASE i = 1
      BY <2>1, <2>3, <2>4, <3>1
    <3>2. CASE i # 1 /\ i <= k
      <4>1. i \in 2..k /\ i - 1 \in 1..Len(directory)
        BY <2>5, <3>2
      <4> QED BY <2>4, <3>2, <4>1
    <3>3. CASE i # 1 /\ i > k
      BY <2>4, <2>5, <3>3
    <3> QED BY <2>4, <2>5, <3>1, <3>2, <3>3
  <2>8. ASSUME NEW i \in 1..Len(directory'), NEW j \in 1..Len(directory'),
               directory'[i].account = directory'[j].account
        PROVE  i = j
    <3>1. was(i) = was(j)
      <4> HIDE DEF was
      <4> QED BY <2>7, <2>8 DEF ContactsTypeOK
    <3> QED BY <2>4, <2>5, <3>1
  <2>9. ContactsTypeOK'
    BY <2>2, <2>4, <2>8 DEF ContactsTypeOK
  <2> HIDE DEF now
  <2> QED BY <2>2, <2>6, <2>9
<1> QED BY <1>1, <1>2

\* The chosen row is one of those found, and is on the preferred platform if
\* one of them is.
LEMMA BestOfRows ==
    ASSUME NEW rows, rows \subseteq 1..Len(directory), rows # {}, NEW platform,
           directory \in Seq(Contact)
    PROVE  \E i \in rows :
                /\ BestMatch(rows, platform) = directory[i]
                /\ \A j \in rows : PlatformOf[directory[j].account] = platform =>
                        PlatformOf[directory[i].account] = platform
<1> DEFINE there == {i \in rows : PlatformOf[directory[i].account] = platform}
           picked == IF there = {} THEN rows ELSE there
<1>1. picked \subseteq Nat /\ picked # {} /\ picked \subseteq rows
  <2>1. rows \subseteq Nat
    OBVIOUS
  <2>2. picked = rows \/ (picked = there /\ there # {})
    <3> HIDE DEF there
    <3> QED OBVIOUS
  <2>3. there \subseteq rows
    OBVIOUS
  <2> QED BY <2>1, <2>2, <2>3
<1>2. Latest(picked) \in picked
  BY <1>1, LatestOfRows
<1>3. BestMatch(rows, platform) = directory[Latest(picked)]
  BY DEF BestMatch
<1> QED BY <1>1, <1>2, <1>3

Found(rows) == rows \subseteq 1..Len(directory) /\ rows # {}
Searching(s) == send[s].pc \in {"exact", "fuzzy"}
PreferredRow(s, i) == PlatformOf[directory[i].account] = Preferred(send[s].override)

\* What a send goes on with when it has chosen a row: the account and the kind
\* of a row of the directory.
Chosen(s, i, next) ==
    /\ next \in Sending
    /\ send' = [send EXCEPT ![s] = next]
    /\ next.pc = "bot"
    /\ next.to = directory[i].account /\ next.kind = directory[i].kind

LEMMA SentToBest ==
    ASSUME ContactsTypeOK, NEW s \in Sends, Searching(s), NEW rows, Found(rows),
           SendToBest(s, rows)
    PROVE  \E i \in rows :
               /\ \E next : Chosen(s, i, next)
               /\ \A j \in rows : PreferredRow(s, j) => PreferredRow(s, i)
<1> DEFINE platform == Preferred(send[s].override)
           best == BestMatch(rows, platform)
           next == [pc |-> "bot", to |-> best.account, kind |-> best.kind, known |-> TRUE,
                    target |-> IF send[s].override = NoPlatform
                               THEN PlatformOf[best.account] ELSE send[s].override]
<1>1. PICK i \in rows :
          /\ best = directory[i]
          /\ \A j \in rows : PlatformOf[directory[j].account] = platform =>
                PlatformOf[directory[i].account] = platform
  BY BestOfRows DEF ContactsTypeOK, Found
<1>2. send' = [send EXCEPT ![s] = next]
  BY DEF SendToBest, SendTo
<1>3. best \in Contact
  BY <1>1 DEF ContactsTypeOK, Found
<1>4. send[s].override \in Override
  BY DEF ContactsTypeOK, Sending, NoSend, Searching
<1>5. next.target \in Platforms
  BY <1>3, <1>4, ContactsAssumption DEF Contact, Override
<1>6. next \in Sending
  BY <1>3, <1>5 DEF Contact, Sending
<1>7. next.pc = "bot" /\ next.to = directory[i].account /\ next.kind = directory[i].kind
  BY <1>1
<1>8. Chosen(s, i, next)
  BY <1>2, <1>6, <1>7 DEF Chosen
<1> HIDE DEF next, best
<1> QED BY <1>1, <1>8 DEF PreferredRow

\* The initial values have their types.
LEMMA ContactsTypeInit == ContactsInit => ContactsTypeOK
BY DEF ContactsInit, ContactsTypeOK

\* What one step of a send is: it rests, waits for the second query, or has
\* the bot called for a row, or for an account that no row gave it.
StepOfSend(s) ==
    \E next \in {NoSend} \cup Sending :
        /\ send' = [send EXCEPT ![s] = next]
        /\ next.pc = "bot" /\ next.known =>
            \E i \in 1..Len(directory) :
                directory[i].account = next.to /\ directory[i].kind = next.kind

LEMMA Resting ==
    ASSUME NEW s \in Sends, send' = [send EXCEPT ![s] = NoSend]
    PROVE  StepOfSend(s)
<1>1. NoSend.pc # "bot"
  BY DEF NoSend
<1> QED BY <1>1 DEF StepOfSend

LEMMA SendSteps ==
    ASSUME ContactsTypeOK, NEW s \in Sends, NEW override \in Override,
           \/ \E name \in Names : SendNamed(s, name, override)
           \/ \E account \in Accounts : SendPrefixed(s, account, override)
           \/ FindExact(s) \/ FindFuzzy(s) \/ SendByBot(s)
    PROVE  StepOfSend(s) /\ directory' = directory
<1>1. ASSUME NEW name \in Names, SendNamed(s, name, override)
      PROVE  StepOfSend(s) /\ directory' = directory
  <2> DEFINE next == [pc |-> "exact", to |-> name, override |-> override]
  <2>1. next \in Sending /\ next.pc # "bot"
    BY DEF Sending
  <2>2. send' = [send EXCEPT ![s] = next] /\ directory' = directory
    BY <1>1 DEF SendNamed
  <2> HIDE DEF next
  <2> QED BY <2>1, <2>2 DEF StepOfSend
<1>2. ASSUME NEW account \in Accounts, SendPrefixed(s, account, override)
      PROVE  StepOfSend(s) /\ directory' = directory
  <2> DEFINE rows == Of(account)
             To(kind, known) ==
                 [pc |-> "bot", to |-> account, kind |-> kind, known |-> known,
                  target |-> IF override = NoPlatform THEN PlatformOf[account] ELSE override]
  <2>1. directory' = directory
    BY <1>2 DEF SendPrefixed
  <2>2. ASSUME NEW kind \in AccountKinds, NEW known \in BOOLEAN
        PROVE  To(kind, known) \in Sending
    BY ContactsAssumption DEF Sending, Override
  <2>3. CASE rows = {}
    <3>1. send' = [send EXCEPT ![s] = To("user", FALSE)]
      BY <1>2, <2>3 DEF SendPrefixed, SendTo
    <3>2. To("user", FALSE) \in Sending /\ ~To("user", FALSE).known
      BY <2>2 DEF AccountKinds
    <3> HIDE DEF To
    <3> QED BY <2>1, <3>1, <3>2 DEF StepOfSend
  <2>4. CASE rows # {}
    <3> DEFINE i == Latest(rows)
    <3>1. i \in 1..Len(directory) /\ directory[i].account = account
      BY <2>4, LatestOfRows DEF Of
    <3>2. directory[i].kind \in AccountKinds
      <4>1. directory[i] \in Contact
        BY <3>1 DEF ContactsTypeOK
      <4> QED BY <4>1 DEF Contact
    <3>3. send' = [send EXCEPT ![s] = To(directory[i].kind, TRUE)]
      BY <1>2, <2>4 DEF SendPrefixed, SendTo
    <3>4. /\ To(directory[i].kind, TRUE) \in Sending
          /\ To(directory[i].kind, TRUE).to = account
          /\ To(directory[i].kind, TRUE).kind = directory[i].kind
      BY <2>2, <3>2
    <3> HIDE DEF To, i
    <3> QED BY <2>1, <3>1, <3>3, <3>4 DEF StepOfSend
  <2> QED BY <2>3, <2>4
<1>3. ASSUME NEW rows, Found(rows), SendToBest(s, rows), Searching(s)
      PROVE  StepOfSend(s)
  <2>1. PICK i \in rows : \E next : Chosen(s, i, next)
    BY <1>3, SentToBest
  <2>2. PICK next : Chosen(s, i, next)
    BY <2>1
  <2> QED BY <1>3, <2>2 DEF StepOfSend, Found, Chosen
<1>4. CASE FindExact(s)
  <2> DEFINE rows == {i \in 1..Len(directory) : directory[i].name = send[s].to}
  <2>1. directory' = directory /\ send[s].pc = "exact"
    BY <1>4 DEF FindExact
  <2>2. CASE rows = {}
    <3> DEFINE next == [send[s] EXCEPT !.pc = "fuzzy"]
    <3>1. send' = [send EXCEPT ![s] = next]
      BY <1>4, <2>2 DEF FindExact, ContactsTypeOK
    <3>2. next \in Sending /\ next.pc = "fuzzy"
      BY <2>1 DEF ContactsTypeOK, Sending, NoSend
    <3> HIDE DEF next
    <3> QED BY <2>1, <3>1, <3>2 DEF StepOfSend
  <2>3. CASE rows # {}
    <3>1. SendToBest(s, rows) /\ Found(rows) /\ Searching(s)
      BY <1>4, <2>1, <2>3 DEF FindExact, Found, Searching
    <3> QED BY <1>3, <2>1, <3>1
  <2> QED BY <2>2, <2>3
<1>5. CASE FindFuzzy(s)
  <2> DEFINE all == {i \in 1..Len(directory) : directory[i].name \in Like[send[s].to]}
             rows == {i \in all : Cardinality({j \in all : j <= i}) <= Limit}
  <2>1. directory' = directory /\ send[s].pc = "fuzzy"
    BY <1>5 DEF FindFuzzy
  <2>2. CASE rows = {}
    <3>1. send' = [send EXCEPT ![s] = NoSend]
      BY <1>5, <2>2 DEF FindFuzzy
    <3> QED BY <2>1, <3>1, Resting
  <2>3. CASE rows # {}
    <3>1. SendToBest(s, rows) /\ Found(rows) /\ Searching(s)
      BY <1>5, <2>1, <2>3 DEF FindFuzzy, Found, Searching
    <3> QED BY <1>3, <2>1, <3>1
  <2> QED BY <2>2, <2>3
<1>6. CASE SendByBot(s)
  BY <1>6, Resting DEF SendByBot
<1> QED BY <1>1, <1>2, <1>4, <1>5, <1>6

\* A step adds or renames a contact, or is one of a send.
LEMMA ContactSteps ==
    ASSUME ContactsTypeOK, [ContactsNext]_contactVars
    PROVE  \/ \E account \in Accounts, kind \in AccountKinds, name \in Names :
                UpsertContact(account, kind, name)
           \/ directory' = directory /\ \E s \in Sends : StepOfSend(s)
           \/ UNCHANGED contactVars
<1>1. "user" \in AccountKinds /\ "group" \in AccountKinds
  BY DEF AccountKinds
<1>2. ASSUME NEW account \in Accounts, NEW name \in Names,
             CaptureUser(account, name) \/ CaptureGroup(account, name)
      PROVE  \E kind \in AccountKinds : UpsertContact(account, kind, name)
  BY <1>1, <1>2 DEF CaptureUser, CaptureGroup
<1>3. NoPlatform \in Override
  BY DEF Override
<1> QED BY <1>2, <1>3, SendSteps DEF ContactsNext, AddContact

\* Every step keeps the types, and what a send found in the directory.
LEMMA ContactsStep ==
    ASSUME ContactsTypeOK, KindKept, [ContactsNext]_contactVars
    PROVE  ContactsTypeOK' /\ KindKept'
<1>1. ASSUME NEW account \in Accounts, NEW kind \in AccountKinds, NEW name \in Names,
             UpsertContact(account, kind, name)
      PROVE  ContactsTypeOK' /\ KindKept'
  <2>1. /\ ContactsTypeOK' /\ send' = send
        /\ \A i \in 1..Len(directory) : \E j \in 1..Len(directory') :
              /\ directory'[j].account = directory[i].account
              /\ directory'[j].kind = directory[i].kind
    BY <1>1, Upserted
  <2>2. KindKept'
    BY <2>1 DEF KindKept
  <2> QED BY <2>1, <2>2
<1>2. ASSUME NEW s \in Sends, StepOfSend(s), directory' = directory
      PROVE  ContactsTypeOK' /\ KindKept'
  <2>1. PICK next \in {NoSend} \cup Sending :
            /\ send' = [send EXCEPT ![s] = next]
            /\ next.pc = "bot" /\ next.known =>
                \E i \in 1..Len(directory) :
                    directory[i].account = next.to /\ directory[i].kind = next.kind
    BY <1>2 DEF StepOfSend
  <2>2. ContactsTypeOK'
    BY <1>2, <2>1 DEF ContactsTypeOK
  <2>3. send \in [Sends -> {NoSend} \cup Sending]
    BY DEF ContactsTypeOK
  <2>4. send'[s] = next /\ \A r \in Sends \ {s} : send'[r] = send[r]
    BY <2>1, <2>3
  <2>5. KindKept'
    BY <1>2, <2>1, <2>4 DEF KindKept
  <2> QED BY <2>2, <2>5
<1>3. CASE UNCHANGED contactVars
  <2>1. directory' = directory /\ send' = send
    BY <1>3 DEF contactVars
  <2> QED BY <2>1 DEF ContactsTypeOK, KindKept
<1> QED BY <1>1, <1>2, <1>3, ContactSteps

LEMMA ContactsInvariant == ContactsSpec => [](ContactsTypeOK /\ KindKept)
<1>1. ContactsInit => KindKept
  BY DEF ContactsInit, KindKept, NoSend
<1>2. ContactsTypeOK /\ KindKept /\ [ContactsNext]_contactVars => ContactsTypeOK' /\ KindKept'
  BY ContactsStep
<1> QED BY <1>1, <1>2, ContactsTypeInit, PTL DEF ContactsSpec

\* The directory and the sends keep their shapes, and no account has two rows,
\* whatever is captured and added at once.
THEOREM ContactsTypeCorrect == ContactsSpec => []ContactsTypeOK
BY ContactsInvariant, PTL

\* A row never changes its kind or disappears: what a send found is still what
\* it takes it for when the bot is called.
THEOREM KindAlwaysKept == ContactsSpec => []KindKept
BY ContactsInvariant, PTL

\* A name that some contact on the preferred platform has reaches one there.
THEOREM NamesakesPreferred == ContactsSpec => NamesakePreferred
<1> DEFINE Namesakes(s) == {i \in 1..Len(directory) :
                /\ directory[i].name = send[s].to
                /\ PlatformOf[directory[i].account] = Preferred(send[s].override)}
           Preference ==
               \A s \in Sends :
                   send[s].pc = "exact" /\ send'[s] # send[s] /\ Namesakes(s) # {} =>
                       send'[s].pc = "bot"
                           /\ \E i \in Namesakes(s) : directory[i].account = send'[s].to
<1>1. ASSUME ContactsTypeOK, [ContactsNext]_contactVars PROVE [Preference]_contactVars
  <2> SUFFICES ASSUME NEW s \in Sends, send[s].pc = "exact", send'[s] # send[s],
                      Namesakes(s) # {}
               PROVE  /\ send'[s].pc = "bot"
                      /\ \E i \in Namesakes(s) : directory[i].account = send'[s].to
    OBVIOUS
  <2>1. send \in [Sends -> {NoSend} \cup Sending]
    BY <1>1 DEF ContactsTypeOK
  <2>2. send[s] # NoSend
    BY DEF NoSend
  <2>3. FindExact(s)
    <3>1. ASSUME NEW account \in Accounts, NEW kind \in AccountKinds, NEW name \in Names,
                 UpsertContact(account, kind, name)
          PROVE  FALSE
      BY <3>1 DEF UpsertContact
    <3>2. ASSUME NEW r \in Sends, r # s,
                 \/ \E override \in Override :
                    \/ \E name \in Names : SendNamed(r, name, override)
                    \/ \E account \in Accounts : SendPrefixed(r, account, override)
                 \/ FindExact(r) \/ FindFuzzy(r) \/ SendByBot(r)
          PROVE  FALSE
      <4>1. StepOfSend(r)
        <5>1. NoPlatform \in Override
          BY DEF Override
        <5> QED BY <1>1, <3>2, <5>1, SendSteps
      <4> QED BY <2>1, <3>2, <4>1 DEF StepOfSend
    <3>3. ~FindFuzzy(s) /\ ~SendByBot(s)
      BY DEF FindFuzzy, SendByBot
    <3>4. \A override \in Override :
            /\ \A name \in Names : ~SendNamed(s, name, override)
            /\ \A account \in Accounts : ~SendPrefixed(s, account, override)
      BY <2>2 DEF SendNamed, SendPrefixed
    <3>5. ~UNCHANGED contactVars
      BY DEF contactVars
    <3>6. ContactsNext
      BY <1>1, <3>5
    <3>7. "user" \in AccountKinds /\ "group" \in AccountKinds
      BY DEF AccountKinds
    <3> QED BY <3>1, <3>2, <3>3, <3>4, <3>6, <3>7
            DEF ContactsNext, AddContact, CaptureUser, CaptureGroup
  <2> DEFINE rows == {i \in 1..Len(directory) : directory[i].name = send[s].to}
  <2>4. PICK j \in Namesakes(s) : TRUE
    OBVIOUS
  <2>5. j \in rows /\ PlatformOf[directory[j].account] = Preferred(send[s].override)
    OBVIOUS
  <2>6. SendToBest(s, rows)
    BY <2>3, <2>5 DEF FindExact
  <2>7. PICK i \in rows :
            /\ \E next : Chosen(s, i, next)
            /\ \A k \in rows : PreferredRow(s, k) => PreferredRow(s, i)
    <3>1. Found(rows) /\ Searching(s)
      BY <2>5 DEF Found, Searching
    <3> HIDE DEF rows
    <3> QED BY <1>1, <2>6, <3>1, SentToBest
  <2>8. send'[s].pc = "bot" /\ send'[s].to = directory[i].account
    BY <2>1, <2>7 DEF Chosen
  <2>9. i \in Namesakes(s)
    BY <2>5, <2>7 DEF PreferredRow
  <2> QED BY <2>8, <2>9
<1>2. ContactsTypeOK /\ [ContactsNext]_contactVars => [Preference]_contactVars
  BY <1>1
<1>3. NamesakePreferred <=> [][Preference]_contactVars
  BY PTL DEF NamesakePreferred
<1> QED BY <1>2, <1>3, ContactsInvariant, PTL DEF ContactsSpec

=============================================================================
