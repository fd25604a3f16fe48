---------------------------- MODULE Conversation ----------------------------
(***************************************************************************)
(* core/agent.py and core/compaction.py: one persistent thread of an       *)
(* agent, the chats that run on it and the compaction that comes before    *)
(* them.  Chats are coroutines of the loop and interleave at every await:  *)
(* nothing keeps two of them (a request and a scheduled job, say) off the  *)
(* same thread.  Only compactions exclude each other.                      *)
(*                                                                         *)
(* LangGraph is external: a run loads the latest checkpoint, works on its  *)
(* own copy and writes the whole of it after each node; aupdate_state      *)
(* applies one change to the latest checkpoint.                            *)
(***************************************************************************)
EXTENDS Naturals, Sequences, FiniteSets

CONSTANTS Chats,        \* chats in progress at once
          Streams,      \* those of the streaming endpoint
          MaxMessages,  \* DEFAULT_MAX_MESSAGES
          KeepRecent,   \* DEFAULT_KEEP_RECENT
          Ids,          \* bound: message ids
          Reuse,        \* whether ids that no one holds any more are used again
          MaxLen,       \* bound: compaction finds the database down on no longer thread
          MaxCalls,     \* tool calls of one run within recursion_limit
          Faults        \* which of "llm", "db", "write", "disconnect", "crash" happen

ASSUME ConversationAssumption ==
    /\ MaxMessages \in Nat /\ KeepRecent \in Nat \ {0} /\ KeepRecent < MaxMessages
    /\ Streams \subseteq Chats
    /\ Ids \subseteq Nat /\ Reuse \in BOOLEAN
    /\ MaxLen \in Nat /\ MaxCalls \in Nat

VARIABLES thread,  \* the messages in the latest checkpoint
          chat     \* what each chat is doing

vars == <<thread, chat>>

Kinds == {"user", "call", "result", "reply", "summary"}
Message == [id: Ids, kind: Kinds]

Idle == [pc |-> "idle"]
\* stream: an exception falls back to chat.  old: the ids that compaction is
\* about to remove.  copy: the messages in the run's hands.
Compacting == [pc: {"read", "add"}, stream: BOOLEAN]
    \cup [pc: {"remove"}, stream: BOOLEAN, old: SUBSET Ids]
Running == [pc: {"agent", "tools"}, stream: BOOLEAN, copy: Seq(Message), calls: 0..MaxCalls]
Waiting == [pc: {"invoke", "refused"}, stream: BOOLEAN]

TypeOK ==
    /\ thread \in Seq(Message)
    /\ chat \in [Chats -> {Idle} \cup Compacting \cup Running \cup Waiting]

IdsOf(h) == {h[i].id : i \in 1..Len(h)}

Init ==
    /\ thread = <<>>
    /\ chat = [c \in Chats |-> Idle]

Step(c, next) == chat' = [chat EXCEPT ![c] = next]

\* _compaction_locks[thread_id] is held from the read to the last update.
Locked == \E c \in Chats : chat[c].pc \in {"read", "remove", "add"}

\* The ids in the checkpoint, the runs and the compactions.
Held ==
    LET copied == UNION {IdsOf(chat[c].copy) : c \in {d \in Chats : chat[d].pc \in {"agent", "tools"}}}
        removed == UNION {chat[c].old : c \in {d \in Chats : chat[d].pc = "remove"}}
    IN IdsOf(thread) \cup copied \cup removed
Unused ==
    LET held == Held
        later == {n \in Ids : \A m \in held : m < n}
    IN IF Reuse /\ later = {} THEN Ids \ held ELSE later
New(kind) ==
    LET unused == Unused
    IN [id |-> CHOOSE n \in unused : \A m \in unused : n <= m, kind |-> kind]

\* What the providers require: a result directly follows its call, and a call
\* has one.
Sound(h) == \A i \in 1..Len(h) :
    /\ h[i].kind = "result" => i > 1 /\ h[i - 1].kind = "call"
    /\ h[i].kind = "call" => i < Len(h) /\ h[i + 1].kind = "result"
-----------------------------------------------------------------------------
(* chat and chat_stream, up to the graph *)

\* Past the cost guard and the safety check; a compaction in progress is not
\* waited for.
Enter(c, stream) ==
    Step(c, [pc |-> IF Locked THEN "invoke" ELSE "read", stream |-> stream])

Start(c) ==
    /\ chat[c] = Idle
    /\ Enter(c, c \in Streams)
    /\ UNCHANGED thread
-----------------------------------------------------------------------------
(* _do_compact, under the lock; whatever it raises is logged and swallowed *)

Proceed(c) == Step(c, [pc |-> "invoke", stream |-> chat[c].stream])

\* Mutant: everything but the latest messages, counted from the wrong end.
OldestKept(h) == IdsOf(SubSeq(h, KeepRecent + 1, Len(h)))

\* compact_context: messages[:-keep_recent], earlier summaries included.
OldMessages(h) == IdsOf(SubSeq(h, 1, Len(h) - KeepRecent))

\* The state is read, and the LLM asked for a summary of what is old.
CompactRead(c) ==
    /\ chat[c].pc = "read"
    /\ IF Len(thread) > MaxMessages
       THEN Step(c, [pc |-> "remove", stream |-> chat[c].stream, old |-> OldMessages(thread)])
       ELSE Proceed(c)
    /\ UNCHANGED thread

\* The messages of h that have none of the ids, in their order.
Without(h, ids) ==
    LET kept[n \in 0..Len(h)] ==
            IF n = 0 THEN <<>>
            ELSE IF h[n].id \in ids THEN kept[n - 1] ELSE Append(kept[n - 1], h[n])
    IN kept[Len(h)]

\* Step 1, with or without a summary from the LLM.  To remove an id that is
\* not in the checkpoint is an error.
CompactRemove(c) ==
    /\ chat[c].pc = "remove"
    /\ chat[c].old \subseteq IdsOf(thread)
    /\ thread' = Without(thread, chat[c].old)
    /\ Step(c, [pc |-> "add", stream |-> chat[c].stream])

\* Step 2: the summary comes last, after the messages it precedes in time.
CompactAdd(c) ==
    /\ chat[c].pc = "add" /\ Unused # {}
    /\ thread' = Append(thread, New("summary"))
    /\ Proceed(c)

CompactFails(c) ==
    /\ \/ chat[c].pc \in {"read", "remove", "add"} /\ "db" \in Faults /\ Len(thread) <= MaxLen
       \/ chat[c].pc = "remove" /\ ~(chat[c].old \subseteq IdsOf(thread))
    /\ Proceed(c)
    /\ UNCHANGED thread
-----------------------------------------------------------------------------
(* The run of the graph *)

\* Mutant: the user's message stays in the run and is not yet written.
InvokeUnwritten(c) ==
    /\ chat[c].pc = "invoke" /\ Unused # {}
    /\ Step(c, [pc |-> "agent", stream |-> chat[c].stream, calls |-> 0,
                copy |-> Append(thread, New("user"))])
    /\ UNCHANGED thread

\* ainvoke or astream_events: the message is in the checkpoint before the
\* agent node runs, and stays there if that fails.
Invoke(c) ==
    /\ chat[c].pc = "invoke" /\ Unused # {}
    /\ LET h == Append(thread, New("user")) IN
        /\ thread' = h
        /\ Step(c, [pc |-> "agent", stream |-> chat[c].stream, copy |-> h, calls |-> 0])

\* Mutant: the limit on the steps of a run is met one call later.
AgentLate(c) ==
    /\ chat[c].pc = "agent" /\ Unused # {}
    /\ Sound(chat[c].copy)
    /\ \/ /\ chat[c].calls <= MaxCalls
          /\ LET h == Append(chat[c].copy, New("call")) IN
              /\ thread' = h
              /\ Step(c, [chat[c] EXCEPT !.pc = "tools", !.copy = h, !.calls = @ + 1])
       \/ /\ thread' = Append(chat[c].copy, New("reply"))
          /\ Step(c, Idle)

\* agent_node, then should_continue.  What comes after the last call is the reply
\* or GraphFails.
Agent(c) ==
    /\ chat[c].pc = "agent" /\ Unused # {}
    /\ Sound(chat[c].copy)
    /\ \/ /\ chat[c].calls < MaxCalls
          /\ LET h == Append(chat[c].copy, New("call")) IN
              /\ thread' = h
              /\ Step(c, [chat[c] EXCEPT !.pc = "tools", !.copy = h, !.calls = @ + 1])
       \/ /\ thread' = Append(chat[c].copy, New("reply"))
          /\ Step(c, Idle)

\* ToolNode answers the errors of tools too.
Tools(c) ==
    /\ chat[c].pc = "tools" /\ Unused # {}
    /\ LET h == Append(chat[c].copy, New("result")) IN
        /\ thread' = h
        /\ Step(c, [chat[c] EXCEPT !.pc = "agent", !.copy = h])

\* Mutant: a stream that fails starts over as a stream.
RaiseAgain(c) == IF chat[c].stream THEN Enter(c, TRUE) ELSE Step(c, Idle)

\* An exception of the run: chat_stream starts over with chat.
Raise(c) == IF chat[c].stream THEN Enter(c, FALSE) ELSE Step(c, Idle)

\* The run ends before the graph does: the LLM fails, or a write of the
\* checkpoint, or recursion_limit is reached, with the last call answered or not.
GraphFails(c) ==
    /\ \/ "llm" \in Faults /\ chat[c].pc = "agent" /\ Sound(chat[c].copy)
       \/ "write" \in Faults /\ chat[c].pc \in {"invoke", "agent", "tools"}
       \/ chat[c].pc \in {"agent", "tools"} /\ chat[c].calls = MaxCalls
    /\ Raise(c)
    /\ UNCHANGED thread

\* The provider refuses a history that is not sound.  chat looks for one
\* wording of that; others have theirs.
Refuse(c) ==
    /\ chat[c].pc = "agent"
    /\ ~Sound(chat[c].copy)
    /\ \/ Raise(c)
       \/ ~chat[c].stream /\ Step(c, [pc |-> "refused", stream |-> FALSE])
    /\ UNCHANGED thread

\* The message goes to a thread of its own, answered there or not.
Reset(c) ==
    /\ chat[c].pc = "refused"
    /\ Step(c, Idle)
    /\ UNCHANGED thread

\* The client of a stream goes away: the generator is cancelled at an await,
\* and the lock released.
Disconnect(c) ==
    /\ "disconnect" \in Faults
    /\ chat[c] # Idle /\ chat[c].stream
    /\ Step(c, Idle)
    /\ UNCHANGED thread

Crash ==
    /\ "crash" \in Faults
    /\ chat' = [c \in Chats |-> Idle]
    /\ UNCHANGED thread

Proceeds(c) ==
    \/ CompactRead(c) \/ CompactRemove(c) \/ CompactAdd(c) \/ CompactFails(c)
    \/ Invoke(c) \/ Agent(c) \/ Tools(c) \/ GraphFails(c) \/ Refuse(c) \/ Reset(c)

Next ==
    \/ \E c \in Chats : Start(c) \/ Proceeds(c) \/ Disconnect(c)
    \/ Crash

Spec == Init /\ [][Next]_vars

\* Every await ends: the LLM, the tools and the database answer or time out.
Fairness == \A c \in Chats : WF_vars(Proceeds(c))

FairSpec == Spec /\ Fairness
-----------------------------------------------------------------------------
(* Properties *)

\* Whatever other chats write between the reading of the thread and the
\* removal of what was old in it, a compaction never removes the thread's
\* latest message (one that a run may be about to answer), let alone all.
LatestKept ==
    \A c \in Chats :
        chat[c].pc = "remove" /\ chat[c].old \subseteq IdsOf(thread)
            => thread # <<>> /\ thread[Len(thread)].id \notin chat[c].old

\* A step that only goes wrong: no other has the same outcome.
Fails(c) ==
    \/ CompactFails(c) /\ ~CompactRead(c)
    \/ GraphFails(c) /\ ~Refuse(c)
    \/ Disconnect(c)
    \/ Crash /\ \A d \in Chats : ~Refuse(d) /\ ~Reset(d)

\* A thread that no provider accepts any more (a compaction has cut between a
\* call and its result, or a run has died between them) is mended by the
\* chats refused on it: they leave their messages, and compaction drops what
\* is before them.  So chats that go on without failures get their replies.
Heals ==
    (/\ <>[][\A c \in Chats : ~Fails(c)]_vars
     /\ \A c \in Chats : []<><<Start(c)>>_vars)
        => []<><<\E c \in Chats : Agent(c) /\ chat'[c] = Idle>>_vars

\* Every chat ends, and whatever ends it the lock is released.
Ends == \A c \in Chats : chat[c] # Idle ~> chat[c] = Idle
=============================================================================
