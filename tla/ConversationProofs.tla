------------------------- MODULE ConversationProofs -------------------------
(***************************************************************************)
(* Theorems about Conversation for any number of chats, any thresholds of  *)
(* compaction, any length of the thread and whatever fails: its types, that *)
(* a compaction never removes the latest message, and that every chat ends *)
(* after a bounded number of steps.                                        *)
(***************************************************************************)
EXTENDS Conversation, TLAPS, WellFoundedInduction

(***************************************************************************)
(* Numbers.                                                                *)

\* Every nonempty set of numbers has a least.
LEMMA LeastId ==
    ASSUME NEW T, T \subseteq Nat, T # {}
    PROVE  \E n \in T : \A m \in T : n <= m
<1> DEFINE R == {p \in Nat \X Nat : p[1] < p[2]}
<1>1. R = OpToRel(<, Nat)
  BY DEF OpToRel
<1>2. IsWellFoundedOn(R, Nat)
  BY <1>1, NatLessThanWellFounded
<1>3. \A n, m \in Nat : n < m => <<n, m>> \in R
  OBVIOUS
<1> HIDE DEF R
<1>4. PICK n \in T : \A m \in T : ~ (<<m, n>> \in R)
  BY <1>2, WFMin
<1>5. \A m \in T : ~ (m < n)
  BY <1>3, <1>4
<1>6. \A m \in T : n <= m
  BY <1>5
<1> QED BY <1>6

\* A set of numbers that holds 0, and with each number the next, holds all.
LEMMA Induction ==
    ASSUME NEW T, 0 \in T, \A n \in Nat : n \in T => n + 1 \in T
    PROVE  Nat \subseteq T
<1> DEFINE U == Nat \ T
<1>1. SUFFICES ASSUME U # {} PROVE FALSE
  OBVIOUS
<1>2. PICK n \in U : \A m \in U : n <= m
  BY <1>1, LeastId
<1>3. n # 0 /\ n - 1 \in Nat /\ n - 1 \in T
  BY <1>2
<1> QED BY <1>2, <1>3

(***************************************************************************)
(* Filtering of messages.                                                  *)

Distinct(h) == \A i, j \in 1..Len(h) : h[i].id = h[j].id => i = j

\* A thread that gets a message of a new id.
LEMMA Appended ==
    ASSUME NEW w \in Seq(Message), NEW m \in Message, Distinct(w),
           \A j \in 1..Len(w) : w[j].id # m.id
    PROVE  /\ Append(w, m) \in Seq(Message) /\ Len(Append(w, m)) = Len(w) + 1
           /\ \A j \in 1..Len(w) : Append(w, m)[j] = w[j]
           /\ Append(w, m)[Len(w) + 1] = m
           /\ Distinct(Append(w, m))
<1> DEFINE v == Append(w, m)
<1>1. v \in Seq(Message) /\ Len(v) = Len(w) + 1 /\ v[Len(w) + 1] = m /\ Len(w) \in Nat
  OBVIOUS
<1>2. \A j \in 1..Len(w) : v[j] = w[j]
  OBVIOUS
<1> HIDE DEF v
<1>3. ASSUME NEW i \in 1..Len(v), NEW j \in 1..Len(v), v[i].id = v[j].id
      PROVE  i = j
  <2>1. i \in 1..Len(w) \/ i = Len(w) + 1
    BY <1>1
  <2>2. j \in 1..Len(w) \/ j = Len(w) + 1
    BY <1>1
  <2>3. CASE i \in 1..Len(w) /\ j \in 1..Len(w)
    BY <1>2, <1>3, <2>3 DEF Distinct
  <2>4. CASE i \in 1..Len(w) /\ j = Len(w) + 1
    BY <1>1, <1>2, <1>3, <2>4
  <2>5. CASE i = Len(w) + 1 /\ j \in 1..Len(w)
    BY <1>1, <1>2, <1>3, <2>5
  <2> QED BY <2>1, <2>2, <2>3, <2>4, <2>5
<1>4. Distinct(v)
  BY <1>3 DEF Distinct
<1> QED BY <1>1, <1>2, <1>4 DEF v

\* What the first n messages of h leave, given what those before leave.
Leaves(f, h, ids, n) ==
    IF n = 0 THEN <<>>
    ELSE IF h[n].id \in ids THEN f[n - 1] ELSE Append(f[n - 1], h[n])

Filter(f, h, ids, n) == f = [i \in 0..n |-> Leaves(f, h, ids, i)]

\* The recursive definition of Without defines a function.
LEMMA FilterExists ==
    ASSUME NEW h \in Seq(Message), NEW ids
    PROVE  \A n \in Nat : \E f : Filter(f, h, ids, n)
<1> DEFINE T == {n \in Nat : \E f : Filter(f, h, ids, n)}
<1>1. 0 \in T
  <2> DEFINE f == [i \in 0..0 |-> <<>>]
  <2>1. Filter(f, h, ids, 0)
    BY DEF Filter, Leaves
  <2> QED BY <2>1
<1>2. ASSUME NEW n \in Nat, n \in T PROVE n + 1 \in T
  <2>1. PICK f : Filter(f, h, ids, n)
    BY <1>2
  <2> DEFINE g == [i \in 0..(n + 1) |-> IF i <= n THEN f[i] ELSE Leaves(f, h, ids, i)]
  <2>2. \A i \in 0..n : g[i] = f[i]
    OBVIOUS
  <2>3. ASSUME NEW i \in 0..(n + 1) PROVE g[i] = Leaves(g, h, ids, i)
    <3>1. Leaves(g, h, ids, i) = Leaves(f, h, ids, i)
      BY <2>2 DEF Leaves
    <3>2. CASE i <= n
      <4>1. f[i] = Leaves(f, h, ids, i)
        BY <2>1, <3>2 DEF Filter
      <4> QED BY <2>2, <3>1, <3>2, <4>1
    <3>3. CASE ~(i <= n)
      BY <3>1, <3>3
    <3> QED BY <3>2, <3>3
  <2>4. Filter(g, h, ids, n + 1)
    <3>1. g = [i \in 0..(n + 1) |-> g[i]]
      OBVIOUS
    <3> HIDE DEF g
    <3>2. g = [i \in 0..(n + 1) |-> Leaves(g, h, ids, i)]
      BY <2>3, <3>1
    <3> QED BY <3>2 DEF Filter
  <2> QED BY <2>4
<1> HIDE DEF T
<1>3. Nat \subseteq T
  BY <1>1, <1>2, Induction
<1> QED BY <1>3 DEF T

\* What a prefix leaves: messages of it, each once if it was there once.
Left(w, h, ids, n) ==
    /\ w \in Seq(Message)
    /\ \A j \in 1..Len(w) : \E i \in 1..n : w[j] = h[i] /\ h[i].id \notin ids
    /\ Distinct(w)

LEMMA FilterLeaves ==
    ASSUME NEW h \in Seq(Message), Distinct(h), NEW ids, NEW f, Filter(f, h, ids, Len(h))
    PROVE  \A n \in 0..Len(h) : Left(f[n], h, ids, n)
<1> DEFINE T == {n \in Nat : n <= Len(h) => Left(f[n], h, ids, n)}
<1>1. 0 \in T
  <2>1. f[0] = <<>>
    BY DEF Filter, Leaves
  <2>2. f[0] \in Seq(Message) /\ 1..Len(f[0]) = {}
    BY <2>1
  <2> QED BY <2>2 DEF Left, Distinct
<1>2. ASSUME NEW n \in Nat, n \in T PROVE n + 1 \in T
  <2> SUFFICES ASSUME n + 1 <= Len(h) PROVE Left(f[n + 1], h, ids, n + 1)
    OBVIOUS
  <2>1. Left(f[n], h, ids, n)
    BY <1>2
  <2>2. n + 1 \in 0..Len(h) /\ n + 1 # 0 /\ (n + 1) - 1 = n /\ n + 1 \in 1..Len(h)
    OBVIOUS
  <2>3. f[n + 1] = IF h[n + 1].id \in ids THEN f[n] ELSE Append(f[n], h[n + 1])
    BY <2>2 DEF Filter, Leaves
  <2>4. CASE h[n + 1].id \in ids
    BY <2>1, <2>3, <2>4 DEF Left
  <2>5. CASE h[n + 1].id \notin ids
    <3> DEFINE w == f[n]
               m == h[n + 1]
    <3>1. w \in Seq(Message) /\ m \in Message /\ Len(w) \in Nat
      BY <2>1, <2>2 DEF Left
    <3>2. f[n + 1] = Append(w, m)
      BY <2>3, <2>5
    <3> HIDE DEF w
    <3>3. \A j \in 1..Len(w) : \E i \in 1..n : w[j] = h[i] /\ h[i].id \notin ids
      BY <2>1 DEF Left, w
    <3>4. \A j \in 1..Len(w) : w[j].id # m.id
      BY <2>2, <3>3 DEF Distinct
    <3> HIDE DEF m
    <3>5. Distinct(w)
      BY <2>1 DEF Left, w
    <3>6. /\ Append(w, m) \in Seq(Message) /\ Len(Append(w, m)) = Len(w) + 1
          /\ \A j \in 1..Len(w) : Append(w, m)[j] = w[j]
          /\ Append(w, m)[Len(w) + 1] = m
          /\ Distinct(Append(w, m))
      BY <3>1, <3>4, <3>5, Appended
    <3>7. ASSUME NEW j \in 1..Len(Append(w, m))
          PROVE  \E i \in 1..(n + 1) : Append(w, m)[j] = h[i] /\ h[i].id \notin ids
      <4>1. CASE j \in 1..Len(w)
        BY <3>3, <3>6, <4>1
      <4>2. CASE j = Len(w) + 1
        BY <2>5, <3>6, <4>2 DEF m
      <4> QED BY <3>1, <3>6, <4>1, <4>2
    <3> QED BY <3>2, <3>7, <3>6 DEF Left
  <2> QED BY <2>4, <2>5
<1> HIDE DEF T
<1>3. Nat \subseteq T
  BY <1>1, <1>2, Induction
<1> QED BY <1>3 DEF T

\* What Without returns.
LEMMA WithoutLeaves ==
    ASSUME NEW h \in Seq(Message), Distinct(h), NEW ids
    PROVE  Left(Without(h, ids), h, ids, Len(h))
<1> DEFINE f == CHOOSE g : Filter(g, h, ids, Len(h))
<1>1. Without(h, ids) = f[Len(h)]
  BY DEF Without, Filter, Leaves
<1>2. Len(h) \in Nat
  OBVIOUS
<1>3. Filter(f, h, ids, Len(h))
  BY <1>2, FilterExists
<1> HIDE DEF f
<1> QED BY <1>1, <1>2, <1>3, FilterLeaves

(***************************************************************************)
(* Types.                                                                  *)

Activity == {Idle} \cup Compacting \cup Running \cup Waiting
IsRunning(c) == chat[c].pc \in {"agent", "tools"}

\* The fields that a chat has.
LEMMA Fields ==
    ASSUME TypeOK, NEW c \in Chats
    PROVE  /\ chat[c] \in Activity
           /\ chat[c] # Idle => chat[c].stream \in BOOLEAN
           /\ chat[c].pc # "idle" <=> chat[c] # Idle
           /\ chat[c].pc = "remove" => chat[c].old \subseteq Ids
           /\ IsRunning(c) => /\ chat[c] \in Running
                              /\ chat[c].copy \in Seq(Message)
                              /\ chat[c].calls \in 0..MaxCalls
<1>1. chat[c] \in Activity
  BY DEF TypeOK, Activity
<1> QED BY <1>1 DEF Activity, IsRunning, Idle, Compacting, Running, Waiting

\* A step of one chat.
LEMMA Stepped ==
    ASSUME TypeOK, NEW c \in Chats, NEW next \in Activity, Step(c, next)
    PROVE  /\ chat' \in [Chats -> Activity]
           /\ chat'[c] = next
           /\ \A d \in Chats \ {c} : chat'[d] = chat[d]
BY DEF TypeOK, Activity, Step

\* A new message's id is held by no one.
LEMMA FreshMessage ==
    ASSUME Unused # {}, NEW kind \in Kinds
    PROVE  New(kind) \in Message /\ New(kind).id \notin Held
<1>1. Ids \subseteq Nat
  BY ConversationAssumption
<1>2. Unused \subseteq Ids \ Held
  <2>1. ASSUME NEW n \in Ids, \A m \in Held : m < n PROVE n \notin Held
    <3>1. n \in Nat
      BY <1>1
    <3>2. ~ (n < n)
      BY <3>1
    <3> QED BY <2>1, <3>2
  <2> QED BY <2>1 DEF Unused
<1>3. \E n \in Unused : \A m \in Unused : n <= m
  BY <1>1, <1>2, LeastId
<1> DEFINE id == CHOOSE n \in Unused : \A m \in Unused : n <= m
<1>4. id \in Unused
  BY <1>3
<1>5. New(kind) = [id |-> id, kind |-> kind]
  BY DEF New
<1> HIDE DEF id
<1> QED BY <1>2, <1>4, <1>5 DEF Message

\* Where a chat goes after its entry, and after an error of its run.
LEMMA Entered ==
    ASSUME NEW c \in Chats, NEW stream \in BOOLEAN, Enter(c, stream)
    PROVE  \E next \in Activity :
                /\ Step(c, next)
                /\ next.pc = "invoke" \/ (next.pc = "read" /\ ~Locked)
<1> DEFINE next == [pc |-> IF Locked THEN "invoke" ELSE "read", stream |-> stream]
<1>1. next \in Activity
  BY DEF Activity, Compacting, Waiting
<1>2. Step(c, next)
  BY DEF Enter
<1>3. next.pc = "invoke" \/ (next.pc = "read" /\ ~Locked)
  OBVIOUS
<1> HIDE DEF next
<1> QED BY <1>1, <1>2, <1>3

(***************************************************************************)
(* The inductive invariant: no id is twice in the thread or in the hands   *)
(* of a run, one compaction is in progress at most, and what it is about   *)
(* to remove is not nothing and leaves out the thread's last message.      *)

Compacts(c) == chat[c].pc \in {"read", "remove", "add"}
Exclusive == \A c, d \in Chats : Compacts(c) /\ Compacts(d) => c = d

Spares(old, h) == old # {} /\ (h # <<>> => h[Len(h)].id \notin old)
Good(c) ==
    /\ IsRunning(c) => Distinct(chat[c].copy)
    /\ chat[c].pc = "remove" => Spares(chat[c].old, thread)

ConversationInv == Distinct(thread) /\ Exclusive /\ \A c \in Chats : Good(c)

\* What a chat may go on to while the thread is h.
MayDo(c, next, h) ==
    /\ next \in Activity
    /\ next.pc \in {"read", "remove", "add"} => Compacts(c) \/ ~Locked
    /\ next.pc \in {"agent", "tools"} => Distinct(next.copy)
    /\ next.pc = "remove" => Spares(next.old, h)

\* A step of one chat keeps the invariant, if it leaves the thread to the
\* compaction of another as that needs it.
LEMMA StepKeeps ==
    ASSUME TypeOK, ConversationInv, NEW c \in Chats, NEW next, Step(c, next),
           MayDo(c, next, thread'), thread' \in Seq(Message), Distinct(thread'),
           \A d \in Chats \ {c} : chat[d].pc = "remove" => Spares(chat[d].old, thread')
    PROVE  TypeOK' /\ ConversationInv'
<1>1. /\ chat' \in [Chats -> Activity]
      /\ chat'[c] = next
      /\ \A d \in Chats \ {c} : chat'[d] = chat[d]
  BY Stepped DEF MayDo
<1>2. TypeOK'
  BY <1>1 DEF TypeOK, Activity
<1>3. Exclusive'
  <2> SUFFICES ASSUME NEW a \in Chats, NEW b \in Chats, Compacts(a)', Compacts(b)'
               PROVE  a = b
    BY DEF Exclusive
  <2>1. \A d \in Chats \ {c} : Compacts(d)' => Compacts(d)
    BY <1>1 DEF Compacts
  <2>2. ASSUME Compacts(c)', NEW d \in Chats \ {c}, Compacts(d) PROVE FALSE
    <3>1. Locked
      BY <2>2 DEF Locked, Compacts
    <3>2. Compacts(c)
      BY <1>1, <2>2, <3>1 DEF Compacts, MayDo
    <3> QED BY <2>2, <3>2 DEF ConversationInv, Exclusive
  <2>3. CASE a # c /\ b # c
    BY <2>1, <2>3 DEF ConversationInv, Exclusive
  <2> QED BY <2>1, <2>2, <2>3
<1>4. ASSUME NEW d \in Chats PROVE Good(d)'
  <2>1. CASE d = c
    BY <1>1, <2>1 DEF Good, MayDo, IsRunning
  <2>2. CASE d # c
    BY <1>1, <2>2 DEF Good, IsRunning, ConversationInv
  <2> QED BY <2>1, <2>2
<1> QED BY <1>2, <1>3, <1>4 DEF ConversationInv

\* The thread as it was, or with a new message at its end, or a run's copy
\* with one, is sound for the compaction of any other chat.
LEMMA Written ==
    ASSUME TypeOK, ConversationInv, NEW h \in Seq(Message), Distinct(h),
           IdsOf(h) \subseteq Held, Unused # {}, NEW kind \in Kinds,
           NEW g, g = Append(h, New(kind))
    PROVE  /\ g \in Seq(Message) /\ Distinct(g)
           /\ \A d \in Chats : chat[d].pc = "remove" => Spares(chat[d].old, g)
<1> DEFINE m == New(kind)
<1>1. m \in Message /\ m.id \notin Held
  BY FreshMessage
<1>2. \A j \in 1..Len(h) : h[j].id # m.id
  BY <1>1 DEF IdsOf
<1> HIDE DEF m
<1>3. /\ g \in Seq(Message) /\ Len(g) = Len(h) + 1 /\ g[Len(h) + 1] = m
      /\ Distinct(g)
  BY <1>1, <1>2, Appended DEF m
<1>4. ASSUME NEW d \in Chats, chat[d].pc = "remove" PROVE Spares(chat[d].old, g)
  <2>1. chat[d].old \subseteq Held
    BY <1>4 DEF Held
  <2>2. chat[d].old # {}
    BY <1>4 DEF ConversationInv, Good, Spares
  <2>3. g[Len(g)] = m
    BY <1>3
  <2>4. g[Len(g)].id \notin chat[d].old
    BY <1>1, <2>1, <2>3
  <2> QED BY <2>2, <2>4 DEF Spares
<1> QED BY <1>3, <1>4

LEMMA KeptThread ==
    ASSUME TypeOK, ConversationInv, NEW c \in Chats, NEW next, Step(c, next),
           MayDo(c, next, thread), thread' = thread
    PROVE  TypeOK' /\ ConversationInv'
<1>1. thread' \in Seq(Message) /\ Distinct(thread') /\ MayDo(c, next, thread')
  BY DEF TypeOK, ConversationInv
<1>2. \A d \in Chats \ {c} : chat[d].pc = "remove" => Spares(chat[d].old, thread')
  BY DEF ConversationInv, Good
<1> QED BY <1>1, <1>2, StepKeeps

(***************************************************************************)
(* Every step keeps the invariant.                                         *)

LEMMA StartKeeps ==
    ASSUME TypeOK, ConversationInv, NEW c \in Chats, Start(c)
    PROVE  TypeOK' /\ ConversationInv'
<1>1. PICK next \in Activity :
          /\ Step(c, next)
          /\ next.pc = "invoke" \/ (next.pc = "read" /\ ~Locked)
  <2>1. (c \in Streams) \in BOOLEAN /\ Enter(c, c \in Streams)
    BY DEF Start
  <2> QED BY <2>1, Entered
<1>2. MayDo(c, next, thread)
  BY <1>1 DEF MayDo
<1> QED BY <1>1, <1>2, KeptThread DEF Start

LEMMA ProceedKeeps ==
    ASSUME TypeOK, ConversationInv, NEW c \in Chats, chat[c] # Idle, Proceed(c),
           thread' = thread
    PROVE  TypeOK' /\ ConversationInv'
<1> DEFINE next == [pc |-> "invoke", stream |-> chat[c].stream]
<1>1. next \in Activity
  BY Fields DEF Activity, Waiting
<1>2. Step(c, next) /\ next.pc = "invoke"
  BY DEF Proceed
<1> HIDE DEF next
<1>3. MayDo(c, next, thread)
  BY <1>1, <1>2 DEF MayDo
<1> QED BY <1>2, <1>3, KeptThread

LEMMA RaiseKeeps ==
    ASSUME TypeOK, ConversationInv, NEW c \in Chats, Raise(c), thread' = thread
    PROVE  TypeOK' /\ ConversationInv'
<1>1. CASE chat[c].stream
  <2>1. PICK next \in Activity :
            /\ Step(c, next)
            /\ next.pc = "invoke" \/ (next.pc = "read" /\ ~Locked)
    BY <1>1, Entered DEF Raise
  <2>2. MayDo(c, next, thread)
    BY <2>1 DEF MayDo
  <2> QED BY <2>1, <2>2, KeptThread
<1>2. CASE ~chat[c].stream
  <2>1. Step(c, Idle)
    BY <1>2 DEF Raise
  <2>2. MayDo(c, Idle, thread)
    BY DEF MayDo, Activity, Idle
  <2> QED BY <2>1, <2>2, KeptThread
<1> QED BY <1>1, <1>2

LEMMA GoesIdle ==
    ASSUME TypeOK, ConversationInv, NEW c \in Chats, Step(c, Idle), thread' = thread
    PROVE  TypeOK' /\ ConversationInv'
<1>1. MayDo(c, Idle, thread)
  BY DEF MayDo, Activity, Idle
<1> QED BY <1>1, KeptThread

\* What is old is something, and not the last message, whose id is no other's.
LEMMA OldSpared ==
    ASSUME TypeOK, Distinct(thread), Len(thread) > MaxMessages
    PROVE  OldMessages(thread) \subseteq Ids /\ Spares(OldMessages(thread), thread)
<1> DEFINE n == Len(thread) - KeepRecent
           s == SubSeq(thread, 1, n)
<1>1. /\ Len(thread) \in Nat /\ n \in Nat /\ 1 <= n /\ n < Len(thread)
      /\ thread \in Seq(Message)
  BY ConversationAssumption DEF TypeOK
<1> HIDE DEF n
<1>2. /\ s \in Seq(Message) /\ Len(s) = n
      /\ \A i \in 1..n : s[i] = thread[i]
  BY <1>1
<1> HIDE DEF s
<1>3. OldMessages(thread) = {s[i].id : i \in 1..n}
  BY <1>2 DEF OldMessages, IdsOf, s, n
<1>4. \A i \in 1..n : s[i].id \in Ids /\ i \in 1..Len(thread) /\ i # Len(thread)
  <2>1. \A i \in 1..n : s[i] \in Message
    BY <1>2
  <2> QED BY <1>1, <2>1 DEF Message
<1>5. s[1].id \in OldMessages(thread)
  BY <1>1, <1>3
<1>6. thread[Len(thread)].id \notin OldMessages(thread)
  BY <1>1, <1>2, <1>3, <1>4 DEF Distinct
<1> QED BY <1>3, <1>4, <1>5, <1>6 DEF Spares

LEMMA CompactReadKeeps ==
    ASSUME TypeOK, ConversationInv, NEW c \in Chats, CompactRead(c)
    PROVE  TypeOK' /\ ConversationInv'
<1>1. chat[c].pc = "read" /\ chat[c] # Idle /\ thread' = thread
  BY DEF CompactRead, Idle
<1>2. CASE Len(thread) > MaxMessages
  <2> DEFINE next == [pc |-> "remove", stream |-> chat[c].stream, old |-> OldMessages(thread)]
  <2>1. OldMessages(thread) \subseteq Ids /\ Spares(OldMessages(thread), thread)
    BY <1>2, OldSpared DEF ConversationInv
  <2>2. next \in Activity
    BY <1>1, <2>1, Fields DEF Activity, Compacting
  <2>3. next.pc = "remove" /\ Spares(next.old, thread) /\ Step(c, next)
    BY <1>2, <2>1 DEF CompactRead
  <2> HIDE DEF next
  <2>4. MayDo(c, next, thread)
    BY <1>1, <2>2, <2>3 DEF MayDo, Compacts
  <2> QED BY <1>1, <2>3, <2>4, KeptThread
<1>3. CASE ~(Len(thread) > MaxMessages)
  BY <1>1, <1>3, ProceedKeeps DEF CompactRead
<1> QED BY <1>2, <1>3

LEMMA CompactRemoveKeeps ==
    ASSUME TypeOK, ConversationInv, NEW c \in Chats, CompactRemove(c)
    PROVE  TypeOK' /\ ConversationInv'
<1> DEFINE next == [pc |-> "add", stream |-> chat[c].stream]
<1>1. /\ chat[c].pc = "remove" /\ chat[c] # Idle
      /\ thread' = Without(thread, chat[c].old) /\ Step(c, next)
  BY DEF CompactRemove, Idle
<1>2. next \in Activity /\ next.pc = "add"
  BY <1>1, Fields DEF Activity, Compacting
<1> HIDE DEF next
<1>3. MayDo(c, next, thread')
  BY <1>1, <1>2 DEF MayDo, Compacts
<1>4. thread' \in Seq(Message) /\ Distinct(thread')
  BY <1>1, WithoutLeaves DEF TypeOK, ConversationInv, Left
<1>5. \A d \in Chats \ {c} : chat[d].pc # "remove"
  BY <1>1 DEF ConversationInv, Exclusive, Compacts
<1> QED BY <1>1, <1>3, <1>4, <1>5, StepKeeps

LEMMA CompactAddKeeps ==
    ASSUME TypeOK, ConversationInv, NEW c \in Chats, CompactAdd(c)
    PROVE  TypeOK' /\ ConversationInv'
<1> DEFINE next == [pc |-> "invoke", stream |-> chat[c].stream]
<1>1. /\ chat[c] # Idle /\ Unused # {} /\ Step(c, next)
      /\ thread' = Append(thread, New("summary"))
  BY DEF CompactAdd, Proceed, Idle
<1>2. next \in Activity /\ next.pc = "invoke"
  BY <1>1, Fields DEF Activity, Waiting
<1> HIDE DEF next
<1>3. MayDo(c, next, thread')
  BY <1>2 DEF MayDo
<1>4. IdsOf(thread) \subseteq Held /\ "summary" \in Kinds
  BY DEF Held, Kinds
<1>5. /\ thread' \in Seq(Message) /\ Distinct(thread')
      /\ \A d \in Chats : chat[d].pc = "remove" => Spares(chat[d].old, thread')
  BY <1>1, <1>4, Written DEF TypeOK, ConversationInv
<1> QED BY <1>1, <1>3, <1>5, StepKeeps

LEMMA CompactFailsKeeps ==
    ASSUME TypeOK, ConversationInv, NEW c \in Chats, CompactFails(c)
    PROVE  TypeOK' /\ ConversationInv'
<1>1. chat[c] # Idle /\ Proceed(c) /\ thread' = thread
  BY DEF CompactFails, Idle
<1> QED BY <1>1, ProceedKeeps

\* The run's copy is in its hands.
LEMMA CopyHeld ==
    ASSUME TypeOK, ConversationInv, NEW c \in Chats, IsRunning(c)
    PROVE  /\ chat[c].copy \in Seq(Message) /\ Distinct(chat[c].copy)
           /\ IdsOf(chat[c].copy) \subseteq Held
<1>1. IdsOf(chat[c].copy) \subseteq Held
  BY DEF Held, IsRunning
<1> QED BY <1>1, Fields DEF ConversationInv, Good

\* A run writes a history that it has added a message to, and ends or keeps it.
LEMMA WriteKeeps ==
    ASSUME TypeOK, ConversationInv, NEW c \in Chats, Unused # {},
           NEW h \in Seq(Message), Distinct(h), IdsOf(h) \subseteq Held,
           NEW kind \in Kinds, thread' = Append(h, New(kind)),
           NEW next \in Activity, Step(c, next),
           next = Idle \/ (next.pc \in {"agent", "tools"} /\ next.copy = thread')
    PROVE  TypeOK' /\ ConversationInv'
<1>1. /\ thread' \in Seq(Message) /\ Distinct(thread')
      /\ \A d \in Chats : chat[d].pc = "remove" => Spares(chat[d].old, thread')
  BY Written
<1>2. MayDo(c, next, thread')
  <2>1. Idle.pc = "idle"
    BY DEF Idle
  <2>2. next.pc = "idle" \/ (next.pc \in {"agent", "tools"} /\ Distinct(next.copy))
    BY <1>1, <2>1
  <2> QED BY <2>2 DEF MayDo
<1> QED BY <1>1, <1>2, StepKeeps

LEMMA InvokeKeeps ==
    ASSUME TypeOK, ConversationInv, NEW c \in Chats, Invoke(c)
    PROVE  TypeOK' /\ ConversationInv'
<1> DEFINE h == Append(thread, New("user"))
           next == [pc |-> "agent", stream |-> chat[c].stream, copy |-> h, calls |-> 0]
<1>1. chat[c] # Idle /\ Unused # {} /\ thread' = h /\ Step(c, next)
  BY DEF Invoke, Idle
<1>2. /\ thread \in Seq(Message) /\ Distinct(thread) /\ IdsOf(thread) \subseteq Held
      /\ "user" \in Kinds
  BY DEF TypeOK, ConversationInv, Held, Kinds
<1>3. h \in Seq(Message)
  BY <1>1, <1>2, Written
<1>4. next \in Activity /\ next.pc = "agent" /\ next.copy = thread'
  BY <1>1, <1>3, Fields, ConversationAssumption DEF Activity, Running
<1> HIDE DEF next
<1> QED BY <1>1, <1>2, <1>4, WriteKeeps

LEMMA AgentKeeps ==
    ASSUME TypeOK, ConversationInv, NEW c \in Chats, Agent(c)
    PROVE  TypeOK' /\ ConversationInv'
<1> DEFINE copy == chat[c].copy
<1>1. chat[c].pc = "agent" /\ IsRunning(c) /\ Unused # {}
  BY DEF Agent, IsRunning
<1>2. copy \in Seq(Message) /\ Distinct(copy) /\ IdsOf(copy) \subseteq Held
  BY <1>1, CopyHeld
<1>3. CASE thread' = Append(copy, New("reply")) /\ Step(c, Idle)
  <2>1. "reply" \in Kinds /\ Idle \in Activity
    BY DEF Kinds, Activity
  <2> QED BY <1>1, <1>2, <1>3, <2>1, WriteKeeps
<1>4. CASE ~(thread' = Append(copy, New("reply")) /\ Step(c, Idle))
  <2> DEFINE h == Append(copy, New("call"))
             next == [chat[c] EXCEPT !.pc = "tools", !.copy = h, !.calls = @ + 1]
  <2>1. chat[c].calls < MaxCalls /\ thread' = h /\ Step(c, next)
    BY <1>4 DEF Agent
  <2>2. "call" \in Kinds
    BY DEF Kinds
  <2>3. h \in Seq(Message)
    BY <1>1, <1>2, <2>2, Written
  <2>4. /\ chat[c] \in Running /\ chat[c].calls + 1 \in 0..MaxCalls
    BY <1>1, <2>1, Fields, ConversationAssumption
  <2> HIDE DEF h
  <2>5. next \in Running /\ next.pc = "tools" /\ next.copy = h
    BY <2>3, <2>4 DEF Running
  <2> HIDE DEF next
  <2>6. next \in Activity /\ next.copy = thread'
    BY <2>1, <2>5 DEF Activity
  <2>7. thread' = Append(copy, New("call"))
    BY <2>1 DEF h
  <2> QED BY <1>1, <1>2, <2>1, <2>2, <2>5, <2>6, <2>7, WriteKeeps
<1> QED BY <1>3, <1>4

LEMMA ToolsKeeps ==
    ASSUME TypeOK, ConversationInv, NEW c \in Chats, Tools(c)
    PROVE  TypeOK' /\ ConversationInv'
<1> DEFINE copy == chat[c].copy
           h == Append(copy, New("result"))
           next == [chat[c] EXCEPT !.pc = "agent", !.copy = h]
<1>1. IsRunning(c) /\ Unused # {} /\ thread' = h /\ Step(c, next)
  BY DEF Tools, IsRunning
<1>2. copy \in Seq(Message) /\ Distinct(copy) /\ IdsOf(copy) \subseteq Held
  BY <1>1, CopyHeld
<1>3. "result" \in Kinds
  BY DEF Kinds
<1>4. h \in Seq(Message)
  BY <1>1, <1>2, <1>3, Written
<1>5. chat[c] \in Running /\ thread' = Append(copy, New("result"))
  BY <1>1, Fields
<1> HIDE DEF h
<1>6. next \in Running /\ next.pc = "agent" /\ next.copy = h
  BY <1>4, <1>5 DEF Running
<1> HIDE DEF next
<1>7. next \in Activity /\ next.copy = thread'
  BY <1>1, <1>6 DEF Activity
<1> QED BY <1>1, <1>2, <1>3, <1>5, <1>6, <1>7, WriteKeeps

LEMMA RefuseKeeps ==
    ASSUME TypeOK, ConversationInv, NEW c \in Chats, Refuse(c)
    PROVE  TypeOK' /\ ConversationInv'
<1>1. CASE Raise(c)
  BY <1>1, RaiseKeeps DEF Refuse
<1>2. CASE ~Raise(c)
  <2> DEFINE next == [pc |-> "refused", stream |-> FALSE]
  <2>1. Step(c, next) /\ thread' = thread
    BY <1>2 DEF Refuse
  <2>2. next \in Activity /\ next.pc = "refused"
    BY DEF Activity, Waiting
  <2> HIDE DEF next
  <2>3. MayDo(c, next, thread)
    BY <2>2 DEF MayDo
  <2> QED BY <2>1, <2>3, KeptThread
<1> QED BY <1>1, <1>2

LEMMA CrashKeeps ==
    ASSUME TypeOK, ConversationInv, Crash
    PROVE  TypeOK' /\ ConversationInv'
<1>1. chat' = [c \in Chats |-> Idle] /\ thread' = thread
  BY DEF Crash
<1>2. \A c \in Chats : chat'[c].pc = "idle"
  BY <1>1 DEF Idle
<1>3. TypeOK'
  BY <1>1 DEF TypeOK
<1>4. ConversationInv'
  BY <1>1, <1>2 DEF ConversationInv, Exclusive, Compacts, Good, IsRunning
<1> QED BY <1>3, <1>4

LEMMA NextKeeps ==
    ASSUME TypeOK, ConversationInv, [Next]_vars
    PROVE  TypeOK' /\ ConversationInv'
<1>1. ASSUME NEW c \in Chats, Proceeds(c) PROVE TypeOK' /\ ConversationInv'
  <2>1. CASE GraphFails(c) BY <2>1, RaiseKeeps DEF GraphFails
  <2>2. CASE Reset(c) BY <2>2, GoesIdle DEF Reset
  <2> QED BY <1>1, <2>1, <2>2, CompactReadKeeps, CompactRemoveKeeps, CompactAddKeeps,
             CompactFailsKeeps, InvokeKeeps, AgentKeeps, ToolsKeeps, RefuseKeeps DEF Proceeds
<1>2. ASSUME NEW c \in Chats, Disconnect(c) PROVE TypeOK' /\ ConversationInv'
  BY <1>2, GoesIdle DEF Disconnect
<1>3. CASE UNCHANGED vars
  <2>1. thread' = thread /\ chat' = chat
    BY <1>3 DEF vars
  <2>2. TypeOK'
    BY <2>1 DEF TypeOK
  <2>3. ConversationInv'
    BY <2>1 DEF ConversationInv, Exclusive, Compacts, Good, IsRunning
  <2> QED BY <2>2, <2>3
<1> QED BY <1>1, <1>2, <1>3, StartKeeps, CrashKeeps DEF Next

LEMMA Initially == Init => TypeOK /\ ConversationInv
<1> SUFFICES ASSUME Init PROVE TypeOK /\ ConversationInv
  OBVIOUS
<1>1. thread = <<>> /\ thread \in Seq(Message) /\ 1..Len(thread) = {}
  BY DEF Init
<1>2. \A c \in Chats : chat[c].pc = "idle"
  BY DEF Init, Idle
<1>3. TypeOK
  BY <1>1 DEF Init, TypeOK
<1>4. ConversationInv
  BY <1>1, <1>2 DEF ConversationInv, Distinct, Exclusive, Compacts, Good, IsRunning
<1> QED BY <1>3, <1>4

LEMMA ConversationInvariant == Spec => [](TypeOK /\ ConversationInv)
<1>1. TypeOK /\ ConversationInv /\ [Next]_vars => TypeOK' /\ ConversationInv'
  BY NextKeeps
<1> QED BY <1>1, Initially, PTL DEF Spec

\* The thread and the chats keep their shapes, whatever interleaves and fails:
\* each place of a chat has what it needs, and a run is within its limit of calls.
THEOREM ConversationTypeCorrect == Spec => []TypeOK
BY ConversationInvariant, PTL

\* Whatever other chats write between the reading of the thread and the removal
\* of what was old in it, the thread's latest message stays.
THEOREM LatestAlwaysKept == Spec => []LatestKept
<1>1. TypeOK /\ ConversationInv => LatestKept
  <2> SUFFICES ASSUME TypeOK, ConversationInv, NEW c \in Chats, chat[c].pc = "remove",
                      chat[c].old \subseteq IdsOf(thread)
               PROVE  thread # <<>> /\ thread[Len(thread)].id \notin chat[c].old
    BY DEF LatestKept
  <2>1. Spares(chat[c].old, thread)
    BY DEF ConversationInv, Good
  <2>2. thread # <<>>
    <3> SUFFICES ASSUME thread = <<>> PROVE FALSE
      OBVIOUS
    <3>1. IdsOf(thread) = {}
      BY DEF IdsOf
    <3> QED BY <2>1, <3>1 DEF Spares
  <2> QED BY <2>1, <2>2 DEF Spares
<1> QED BY <1>1, ConversationInvariant, PTL

(***************************************************************************)
(* How long a chat goes on.                                                *)

\* Steps that a run has before it: for each call of a tool that is left the
\* agent's and the tool's, and its reply.
RunLeft(calls) == 2 * (MaxCalls - calls)

\* A bound on the steps that a chat at a has before it.  A stream that fails
\* goes through all of a plain chat's.
StepsLeft(a) ==
    IF a = Idle THEN 0
    ELSE (IF a.stream THEN RunLeft(0) + 7 ELSE 0) +
         CASE a.pc = "refused" -> 1
           [] a.pc = "agent"   -> RunLeft(a.calls) + 2
           [] a.pc = "tools"   -> RunLeft(a.calls) + 3
           [] a.pc = "invoke"  -> RunLeft(0) + 3
           [] a.pc = "add"     -> RunLeft(0) + 4
           [] a.pc = "remove"  -> RunLeft(0) + 5
           [] a.pc = "read"    -> RunLeft(0) + 6

LEMMA StepsLeftOf ==
    ASSUME NEW a \in Activity, a # Idle
    PROVE  LET again == IF a.stream THEN RunLeft(0) + 7 ELSE 0 IN
        /\ a.stream \in BOOLEAN
        /\ a.pc = "refused" => StepsLeft(a) = again + 1
        /\ a.pc = "agent"   => a.calls \in 0..MaxCalls /\ StepsLeft(a) = again + RunLeft(a.calls) + 2
        /\ a.pc = "tools"   => a.calls \in 0..MaxCalls /\ StepsLeft(a) = again + RunLeft(a.calls) + 3
        /\ a.pc = "invoke"  => StepsLeft(a) = again + RunLeft(0) + 3
        /\ a.pc = "add"     => StepsLeft(a) = again + RunLeft(0) + 4
        /\ a.pc = "remove"  => StepsLeft(a) = again + RunLeft(0) + 5
        /\ a.pc = "read"    => StepsLeft(a) = again + RunLeft(0) + 6
        /\ a.pc \in {"refused", "agent", "tools", "invoke", "add", "remove", "read"}
<1>1. RunLeft(0) \in Int /\ MaxCalls \in Nat /\ \A n \in 0..MaxCalls : RunLeft(n) \in Int
  BY ConversationAssumption DEF RunLeft
<1>2. a \in Compacting \cup Running \cup Waiting
  BY DEF Activity
<1> HIDE DEF RunLeft
<1> QED BY <1>1, <1>2 DEF StepsLeft, Compacting, Running, Waiting, Idle

\* Whatever a chat is doing, its steps are bounded.
LEMMA StepsBounded ==
    ASSUME NEW a \in Activity
    PROVE  StepsLeft(a) \in 0..(4 * MaxCalls + 13) /\ (StepsLeft(a) = 0 <=> a = Idle)
<1>1. CASE a = Idle
  BY <1>1, ConversationAssumption DEF StepsLeft
<1>2. CASE a # Idle
  BY <1>2, StepsLeftOf, ConversationAssumption DEF RunLeft
<1> QED BY <1>1, <1>2

Falls(c) == StepsLeft(chat'[c]) < StepsLeft(chat[c])

\* From one place to another of the same call, with one call more at most: the
\* place comes later, or a stream has become a plain chat.
LEMMA PlaceFalls ==
    ASSUME TypeOK, TypeOK', NEW c \in Chats, chat[c] # Idle,
           \/ chat'[c] = Idle
           \/ chat'[c].pc = "invoke" /\ Compacts(c) /\ chat'[c].stream = chat[c].stream
           \/ /\ <<chat[c].pc, chat'[c].pc>> \in
                    {<<"read", "remove">>, <<"remove", "add">>, <<"agent", "refused">>}
              /\ chat'[c].stream = chat[c].stream
           \/ /\ chat[c].pc = "invoke" /\ chat'[c].pc = "agent" /\ chat'[c].calls = 0
              /\ chat'[c].stream = chat[c].stream
           \/ /\ chat[c].pc = "agent" /\ chat'[c].pc = "tools"
              /\ chat'[c].calls = chat[c].calls + 1
              /\ chat'[c].stream = chat[c].stream
           \/ /\ chat[c].pc = "tools" /\ chat'[c].pc = "agent"
              /\ chat'[c].calls = chat[c].calls
              /\ chat'[c].stream = chat[c].stream
           \/ /\ chat[c].pc \in {"invoke", "agent", "tools"} /\ chat[c].stream
              /\ chat'[c].pc \in {"invoke", "read"}
              /\ ~chat'[c].stream
    PROVE  Falls(c)
<1>1. chat[c] \in Activity /\ chat'[c] \in Activity
  BY DEF TypeOK, Activity
<1>2. CASE chat'[c] = Idle
  BY <1>1, <1>2, StepsBounded, ConversationAssumption DEF Falls
<1>3. CASE chat'[c] # Idle
  BY <1>1, <1>3, StepsLeftOf, ConversationAssumption DEF Falls, RunLeft, Compacts
<1> QED BY <1>2, <1>3

LEMMA RaiseFalls ==
    ASSUME TypeOK, TypeOK', NEW c \in Chats, Raise(c),
           chat[c].pc \in {"invoke", "agent", "tools"}
    PROVE  Falls(c)
<1>1. chat[c] # Idle
  BY DEF Idle
<1>2. CASE ~chat[c].stream
  BY <1>1, <1>2, PlaceFalls DEF Raise, Step, TypeOK
<1>3. CASE chat[c].stream
  <2>1. /\ chat'[c].pc = IF Locked THEN "invoke" ELSE "read"
        /\ ~chat'[c].stream
    BY <1>3 DEF Raise, Enter, Step, TypeOK
  <2> QED BY <1>1, <1>3, <2>1, PlaceFalls
<1> QED BY <1>2, <1>3

\* Every step of a chat's own brings it nearer to its end.
LEMMA ProceedsFalls ==
    ASSUME TypeOK, TypeOK', NEW c \in Chats, Proceeds(c)
    PROVE  Falls(c)
<1>1. chat[c] # Idle
  BY DEF Proceeds, Idle, CompactRead, CompactRemove, CompactAdd, CompactFails, Invoke, Agent,
         Tools, GraphFails, Refuse, Reset
<1>2. CASE Compacts(c) /\ Proceed(c)
  <2>1. chat'[c].pc = "invoke" /\ chat'[c].stream = chat[c].stream
    BY <1>2 DEF Proceed, Step, TypeOK
  <2> QED BY <1>1, <1>2, <2>1, PlaceFalls
<1>3. CASE CompactRead(c) /\ Len(thread) > MaxMessages
  <2>1. /\ chat[c].pc = "read" /\ chat'[c].pc = "remove" /\ chat'[c].stream = chat[c].stream
    BY <1>3 DEF CompactRead, Step, TypeOK
  <2> QED BY <1>1, <2>1, PlaceFalls
<1>4. CASE CompactRemove(c)
  <2>1. /\ chat[c].pc = "remove" /\ chat'[c].pc = "add" /\ chat'[c].stream = chat[c].stream
    BY <1>4 DEF CompactRemove, Step, TypeOK
  <2> QED BY <1>1, <2>1, PlaceFalls
<1>5. CASE Invoke(c)
  <2>1. /\ chat[c].pc = "invoke" /\ chat'[c].pc = "agent" /\ chat'[c].calls = 0
        /\ chat'[c].stream = chat[c].stream
    BY <1>5 DEF Invoke, Step, TypeOK
  <2> QED BY <1>1, <2>1, PlaceFalls
<1>6. CASE Agent(c)
  <2>1. chat[c] \in Running
    BY <1>6, Fields DEF Agent, IsRunning
  <2>2. CASE Step(c, Idle)
    BY <1>1, <2>2, PlaceFalls DEF Step, TypeOK
  <2>3. CASE \E h : Step(c, [chat[c] EXCEPT !.pc = "tools", !.copy = h, !.calls = @ + 1])
    <3>1. /\ chat'[c].pc = "tools" /\ chat'[c].calls = chat[c].calls + 1
          /\ chat'[c].stream = chat[c].stream
      BY <2>1, <2>3 DEF Step, TypeOK, Running
    <3> QED BY <1>1, <1>6, <3>1, PlaceFalls DEF Agent
  <2> QED BY <1>6, <2>2, <2>3 DEF Agent
<1>7. CASE Tools(c)
  <2>1. chat[c] \in Running
    BY <1>7, Fields DEF Tools, IsRunning
  <2>2. PICK h : Step(c, [chat[c] EXCEPT !.pc = "agent", !.copy = h])
    BY <1>7 DEF Tools
  <2>3. /\ chat'[c].pc = "agent" /\ chat'[c].calls = chat[c].calls
        /\ chat'[c].stream = chat[c].stream
    BY <2>1, <2>2 DEF Step, TypeOK, Running
  <2> QED BY <1>1, <1>7, <2>3, PlaceFalls DEF Tools
<1>8. CASE GraphFails(c)
  BY <1>8, RaiseFalls DEF GraphFails
<1>9. CASE Refuse(c)
  <2>1. chat[c].pc = "agent"
    BY <1>9 DEF Refuse
  <2>2. CASE Step(c, [pc |-> "refused", stream |-> FALSE]) /\ ~chat[c].stream
    <3>1. chat'[c].pc = "refused" /\ chat'[c].stream = FALSE
      BY <2>2 DEF Step, TypeOK
    <3>2. chat[c].stream = FALSE
      BY <1>1, <2>2, Fields
    <3> QED BY <1>1, <2>1, <3>1, <3>2, PlaceFalls
  <2> QED BY <1>9, <2>1, <2>2, RaiseFalls DEF Refuse
<1>10. CASE Reset(c)
  BY <1>1, <1>10, PlaceFalls DEF Reset, Step, TypeOK
<1>11. CompactRead(c) \/ CompactAdd(c) \/ CompactFails(c) => Compacts(c)
  BY DEF CompactRead, CompactAdd, CompactFails, Compacts
<1> QED
  BY <1>2, <1>3, <1>4, <1>5, <1>6, <1>7, <1>8, <1>9, <1>10, <1>11
     DEF Proceeds, CompactRead, CompactAdd, CompactFails

\* A step of a chat is no other's.
LEMMA OneSteps ==
    ASSUME TypeOK, NEW c \in Chats, NEW d \in Chats, Start(d) \/ Proceeds(d) \/ Disconnect(d),
           chat'[c] # chat[c]
    PROVE  d = c
<1>1. Enter(d, d \in Streams) \/ Proceed(d) \/ Raise(d) => \E next : Step(d, next)
  BY DEF Enter, Proceed, Raise
<1>2. CompactRead(d) => \E next : Step(d, next)
  BY <1>1 DEF CompactRead
<1>3. CompactRemove(d) \/ CompactAdd(d) \/ CompactFails(d) => \E next : Step(d, next)
  BY <1>1 DEF CompactRemove, CompactAdd, CompactFails
<1>4. Invoke(d) \/ Tools(d) \/ Reset(d) \/ Disconnect(d) => \E next : Step(d, next)
  BY DEF Invoke, Tools, Reset, Disconnect
<1>5. Agent(d) => \E next : Step(d, next)
  BY DEF Agent
<1>6. Start(d) \/ GraphFails(d) \/ Refuse(d) => \E next : Step(d, next)
  BY <1>1 DEF Start, GraphFails, Refuse
<1>7. PICK next : Step(d, next)
  BY <1>2, <1>3, <1>4, <1>5, <1>6 DEF Proceeds
<1> QED BY <1>7 DEF Step, TypeOK

\* A chat that is not at rest ends after a bounded number of its own steps,
\* whatever other chats do to the thread meanwhile and whatever fails: 13, and
\* four more for each call of a tool that a run may make.
THEOREM ChatsAreBounded ==
    Spec => /\ [](\A c \in Chats : /\ StepsLeft(chat[c]) \in 0..(4 * MaxCalls + 13)
                                   /\ StepsLeft(chat[c]) = 0 <=> chat[c] = Idle)
            /\ [][\A c \in Chats : Proceeds(c) \/ (chat[c] # Idle /\ chat'[c] # chat[c])
                                       => Falls(c)]_vars
<1> DEFINE Bounded == \A c \in Chats : /\ StepsLeft(chat[c]) \in 0..(4 * MaxCalls + 13)
                                       /\ StepsLeft(chat[c]) = 0 <=> chat[c] = Idle
           Falling == \A c \in Chats : Proceeds(c) \/ (chat[c] # Idle /\ chat'[c] # chat[c])
                                           => Falls(c)
<1>1. TypeOK => Bounded
  BY StepsBounded DEF TypeOK, Activity
<1>2. TypeOK /\ TypeOK' /\ [Next]_vars => [Falling]_vars
  <2> SUFFICES ASSUME TypeOK, TypeOK', Next, NEW c \in Chats,
                      Proceeds(c) \/ (chat[c] # Idle /\ chat'[c] # chat[c])
               PROVE  Falls(c)
    OBVIOUS
  <2>1. CASE Proceeds(c)
    BY <2>1, ProceedsFalls
  <2>2. CASE chat[c] # Idle /\ chat'[c] # chat[c]
    <3>1. CASE Crash
      BY <2>2, <3>1, PlaceFalls DEF Crash
    <3>2. ASSUME NEW d \in Chats, Start(d) \/ Proceeds(d) \/ Disconnect(d) PROVE Falls(c)
      <4>1. d = c
        BY <2>2, <3>2, OneSteps
      <4>2. CASE Disconnect(c)
        BY <2>2, <4>2, PlaceFalls DEF Disconnect, Step, TypeOK
      <4> QED BY <2>2, <3>2, <4>1, <4>2, ProceedsFalls DEF Start
    <3> QED BY <3>1, <3>2 DEF Next
  <2> QED BY <2>1, <2>2
<1>3. Spec => []TypeOK
  BY ConversationTypeCorrect
<1> QED BY <1>1, <1>2, <1>3, PTL DEF Spec

=============================================================================
