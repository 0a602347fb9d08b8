----------------------------- MODULE LinksProofs -----------------------------
(***************************************************************************)
(* Proofs about the channels that keep a connection or a task for what they *)
(* answer, each for every value of its constants: AIBotTasks, OneBotLink,   *)
(* WhatsAppLink and SocketServers.                                          *)
(***************************************************************************)
EXTENDS AIBotTasks, OneBotLink, WhatsAppLink, SocketServers, WellFoundedInduction,
  FiniteSetTheorems, TLAPS

(***************************************************************************)
(* The WeCom AI bot                                                        *)
(***************************************************************************)

\* Tasks are known by their messages, and a chat's queue holds its own.
KnownOK ==
  /\ \A i, k \in DOMAIN opened : opened[i] = opened[k] => i = k
  /\ streamTasks \subseteq Opened /\ streamClosed \subseteq Opened /\ finished \subseteq Opened
  /\ \A c \in Chats : \A t \in chatTasks[c] : t \in Opened /\ ChatOf[t] = c
  /\ \A t \in Tasks : poll[t] # "none" => t \in Opened
  /\ send.step # "idle" => send.task \in Opened

\* A task is in its queue as long as its stream can be polled, and no longer than that
\* unless the stream has been closed.
QueueOK ==
  /\ PollableIsQueued
  /\ \A t \in Tasks : Queued(t) /\ t \notin streamClosed => t \in streamTasks
  /\ streamTasks \cap streamClosed = {}

First(t) == \A u \in chatTasks[ChatOf[t]] \ {t} : Before(t, u)
Live(t) == answerCh[t] # NoReply /\ answerCh[t] \notin overtaken

\* A reply that no end of a stream has overtaken is in the hands of the oldest task of
\* its chat, whose stream is open.
LiveOK ==
  /\ \A t \in Tasks : Live(t) => t \in streamTasks /\ First(t)
  /\ send.step = "answering" /\ send.reply \notin overtaken =>
       send.task \in streamTasks /\ First(send.task)
  /\ send.step \in {"posting", "removing"} => send.task \in streamClosed

\* Such a reply is the latest of its chat, so that nothing overtakes it: a Send that
\* chose another task, or the response_url, found no reply waiting.
LatestOK ==
  /\ send.step \in {"answering", "posting"} =>
       \A u \in Tasks :
         u # send.task /\ ChatOf[u] = ChatOf[send.task] => ~Live(u)
  /\ send.step = "posting" => ~Live(send.task)
  /\ \A t, u \in Tasks :
       t # u /\ ChatOf[t] = ChatOf[u] /\ answerCh[t] # NoReply /\ Live(u) =>
         answerCh[t] < answerCh[u]

Underway == send.step \in {"answering", "posting"}

NumbersOK ==
  /\ \A t \in Tasks : answerCh[t] <= send.reply /\ (Underway => answerCh[t] < send.reply)
  /\ \A c \in Chats : \A i \in DOMAIN delivered[c] :
       delivered[c][i] <= send.reply /\ (Underway => delivered[c][i] < send.reply)
  /\ \A t \in Tasks : Live(t) =>
       \A i \in DOMAIN delivered[ChatOf[t]] : delivered[ChatOf[t]][i] < answerCh[t]

BotInv == BotTypeOK /\ KnownOK /\ QueueOK /\ LiveOK /\ LatestOK /\ NumbersOK /\ RepliesInOrder

LEMMA LeastOf ==
  ASSUME NEW T, T \subseteq Nat, T # {}
  PROVE  \E m \in T : \A k \in T : m <= k
<1> DEFINE R == OpToRel(<, Nat)
<1>1. IsWellFoundedOn(R, Nat)
  BY NatLessThanWellFounded
<1>2. \A a, b \in Nat : <<a, b>> \in R <=> a < b
  BY DEF OpToRel
<1> HIDE DEF R
<1>3. PICK m \in T : \A k \in T : ~(<<k, m>> \in R)
  BY <1>1, WFMin
<1>4. ASSUME NEW k \in T PROVE m <= k
  <2>1. m \in Nat /\ k \in Nat
    OBVIOUS
  <2>2. ~(k < m)
    BY <1>2, <1>3, <2>1, Zenon
  <2> QED
    BY <2>1, <2>2
<1> QED
  BY <1>4

LEMMA OneMore ==
  ASSUME NEW s \in Seq(Nat), NEW e \in Nat
  PROVE  /\ DOMAIN s = 1..Len(s) /\ DOMAIN Append(s, e) = 1..Len(s)+1 /\ Len(s) \in Nat
         /\ \A i \in 1..Len(s) : Append(s, e)[i] = s[i] /\ s[i] \in Nat
         /\ Append(s, e)[Len(s) + 1] = e
OBVIOUS

LEMMA ChatIsChat == ASSUME NEW t \in Tasks PROVE ChatOf[t] \in Chats
BY DEF Chats

\* Of two tasks one was opened first, and not the other as well.
LEMMA BeforeOnce ==
  ASSUME BotTypeOK, KnownOK, NEW t, NEW u, Before(t, u), Before(u, t)
  PROVE  FALSE
<1>1. PICK i, k \in DOMAIN opened : i < k /\ opened[i] = t /\ opened[k] = u
  BY DEF Before
<1>2. PICK m, n \in DOMAIN opened : m < n /\ opened[m] = u /\ opened[n] = t
  BY DEF Before
<1>3. i = n /\ k = m
  BY <1>1, <1>2 DEF KnownOK
<1>4. i \in Nat /\ k \in Nat
  BY DEF BotTypeOK
<1> QED
  BY <1>1, <1>2, <1>3, <1>4

LEMMA BeforeAnother ==
  ASSUME BotTypeOK, NEW t \in Opened, NEW u \in Opened, t # u
  PROVE  Before(t, u) \/ Before(u, t)
<1>1. PICK i \in DOMAIN opened : opened[i] = t
  BY DEF Opened
<1>2. PICK k \in DOMAIN opened : opened[k] = u
  BY DEF Opened
<1>3. i \in Nat /\ k \in Nat /\ i # k
  BY <1>1, <1>2 DEF BotTypeOK
<1> QED
  BY <1>1, <1>2, <1>3 DEF Before

\* A queue that is not empty has a task that was opened before all the others.
LEMMA OldestIs ==
  ASSUME BotTypeOK, KnownOK, NEW q \in SUBSET Opened, q # {}
  PROVE  Oldest(q) \in q /\ \A u \in q \ {Oldest(q)} : Before(Oldest(q), u)
<1> DEFINE places == {i \in DOMAIN opened : opened[i] \in q}
<1>1. places \subseteq Nat /\ places # {}
  <2>1. DOMAIN opened \subseteq Nat
    BY DEF BotTypeOK
  <2> QED
    BY <2>1 DEF Opened
<1>2. PICK i \in places : \A k \in places : i <= k
  <2> HIDE DEF places
  <2> QED
    BY <1>1, LeastOf
<1>3. ASSUME NEW u \in q \ {opened[i]} PROVE Before(opened[i], u)
  <2>1. PICK k \in DOMAIN opened : opened[k] = u
    BY DEF Opened
  <2>2. i \in Nat /\ k \in Nat /\ i <= k /\ i # k
    BY <1>1, <1>2, <2>1
  <2> QED
    BY <1>2, <2>1, <2>2 DEF Before
<1>4. opened[i] \in q
  BY <1>2
<1>5. \E t \in q : \A u \in q \ {t} : Before(t, u)
  BY <1>3, <1>4
<1> QED
  BY <1>5 DEF Oldest

\* No task in a queue is finished, so that Send has none to skip.
LEMMA CompactedIs ==
  ASSUME BotTypeOK, KnownOK, QueueOK, NEW c \in Chats
  PROVE  Compacted(c) = chatTasks[c]
<1>1. ASSUME NEW t \in chatTasks[c] PROVE t \notin finished
  <2>1. t \in Tasks /\ ChatOf[t] = c
    BY DEF BotTypeOK, KnownOK
  <2> QED
    BY <2>1 DEF QueueOK, PollableIsQueued, Queued
<1> QED
  BY <1>1 DEF Compacted

\* What is known of the queues, and of Send, when only requests and limits move.
LEMMA Quiet ==
  ASSUME BotInv, BotTypeOK',
         UNCHANGED <<streamTasks, chatTasks, answerCh, streamClosed, finished, opened,
                     delivered, overtaken>>,
         send' = send \/ (send'.step = "idle" /\ send'.reply \in {send.reply, send.reply + 1}),
         \A t \in Tasks : poll'[t] # "none" => t \in Opened
  PROVE  BotInv'
<1>1. /\ send.reply \in Nat /\ answerCh \in [Tasks -> Nat]
      /\ \A c \in Chats : delivered[c] \in Seq(Nat)
      /\ \A t \in Tasks : ChatOf[t] \in Chats
  BY ChatIsChat DEF BotInv, BotTypeOK
<1>2. Opened' = Opened /\ \A t \in Tasks : (Queued(t)' <=> Queued(t)) /\ (Live(t)' <=> Live(t))
  BY DEF Opened, Queued, Live
<1>3. \A t \in Tasks : First(t)' <=> First(t)
  BY DEF First, Before
<1>4. KnownOK'
  BY <1>2 DEF BotInv, KnownOK
<1>5. QueueOK'
  BY <1>2 DEF BotInv, QueueOK, PollableIsQueued
<1>6. LiveOK'
  <2>1. send'.step # "idle" => send.task \in Tasks
    BY DEF BotInv, BotTypeOK, KnownOK, Opened
  <2> QED
    BY <1>2, <1>3, <2>1 DEF BotInv, LiveOK
<1>7. LatestOK'
  <2>1. send'.step \in {"answering", "posting"} => send' = send
    OBVIOUS
  <2>2. send'.step \in {"answering", "posting"} =>
          \A u \in Tasks : u # send'.task /\ ChatOf[u] = ChatOf[send'.task] => ~Live(u)'
    BY <1>2, <2>1 DEF BotInv, LatestOK
  <2>3. send'.step = "posting" => ~Live(send.task)'
    BY <2>1 DEF BotInv, LatestOK, Live
  <2>4. \A t, u \in Tasks :
          t # u /\ ChatOf[t] = ChatOf[u] /\ answerCh'[t] # NoReply /\ Live(u)' =>
            answerCh'[t] < answerCh'[u]
    BY <1>2 DEF BotInv, LatestOK
  <2> QED
    BY <2>2, <2>3, <2>4 DEF LatestOK
<1>8. NumbersOK'
  <2>1. send'.reply \in Nat /\ send.reply <= send'.reply /\ (Underway' => Underway /\ send' = send)
    BY <1>1 DEF Underway
  <2>2. \A t \in Tasks : answerCh[t] <= send'.reply /\ (Underway' => answerCh[t] < send'.reply)
    BY <1>1, <2>1 DEF BotInv, NumbersOK
  <2>3. ASSUME NEW c \in Chats, NEW i \in DOMAIN delivered[c]
        PROVE  delivered[c][i] <= send'.reply /\ (Underway' => delivered[c][i] < send'.reply)
    <3>1. delivered[c][i] \in Nat
      BY <1>1
    <3> QED
      BY <1>1, <2>1, <3>1 DEF BotInv, NumbersOK
  <2>4. (\A t \in Tasks : Live(t) =>
           \A i \in DOMAIN delivered[ChatOf[t]] : delivered[ChatOf[t]][i] < answerCh[t])'
    BY <1>2 DEF BotInv, NumbersOK
  <2> QED
    BY <2>2, <2>3, <2>4 DEF NumbersOK
<1>9. RepliesInOrder'
  BY DEF BotInv, RepliesInOrder
<1> QED
  BY <1>4, <1>5, <1>6, <1>7, <1>8, <1>9 DEF BotInv

\* What is known of the replies when tasks leave the maps or have their stream closed.
LEMMA EndsKeep ==
  ASSUME BotInv, BotTypeOK', NEW gone \in SUBSET Tasks,
         Race(gone) \/ (overtaken' = overtaken /\ gone \cap streamTasks = {}),
         UNCHANGED <<answerCh, opened, delivered>>,
         send' = send \/ (send'.step = "idle" /\ send'.reply = send.reply),
         streamTasks' = streamTasks \ gone, streamClosed \subseteq streamClosed',
         \A c \in Chats : chatTasks'[c] \subseteq chatTasks[c]
  PROVE  LiveOK' /\ LatestOK' /\ NumbersOK' /\ RepliesInOrder'
<1>1. /\ send.reply \in Nat /\ send'.reply = send.reply /\ answerCh \in [Tasks -> Nat]
      /\ \A c \in Chats : delivered[c] \in Seq(Nat)
      /\ \A t \in Tasks : ChatOf[t] \in Chats
  BY ChatIsChat DEF BotInv, BotTypeOK
<1>2. /\ overtaken \subseteq overtaken'
      /\ \A t \in gone \cap streamTasks : answerCh[t] # NoReply => answerCh[t] \in overtaken'
      /\ send.task \in gone \cap streamTasks => send.reply \in overtaken'
  BY DEF Race
<1>3. \A t \in Tasks : Live(t)' => Live(t) /\ t \notin gone
  BY <1>2 DEF Live, BotInv, LiveOK
<1>4. \A t \in Tasks : First(t) => First(t)'
  BY <1>1 DEF First, Before
<1>5. LiveOK'
  <2>1. ASSUME NEW t \in Tasks, Live(t)' PROVE t \in streamTasks' /\ First(t)'
    BY <1>3, <1>4, <2>1 DEF BotInv, LiveOK
  <2>2. ASSUME send'.step = "answering", send'.reply \notin overtaken'
        PROVE  send'.task \in streamTasks' /\ First(send.task)' /\ send'.task = send.task
    <3>1. send' = send /\ send.task \in Tasks
      BY <2>2 DEF BotInv, BotTypeOK, KnownOK, Opened
    <3> QED
      BY <1>2, <1>4, <2>2, <3>1 DEF BotInv, LiveOK
  <2>3. send'.step \in {"posting", "removing"} => send'.task \in streamClosed'
    BY DEF BotInv, LiveOK
  <2> QED
    BY <2>1, <2>2, <2>3 DEF LiveOK
<1>6. LatestOK'
  BY <1>3 DEF BotInv, LatestOK, BotTypeOK, KnownOK, Opened
<1>7. NumbersOK'
  BY <1>1, <1>3 DEF BotInv, NumbersOK, Underway
<1>8. RepliesInOrder'
  BY <1>2 DEF BotInv, RepliesInOrder
<1> QED
  BY <1>5, <1>6, <1>7, <1>8

\* What stays of the tasks themselves when some leave the maps.
LEMMA FewerKnown ==
  ASSUME BotTypeOK, KnownOK, BotTypeOK', UNCHANGED opened,
         streamTasks' \subseteq streamTasks, streamClosed' \subseteq Opened,
         finished' \subseteq Opened,
         \A c \in Chats : chatTasks'[c] \subseteq chatTasks[c],
         send' = send \/ send'.step = "idle",
         \A t \in Tasks : poll'[t] # "none" => t \in Opened
  PROVE  KnownOK'
<1>1. Opened' = Opened
  BY DEF Opened
<1> QED
  BY <1>1 DEF KnownOK

\* The stream is closed and the task stays in the queue.
LEMMA CloseKeeps ==
  ASSUME BotInv, BotTypeOK', NEW t \in Tasks, PollClose(t) PROVE BotInv'
<1>1. LiveOK' /\ LatestOK' /\ NumbersOK' /\ RepliesInOrder'
  BY EndsKeep DEF PollClose
<1>2. t \in Opened /\ poll \in [Tasks -> {"none", "reading", "removing", "closing"}]
  BY DEF BotInv, BotTypeOK, KnownOK, PollClose
<1>3. KnownOK'
  BY <1>2, FewerKnown DEF BotInv, KnownOK, PollClose
<1>4. QueueOK'
  BY DEF BotInv, QueueOK, PollableIsQueued, Queued, PollClose
<1> QED
  BY <1>1, <1>3, <1>4 DEF BotInv

\* The task is finished, and in neither map.
LEMMA RemoveKeeps ==
  ASSUME BotInv, BotTypeOK', NEW t \in Tasks, t \in Opened, Remove(t),
         Race({t}) \/ (overtaken' = overtaken /\ t \notin streamTasks),
         UNCHANGED <<answerCh, opened, delivered, streamClosed>>,
         send' = send \/ (send'.step = "idle" /\ send'.reply = send.reply),
         \A u \in Tasks : poll'[u] # "none" => u \in Opened
  PROVE  BotInv'
<1>1. /\ chatTasks \in [Chats -> SUBSET Tasks] /\ ChatOf[t] \in Chats
      /\ \A u \in Tasks : ChatOf[u] \in Chats
  BY ChatIsChat DEF BotInv, BotTypeOK
<1>2. \A c \in Chats : chatTasks'[c] = IF c = ChatOf[t] THEN chatTasks[c] \ {t} ELSE chatTasks[c]
  BY <1>1 DEF Remove
<1>3. LiveOK' /\ LatestOK' /\ NumbersOK' /\ RepliesInOrder'
  BY <1>2, EndsKeep DEF Remove
<1>4. KnownOK'
  BY <1>2, FewerKnown DEF BotInv, KnownOK, Remove
<1>5. \A u \in Tasks : Queued(u)' <=> Queued(u) /\ u # t
  BY <1>1, <1>2 DEF Queued
<1>6. QueueOK'
  BY <1>5 DEF BotInv, QueueOK, PollableIsQueued, Remove
<1> QED
  BY <1>3, <1>4, <1>6 DEF BotInv

\* The tasks that are too old leave the maps; those whose stream is open leave both.
LEMMA CleanupKeeps == ASSUME BotInv, BotTypeOK', Cleanup PROVE BotInv'
<1> DEFINE old == {t \in Opened : Queued(t) /\ t \notin finished /\ Expired(t)}
           oldStreams == {t \in streamTasks : "lifetime" \in passed[t]}
<1>1. /\ streamTasks' = streamTasks \ oldStreams /\ Race(oldStreams)
      /\ UNCHANGED <<streamClosed, finished, answerCh, opened, poll, send, delivered>>
      /\ \A c \in Chats : chatTasks'[c] = chatTasks[c] \ (old \cup oldStreams \cup finished)
  BY DEF Cleanup
<1>2. /\ oldStreams \in SUBSET Tasks
      /\ \A t \in Tasks : ChatOf[t] \in Chats
  BY ChatIsChat DEF BotInv, BotTypeOK
<1>3. \A t \in old : t \in streamTasks => t \in oldStreams
  BY DEF Expired, BotInv, QueueOK
<1>4. \A t \in oldStreams : t \in streamTasks
  OBVIOUS
<1> HIDE DEF old, oldStreams
<1>5. LiveOK' /\ LatestOK' /\ NumbersOK' /\ RepliesInOrder'
  BY <1>1, <1>2, EndsKeep
<1>6. KnownOK'
  BY <1>1, FewerKnown DEF BotInv, KnownOK
<1>7. \A t \in Tasks : Queued(t)' <=> Queued(t) /\ t \notin old \cup oldStreams \cup finished
  BY <1>1, <1>2 DEF Queued
<1>8. QueueOK'
  BY <1>1, <1>3, <1>7 DEF BotInv, QueueOK, PollableIsQueued
<1> QED
  BY <1>5, <1>6, <1>8 DEF BotInv

\* A new task is the last of its queue, and has no reply.
LEMMA CallbackKeeps ==
  ASSUME BotInv, BotTypeOK', NEW t \in Tasks, Callback(t) PROVE BotInv'
<1> DEFINE n == Len(opened)
<1>1. /\ opened \in Seq(Tasks) /\ n \in Nat /\ DOMAIN opened = 1..n /\ DOMAIN opened' = 1..n+1
      /\ opened'[n + 1] = t /\ \A i \in 1..n : opened'[i] = opened[i]
  BY DEF BotInv, BotTypeOK, Callback
<1>2. /\ chatTasks \in [Chats -> SUBSET Tasks] /\ ChatOf[t] \in Chats
      /\ \A u \in Tasks : ChatOf[u] \in Chats
  BY ChatIsChat DEF BotInv, BotTypeOK
<1>3. \A c \in Chats : chatTasks'[c] = IF c = ChatOf[t] THEN chatTasks[c] \cup {t} ELSE chatTasks[c]
  BY <1>2 DEF Callback
<1> HIDE DEF n
<1>4. Opened' = Opened \cup {t}
  <2>1. \A i \in 1..n+1 : i \in 1..n \/ i = n + 1
    BY <1>1
  <2> QED
    BY <1>1, <2>1 DEF Opened
<1>5. \A u, v : Before(u, v) => Before(u, v)'
  BY <1>1 DEF Before
<1>6. ASSUME NEW u \in Opened PROVE Before(u, t)'
  <2>1. PICK i \in 1..n : opened[i] = u
    BY <1>1 DEF Opened
  <2>2. i \in 1..n+1 /\ n + 1 \in 1..n+1 /\ i < n + 1
    BY <1>1
  <2> QED
    BY <1>1, <2>1, <2>2 DEF Before
<1>7. t \notin Opened
  BY DEF Callback
<1>8. /\ t \notin streamTasks /\ t \notin streamClosed /\ t \notin finished /\ ~Live(t)
      /\ send.step # "idle" => send.task # t /\ send.task \in Tasks
  <2>1. t \notin streamTasks /\ t \notin streamClosed /\ t \notin finished
    BY <1>7 DEF BotInv, KnownOK
  <2>2. ~Live(t)
    BY <2>1 DEF BotInv, LiveOK
  <2>3. Opened \subseteq Tasks
    BY DEF BotInv, BotTypeOK, Opened
  <2> QED
    BY <1>7, <2>1, <2>2, <2>3 DEF BotInv, KnownOK
<1>9. \A u \in Tasks : Live(u)' <=> Live(u)
  BY DEF Live, Callback
<1>10. ASSUME NEW u \in Tasks, u \in Opened, First(u) PROVE First(u)'
  <2>1. ASSUME NEW v \in chatTasks'[ChatOf[u]] \ {u} PROVE Before(u, v)'
    BY <1>2, <1>3, <1>5, <1>6, <1>10, <2>1 DEF First
  <2> QED
    BY <2>1 DEF First
<1>11. KnownOK'
  <2>1. ASSUME NEW i \in DOMAIN opened', NEW k \in DOMAIN opened', opened'[i] = opened'[k]
        PROVE  i = k
    <3>1. \A j \in 1..n : opened[j] # t
      BY <1>1, <1>7 DEF Opened
    <3>2. (i \in 1..n \/ i = n + 1) /\ (k \in 1..n \/ k = n + 1)
      BY <1>1
    <3> QED
      BY <1>1, <2>1, <3>1, <3>2 DEF BotInv, KnownOK
  <2>2. ASSUME NEW c \in Chats, NEW u \in chatTasks'[c] PROVE u \in Opened' /\ ChatOf[u] = c
    <3>1. u \in chatTasks[c] \/ (u = t /\ c = ChatOf[t])
      BY <1>3, <2>2
    <3> QED
      BY <1>4, <3>1 DEF BotInv, KnownOK
  <2>3. \A u \in Tasks : poll'[u] # "none" => u \in Opened'
    BY <1>4 DEF BotInv, BotTypeOK, KnownOK, Callback
  <2> QED
    BY <1>4, <2>1, <2>2, <2>3 DEF BotInv, KnownOK, Callback
<1>12. QueueOK'
  <2>1. \A u \in Tasks : Queued(u)' <=> Queued(u) \/ u = t
    BY <1>2, <1>3 DEF Queued
  <2> QED
    BY <1>8, <2>1 DEF BotInv, QueueOK, PollableIsQueued, Callback
<1>13. LiveOK'
  <2>1. ASSUME NEW u \in Tasks, Live(u)' PROVE u \in streamTasks' /\ First(u)'
    BY <1>9, <1>10, <2>1 DEF BotInv, KnownOK, LiveOK, Callback
  <2>2. ASSUME send.step = "answering", send.reply \notin overtaken
        PROVE  send.task \in streamTasks' /\ First(send.task)'
    BY <1>8, <1>10, <2>2 DEF BotInv, KnownOK, LiveOK, Callback
  <2> QED
    BY <2>1, <2>2 DEF BotInv, LiveOK, Callback
<1>14. LatestOK' /\ NumbersOK' /\ RepliesInOrder'
  <2>1. UNCHANGED <<answerCh, send, delivered, overtaken>>
    BY DEF Callback
  <2>2. LatestOK'
    BY <1>8, <1>9, <2>1 DEF BotInv, LatestOK
  <2>3. NumbersOK'
    BY <1>9, <2>1 DEF BotInv, NumbersOK, Underway
  <2>4. RepliesInOrder'
    BY <2>1 DEF BotInv, RepliesInOrder
  <2> QED
    BY <2>2, <2>3, <2>4
<1> QED
  BY <1>11, <1>12, <1>13, <1>14 DEF BotInv

\* The oldest answer of the chat reaches it.
LEMMA AnswerKeeps ==
  ASSUME BotInv, BotTypeOK', NEW t \in Tasks, PollAnswer(t) PROVE BotInv'
<1> DEFINE d == delivered[ChatOf[t]]
           a == answerCh[t]
<1>1. /\ delivered \in [Chats -> Seq(Nat)] /\ answerCh \in [Tasks -> Nat] /\ NoReply = 0
      /\ \A u \in Tasks : ChatOf[u] \in Chats
      /\ d \in Seq(Nat) /\ a \in Nat \ {0} /\ send.reply \in Nat
  BY ChatIsChat DEF BotInv, BotTypeOK, PollAnswer, NoReply
<1>2. \A u \in Tasks : answerCh'[u] = IF u = t THEN 0 ELSE answerCh[u]
  BY <1>1 DEF PollAnswer
<1>3. \A c \in Chats : delivered'[c] = IF c = ChatOf[t] THEN Append(d, a) ELSE delivered[c]
  BY <1>1 DEF PollAnswer, Deliver
<1>4. UNCHANGED <<streamTasks, chatTasks, streamClosed, finished, opened, send, overtaken>>
  BY DEF PollAnswer
<1>5. \A u \in Tasks : (Live(u)' => Live(u) /\ u # t) /\ (First(u)' <=> First(u))
  BY <1>1, <1>2, <1>4 DEF Live, First, Before
<1>6. /\ DOMAIN d = 1..Len(d) /\ DOMAIN Append(d, a) = 1..Len(d)+1 /\ Len(d) \in Nat
      /\ \A i \in 1..Len(d) : Append(d, a)[i] = d[i] /\ d[i] \in Nat
      /\ Append(d, a)[Len(d) + 1] = a
  <2>1. d \in Seq(Nat) /\ a \in Nat
    BY <1>1
  <2> HIDE DEF d, a
  <2> QED
    BY <2>1, OneMore
<1>7. \A i \in 1..Len(d)+1 : i \in 1..Len(d) \/ i = Len(d) + 1
  BY <1>1
<1>8. KnownOK' /\ QueueOK'
  <2>1. Opened' = Opened /\ \A u \in Tasks : Queued(u)' <=> Queued(u)
    BY <1>4 DEF Opened, Queued
  <2>2. \A u \in Tasks : poll'[u] # "none" => poll[u] # "none"
    BY DEF BotInv, BotTypeOK, PollAnswer
  <2> QED
    BY <1>4, <2>1, <2>2 DEF BotInv, KnownOK, QueueOK, PollableIsQueued
<1>9. LiveOK'
  <2>1. send.step # "idle" => send.task \in Tasks
    BY DEF BotInv, BotTypeOK, KnownOK, Opened
  <2> QED
    BY <1>4, <1>5, <2>1 DEF BotInv, LiveOK
<1>10. LatestOK'
  <2>1. send.step # "idle" => send.task \in Tasks
    BY DEF BotInv, BotTypeOK, KnownOK, Opened
  <2> QED
    BY <1>1, <1>2, <1>4, <1>5, <2>1 DEF BotInv, LatestOK
<1>11. a <= send.reply /\ (Underway => a < send.reply)
  BY DEF BotInv, NumbersOK
<1> HIDE DEF d, a
<1>12. NumbersOK'
  <2>1. ASSUME NEW u \in Tasks
        PROVE  answerCh'[u] <= send'.reply /\ (Underway' => answerCh'[u] < send'.reply)
    <3>1. answerCh[u] <= send.reply /\ (Underway => answerCh[u] < send.reply) /\ answerCh[u] \in Nat
      BY <1>1 DEF BotInv, NumbersOK
    <3>2. (Underway' <=> Underway) /\ send'.reply = send.reply
      BY <1>4 DEF Underway
    <3>3. answerCh'[u] \in Nat /\ answerCh'[u] <= answerCh[u]
      BY <1>1, <1>2, <3>1
    <3> QED
      BY <1>1, <3>1, <3>2, <3>3
  <2>2. ASSUME NEW c \in Chats, NEW i \in DOMAIN delivered'[c]
        PROVE  delivered'[c][i] <= send'.reply /\ (Underway' => delivered'[c][i] < send'.reply)
    <3>1. Underway' <=> Underway
      BY <1>4 DEF Underway
    <3>2. CASE c = ChatOf[t]
      <4>1. i \in DOMAIN d \/ i = Len(d) + 1
        BY <1>3, <1>6, <1>7, <3>2
      <4>2. \A k \in DOMAIN d : d[k] <= send.reply /\ (Underway => d[k] < send.reply)
        BY <1>1 DEF BotInv, NumbersOK, d
      <4> QED
        BY <1>3, <1>4, <1>6, <1>11, <3>1, <3>2, <4>1, <4>2
    <3>3. CASE c # ChatOf[t]
      BY <1>3, <1>4, <3>1, <3>3 DEF BotInv, NumbersOK
    <3> QED
      BY <3>2, <3>3
  <2>3. ASSUME NEW u \in Tasks, Live(u)', NEW i \in DOMAIN delivered'[ChatOf[u]]
        PROVE  delivered'[ChatOf[u]][i] < answerCh'[u]
    <3>1. Live(u) /\ u # t /\ answerCh'[u] = answerCh[u] /\ ChatOf[u] \in Chats
      BY <1>1, <1>2, <1>5, <2>3
    <3>2. CASE ChatOf[u] = ChatOf[t]
      <4>1. i \in DOMAIN d \/ i = Len(d) + 1
        BY <1>3, <1>6, <1>7, <2>3, <3>1, <3>2
      <4>2. \A k \in DOMAIN d : d[k] < answerCh[u]
        BY <3>1, <3>2 DEF BotInv, NumbersOK, d
      <4>3. a < answerCh[u]
        BY <1>1, <3>1, <3>2 DEF BotInv, LatestOK, a
      <4> QED
        BY <1>3, <1>6, <3>1, <3>2, <4>1, <4>2, <4>3
    <3>3. CASE ChatOf[u] # ChatOf[t]
      BY <1>3, <2>3, <3>1, <3>3 DEF BotInv, NumbersOK
    <3> QED
      BY <3>2, <3>3
  <2> QED
    BY <2>1, <2>2, <2>3 DEF NumbersOK
<1>13. RepliesInOrder'
  <2>1. ASSUME NEW c \in Chats, NEW i \in DOMAIN delivered'[c], NEW k \in DOMAIN delivered'[c],
               i < k
        PROVE  delivered'[c][i] < delivered'[c][k] \/ delivered'[c][k] \in overtaken'
    <3>1. CASE c = ChatOf[t]
      <4>1. i \in 1..Len(d)+1 /\ k \in 1..Len(d)+1 /\ delivered'[c] = Append(d, a)
        BY <1>3, <1>6, <3>1
      <4>2. i \in 1..Len(d)
        BY <1>1, <2>1, <4>1
      <4>3. CASE k \in 1..Len(d)
        BY <1>1, <1>4, <1>6, <2>1, <3>1, <4>1, <4>2, <4>3 DEF BotInv, RepliesInOrder, d
      <4>4. CASE k = Len(d) + 1
        <5>1. CASE a \in overtaken
          BY <1>4, <1>6, <4>1, <4>4, <5>1
        <5>2. CASE a \notin overtaken
          <6>1. Live(t)
            BY <1>1, <5>2 DEF Live, a
          <6>2. d[i] < a
            BY <1>6, <4>2, <6>1 DEF BotInv, NumbersOK, d, a
          <6> QED
            BY <1>6, <4>1, <4>2, <4>4, <6>2
        <5> QED
          BY <5>1, <5>2
      <4> QED
        BY <1>7, <4>1, <4>3, <4>4
    <3>2. CASE c # ChatOf[t]
      BY <1>3, <1>4, <2>1, <3>2 DEF BotInv, RepliesInOrder
    <3> QED
      BY <3>1, <3>2
  <2> QED
    BY <2>1 DEF RepliesInOrder
<1> QED
  BY <1>8, <1>9, <1>10, <1>12, <1>13 DEF BotInv

\* The reply is the latest of its chat, and so may go around the stream.
LEMMA PostKeeps == ASSUME BotInv, BotTypeOK', SendPost PROVE BotInv'
<1> DEFINE t == send.task
           r == send.reply
           d == delivered[ChatOf[t]]
<1>1. /\ t \in Tasks /\ t \in Opened /\ send.step = "posting" /\ r \in Nat
      /\ send'.step = "removing" /\ send'.task = t /\ send'.reply = r
  BY DEF BotInv, BotTypeOK, KnownOK, Opened, SendPost
<1>2. /\ delivered \in [Chats -> Seq(Nat)] /\ answerCh \in [Tasks -> Nat]
      /\ \A u \in Tasks : ChatOf[u] \in Chats
      /\ d \in Seq(Nat)
  BY <1>1, ChatIsChat DEF BotInv, BotTypeOK
<1>3. UNCHANGED <<streamTasks, chatTasks, streamClosed, finished, answerCh, opened, poll, overtaken>>
  BY DEF SendPost
<1>4. \/ delivered' = delivered
      \/ \A c \in Chats : delivered'[c] = IF c = ChatOf[t] THEN Append(d, r) ELSE delivered[c]
  BY <1>2 DEF SendPost, Deliver
<1>5. \A u \in Tasks : (Live(u)' <=> Live(u)) /\ (First(u)' <=> First(u))
  BY <1>3 DEF Live, First, Before
<1>6. /\ DOMAIN d = 1..Len(d) /\ DOMAIN Append(d, r) = 1..Len(d)+1 /\ Len(d) \in Nat
      /\ \A i \in 1..Len(d) : Append(d, r)[i] = d[i] /\ d[i] \in Nat
      /\ Append(d, r)[Len(d) + 1] = r
  <2>1. d \in Seq(Nat) /\ r \in Nat
    BY <1>1, <1>2
  <2> HIDE DEF d, r
  <2> QED
    BY <2>1, OneMore
<1>7. \A i \in 1..Len(d)+1 : i \in 1..Len(d) \/ i = Len(d) + 1
  BY <1>2
<1>8. \A u \in Tasks : ChatOf[u] = ChatOf[t] => ~Live(u)
  BY <1>1 DEF BotInv, LatestOK
<1>9. \A i \in 1..Len(d) : d[i] < r
  BY <1>1, <1>2, <1>6 DEF BotInv, NumbersOK, Underway
<1>10. KnownOK' /\ QueueOK'
  <2>1. Opened' = Opened /\ \A u \in Tasks : Queued(u)' <=> Queued(u)
    BY <1>3 DEF Opened, Queued
  <2> QED
    BY <1>1, <1>3, <2>1 DEF BotInv, KnownOK, QueueOK, PollableIsQueued
<1>11. LiveOK'
  BY <1>1, <1>3, <1>5 DEF BotInv, LiveOK
<1>12. LatestOK'
  BY <1>1, <1>3, <1>5 DEF BotInv, LatestOK
<1> HIDE DEF t, r, d
<1>13. NumbersOK'
  <2>1. \A u \in Tasks : answerCh'[u] <= send'.reply
    BY <1>1, <1>3 DEF BotInv, NumbersOK, r
  <2>2. ~Underway'
    BY <1>1 DEF Underway
  <2>3. ASSUME NEW c \in Chats, NEW i \in DOMAIN delivered'[c] PROVE delivered'[c][i] <= send'.reply
    <3>1. CASE c = ChatOf[t] /\ delivered' # delivered
      <4>1. delivered'[c] = Append(d, r) /\ i \in 1..Len(d)+1
        BY <1>4, <1>6, <3>1
      <4>2. CASE i \in 1..Len(d)
        BY <1>1, <1>6, <1>9, <4>1, <4>2
      <4>3. CASE i = Len(d) + 1
        BY <1>1, <1>6, <4>1, <4>3
      <4> QED
        BY <1>7, <4>1, <4>2, <4>3
    <3>2. CASE ~(c = ChatOf[t] /\ delivered' # delivered)
      <4>1. delivered'[c] = delivered[c]
        BY <1>4, <3>2
      <4> QED
        BY <1>1, <4>1 DEF BotInv, NumbersOK, r
    <3> QED
      BY <3>1, <3>2
  <2>4. ASSUME NEW u \in Tasks, Live(u)', NEW i \in DOMAIN delivered'[ChatOf[u]]
        PROVE  delivered'[ChatOf[u]][i] < answerCh'[u]
    <3>1. Live(u) /\ ChatOf[u] # ChatOf[t] /\ ChatOf[u] \in Chats
      BY <1>2, <1>5, <1>8, <2>4
    <3>2. delivered'[ChatOf[u]] = delivered[ChatOf[u]]
      BY <1>4, <3>1
    <3> QED
      BY <1>3, <2>4, <3>1, <3>2 DEF BotInv, NumbersOK
  <2> QED
    BY <2>1, <2>2, <2>3, <2>4 DEF NumbersOK
<1>14. RepliesInOrder'
  <2>1. ASSUME NEW c \in Chats, NEW i \in DOMAIN delivered'[c], NEW k \in DOMAIN delivered'[c],
               i < k
        PROVE  delivered'[c][i] < delivered'[c][k] \/ delivered'[c][k] \in overtaken'
    <3>1. CASE c = ChatOf[t] /\ delivered' # delivered
      <4>1. i \in 1..Len(d)+1 /\ k \in 1..Len(d)+1 /\ delivered'[c] = Append(d, r)
        BY <1>4, <1>6, <3>1
      <4>2. i \in 1..Len(d)
        BY <1>2, <2>1, <4>1
      <4>3. CASE k \in 1..Len(d)
        BY <1>1, <1>3, <1>6, <2>1, <3>1, <4>1, <4>2, <4>3 DEF BotInv, RepliesInOrder, d
      <4>4. CASE k = Len(d) + 1
        BY <1>6, <1>9, <4>1, <4>2, <4>4
      <4> QED
        BY <1>7, <4>1, <4>3, <4>4
    <3>2. CASE ~(c = ChatOf[t] /\ delivered' # delivered)
      <4>1. delivered'[c] = delivered[c]
        BY <1>4, <3>2
      <4> QED
        BY <1>3, <2>1, <4>1 DEF BotInv, RepliesInOrder
    <3> QED
      BY <3>1, <3>2
  <2> QED
    BY <2>1 DEF RepliesInOrder
<1> QED
  BY <1>10, <1>11, <1>12, <1>13, <1>14 DEF BotInv

\* The reply is in the channel of its task, and the worker is free.
LEMMA HandKeeps ==
  ASSUME BotInv, BotTypeOK', SendAnswer, NEW t, t = send.task, NEW r, r = send.reply
  PROVE  BotInv'
<1>1. t \in Tasks /\ send.step = "answering" /\ r \in Nat /\ send'.step = "idle" /\ send'.reply = r
  BY DEF BotInv, BotTypeOK, KnownOK, Opened, SendAnswer, SendOver
<1>2. /\ delivered \in [Chats -> Seq(Nat)] /\ answerCh \in [Tasks -> Nat]
      /\ \A u \in Tasks : ChatOf[u] \in Chats
  BY ChatIsChat DEF BotInv, BotTypeOK
<1>3. \A u \in Tasks : answerCh'[u] = IF u = t THEN r ELSE answerCh[u]
  BY <1>1, <1>2 DEF SendAnswer
<1>4. UNCHANGED <<streamTasks, chatTasks, streamClosed, finished, opened, poll, delivered, overtaken>>
  BY DEF SendAnswer, taskVars
<1>5. \A u \in Tasks : /\ u # t => (Live(u)' <=> Live(u))
                       /\ First(u)' <=> First(u)
                       /\ Live(t)' => r \notin overtaken
  BY <1>1, <1>3, <1>4 DEF Live, First, Before
<1>6. \A u \in Tasks : u # t /\ ChatOf[u] = ChatOf[t] => ~Live(u)
  BY <1>1 DEF BotInv, LatestOK
<1>7. \A u \in Tasks : answerCh[u] < r
  BY <1>1 DEF BotInv, NumbersOK, Underway
<1>8. \A c \in Chats : \A i \in DOMAIN delivered[c] : delivered[c][i] < r
  BY <1>1 DEF BotInv, NumbersOK, Underway
<1>9. KnownOK' /\ QueueOK'
  <2>1. Opened' = Opened /\ \A u \in Tasks : Queued(u)' <=> Queued(u)
    BY <1>4 DEF Opened, Queued
  <2> QED
    BY <1>1, <1>4, <2>1 DEF BotInv, KnownOK, QueueOK, PollableIsQueued
<1>10. LiveOK'
  BY <1>1, <1>4, <1>5 DEF BotInv, LiveOK
<1>11. LatestOK'
  <2>1. ASSUME NEW u \in Tasks, NEW v \in Tasks, u # v, ChatOf[u] = ChatOf[v],
               answerCh'[u] # NoReply, Live(v)'
        PROVE  answerCh'[u] < answerCh'[v]
    <3>1. CASE v = t
      BY <1>3, <1>7, <2>1, <3>1
    <3>2. CASE v # t
      <4>1. Live(v) /\ u # t
        BY <1>5, <1>6, <2>1, <3>2
      <4> QED
        BY <1>3, <2>1, <3>2, <4>1 DEF BotInv, LatestOK
    <3> QED
      BY <3>1, <3>2
  <2> QED
    BY <1>1, <2>1 DEF LatestOK
<1>12. NumbersOK'
  <2>1. \A u \in Tasks : answerCh'[u] <= send'.reply
    BY <1>1, <1>2, <1>3, <1>7
  <2>2. ~Underway'
    BY <1>1 DEF Underway
  <2>3. \A c \in Chats : \A i \in DOMAIN delivered'[c] : delivered'[c][i] <= send'.reply
    BY <1>1, <1>4 DEF BotInv, NumbersOK
  <2>4. ASSUME NEW u \in Tasks, Live(u)', NEW i \in DOMAIN delivered'[ChatOf[u]]
        PROVE  delivered'[ChatOf[u]][i] < answerCh'[u]
    <3>1. CASE u = t
      BY <1>2, <1>3, <1>4, <1>8, <2>4, <3>1
    <3>2. CASE u # t
      BY <1>3, <1>4, <1>5, <2>4, <3>2 DEF BotInv, NumbersOK
    <3> QED
      BY <3>1, <3>2
  <2> QED
    BY <2>1, <2>2, <2>3, <2>4 DEF NumbersOK
<1>13. RepliesInOrder'
  BY <1>4 DEF BotInv, RepliesInOrder
<1> QED
  BY <1>9, <1>10, <1>11, <1>12, <1>13 DEF BotInv

\* The oldest task of the chat gets the reply; if another had one waiting, it would have
\* been opened before it, and so would be the oldest itself.
LEMMA LookKeeps ==
  ASSUME BotInv, BotTypeOK', NEW c \in Chats, SendLook(c) PROVE BotInv'
<1>1. /\ UNCHANGED <<streamTasks, answerCh, streamClosed, finished, opened, poll, delivered, overtaken>>
      /\ send.step = "idle" /\ send.reply \in Nat
      /\ \A u \in Tasks : ChatOf[u] \in Chats
  BY ChatIsChat DEF BotInv, BotTypeOK, SendLook
<1>2. Compacted(c) = chatTasks[c]
  BY CompactedIs DEF BotInv
<1>3. chatTasks' = chatTasks
  BY <1>2 DEF BotInv, BotTypeOK, SendLook
<1>4. CASE SendNothing
  <2>1. send'.step = "idle" /\ send'.reply = send.reply + 1
    BY <1>1, <1>4 DEF BotInv, BotTypeOK, SendNothing
  <2> QED
    BY <1>1, <1>3, <2>1, Quiet DEF BotInv, KnownOK
<1>5. CASE ~SendNothing
  <2> DEFINE s == Oldest(chatTasks[c])
  <2>1. /\ chatTasks[c] # {}
        /\ send' = [step |-> IF s \in streamClosed THEN "posting" ELSE "answering",
                    reply |-> send.reply + 1, task |-> s]
    BY <1>2, <1>5 DEF SendLook
  <2>2. chatTasks[c] \in SUBSET Opened /\ chatTasks[c] \subseteq Tasks
    BY DEF BotInv, BotTypeOK, KnownOK
  <2>3. PICK t \in chatTasks[c] : t = s /\ \A u \in chatTasks[c] \ {t} : Before(t, u)
    BY <2>1, <2>2, OldestIs DEF BotInv
  <2> HIDE DEF s
  <2>4. /\ t \in Tasks /\ t \in Opened /\ ChatOf[t] = c /\ Queued(t) /\ First(t)
    BY <2>2, <2>3 DEF BotInv, KnownOK, Queued, First
  <2>5. /\ send'.task = t /\ send'.reply = send.reply + 1
        /\ send'.step = IF t \in streamClosed THEN "posting" ELSE "answering"
    BY <2>1, <2>3
  <2>6. ASSUME NEW u \in Tasks, Live(u), ChatOf[u] = c PROVE u = t /\ u \notin streamClosed
    <3>1. u \in streamTasks /\ First(u)
      BY <2>6 DEF BotInv, LiveOK
    <3>2. u \in chatTasks[c] /\ u \notin streamClosed
      BY <2>6, <3>1 DEF BotInv, QueueOK, PollableIsQueued, Queued
    <3>3. u # t => Before(u, t) /\ Before(t, u)
      BY <2>3, <2>4, <2>6, <3>1, <3>2 DEF First
    <3> QED
      BY <3>2, <3>3, BeforeOnce DEF BotInv
  <2>7. \A u \in Tasks : (Live(u)' <=> Live(u)) /\ (First(u)' <=> First(u)) /\ (Queued(u)' <=> Queued(u))
    BY <1>1, <1>3 DEF Live, First, Before, Queued
  <2>8. KnownOK'
    <3>1. Opened' = Opened
      BY <1>1 DEF Opened
    <3> QED
      BY <1>1, <1>3, <2>4, <2>5, <3>1 DEF BotInv, KnownOK
  <2>9. QueueOK'
    BY <1>1, <1>3, <2>7 DEF BotInv, QueueOK, PollableIsQueued
  <2>10. LiveOK'
    <3>1. t \notin streamClosed => t \in streamTasks
      BY <2>4 DEF BotInv, QueueOK
    <3>2. \A u \in Tasks : Live(u)' => u \in streamTasks' /\ First(u)'
      BY <1>1, <2>7 DEF BotInv, LiveOK
    <3>3. First(t)'
      BY <2>4, <2>7
    <3>4. First(send.task)'
      BY <2>5, <3>3 DEF First
    <3> QED
      BY <1>1, <2>5, <3>1, <3>2, <3>4 DEF LiveOK
  <2>11. LatestOK'
    <3>1. \A u \in Tasks : u # t /\ ChatOf[u] = ChatOf[t] => ~Live(u)'
      BY <2>4, <2>6, <2>7
    <3>2. t \in streamClosed => ~Live(t)
      BY <2>4, <2>6
    <3>3. t \in streamClosed => ~Live(send.task)'
      BY <1>1, <2>5, <3>2 DEF Live
    <3>4. \A u, v \in Tasks :
            u # v /\ ChatOf[u] = ChatOf[v] /\ answerCh'[u] # NoReply /\ Live(v)' =>
              answerCh'[u] < answerCh'[v]
      BY <1>1, <2>7 DEF BotInv, LatestOK
    <3> QED
      BY <2>5, <3>1, <3>3, <3>4 DEF LatestOK
  <2>12. NumbersOK'
    <3>1. ASSUME NEW u \in Tasks PROVE answerCh'[u] <= send'.reply /\ answerCh'[u] < send'.reply
      <4>1. answerCh[u] \in Nat /\ answerCh[u] <= send.reply
        BY DEF BotInv, BotTypeOK, NumbersOK
      <4> QED
        BY <1>1, <2>5, <4>1
    <3>2. ASSUME NEW d \in Chats, NEW i \in DOMAIN delivered'[d]
          PROVE  delivered'[d][i] <= send'.reply /\ delivered'[d][i] < send'.reply
      <4>1. delivered[d][i] \in Nat /\ delivered[d][i] <= send.reply
        BY <1>1, <3>2 DEF BotInv, BotTypeOK, NumbersOK
      <4> QED
        BY <1>1, <2>5, <4>1
    <3>3. ASSUME NEW u \in Tasks, Live(u)', NEW i \in DOMAIN delivered'[ChatOf[u]]
          PROVE  delivered'[ChatOf[u]][i] < answerCh'[u]
      BY <1>1, <2>7, <3>3 DEF BotInv, NumbersOK
    <3> QED
      BY <3>1, <3>2, <3>3 DEF NumbersOK
  <2>13. RepliesInOrder'
    BY <1>1 DEF BotInv, RepliesInOrder
  <2> QED
    BY <2>8, <2>9, <2>10, <2>11, <2>12, <2>13 DEF BotInv
<1> QED
  BY <1>4, <1>5

\* Every action leaves the bot's variables in their types.
LEMMA BotTypeStep == ASSUME BotTypeOK, KnownOK, QueueOK, [BotNext]_botVars PROVE BotTypeOK'
<1>1. /\ \A t \in Tasks : ChatOf[t] \in Chats
      /\ Opened \subseteq Tasks /\ NoReply \in Nat
      /\ send.step # "idle" => send.task \in Tasks
  BY ChatIsChat DEF BotTypeOK, KnownOK, Opened, NoReply
<1>2. ASSUME NEW ts \in SUBSET Tasks, Race(ts) PROVE overtaken' \subseteq Nat
  <2>1. \A t \in ts : answerCh[t] \in Nat
    BY DEF BotTypeOK
  <2>2. overtaken \subseteq Nat /\ send.reply \in Nat
    BY DEF BotTypeOK
  <2> QED
    BY <1>2, <2>1, <2>2 DEF Race
<1>3. ASSUME NEW t \in Tasks, Callback(t) PROVE BotTypeOK'
  BY <1>1, <1>3 DEF Callback, BotTypeOK
<1>4. ASSUME NEW t \in Tasks, PollFind(t) \/ PollEmpty(t) PROVE BotTypeOK'
  BY <1>4 DEF PollFind, PollEmpty, BotTypeOK, taskVars
<1>5. ASSUME NEW t \in Tasks, PollAnswer(t) PROVE BotTypeOK'
  BY <1>1, <1>5 DEF PollAnswer, Deliver, BotTypeOK
<1>6. ASSUME NEW t \in Tasks, PollClose(t) PROVE BotTypeOK'
  <2>1. overtaken' \subseteq Nat
    BY <1>2, <1>6 DEF PollClose
  <2> QED
    BY <1>6, <2>1 DEF PollClose, BotTypeOK
<1>7. ASSUME NEW t \in Tasks, PollRemove(t) PROVE BotTypeOK'
  <2>1. overtaken' \subseteq Nat
    BY <1>2, <1>7 DEF PollRemove
  <2> QED
    BY <1>7, <2>1 DEF PollRemove, Remove, BotTypeOK
<1>8. ASSUME NEW t \in Tasks, NEW limit \in {"deadline", "grace", "lifetime"}, Pass(t, limit)
      PROVE  BotTypeOK'
  BY <1>8 DEF Pass, BotTypeOK, taskVars
<1>9. ASSUME NEW c \in Chats, SendLook(c) PROVE BotTypeOK'
  <2>1. Compacted(c) = chatTasks[c]
    BY CompactedIs
  <2>2. chatTasks' = chatTasks
    BY <1>9, <2>1 DEF SendLook, BotTypeOK
  <2>3. chatTasks[c] # {} => Oldest(chatTasks[c]) \in Tasks
    <3>1. chatTasks[c] \in SUBSET Opened
      BY DEF KnownOK
    <3> QED
      BY <1>1, <3>1, OldestIs
  <2>4. send' \in [step : {"idle", "answering", "posting", "removing"}, reply : Nat,
                   task : Tasks \cup {NoTask}]
    <3>1. SendNothing => send' \in [step : {"idle", "answering", "posting", "removing"},
                                    reply : Nat, task : Tasks \cup {NoTask}]
      <4> DEFINE S == [step : {"idle", "answering", "posting", "removing"}, reply : Nat,
                       task : Tasks \cup {NoTask}]
      <4>1. send \in S /\ send.reply + 1 \in Nat
        BY DEF BotTypeOK
      <4>2. [send EXCEPT !.reply = send.reply + 1] \in S
        BY <4>1
      <4> QED
        BY <4>2 DEF SendNothing
    <3>2. ~SendNothing => /\ chatTasks[c] # {}
                          /\ \E step \in {"posting", "answering"} :
                               send' = [step |-> step, reply |-> send.reply + 1,
                                        task |-> Oldest(chatTasks[c])]
      BY <1>9, <2>1 DEF SendLook
    <3>3. send.reply + 1 \in Nat
      BY DEF BotTypeOK
    <3> QED
      BY <2>3, <3>1, <3>2, <3>3
  <2> QED
    BY <1>9, <2>2, <2>4 DEF SendLook, BotTypeOK
<1>10. CASE SendAnswer \/ SendDropped
  <2>1. /\ send.reply \in Nat /\ send.task \in Tasks
        /\ answerCh \in [Tasks -> Nat]
    BY <1>1, <1>10 DEF BotTypeOK, SendAnswer, SendDropped
  <2>2. answerCh' \in [Tasks -> Nat]
    BY <1>10, <2>1 DEF SendAnswer, SendDropped
  <2>3. send' \in [step : {"idle", "answering", "posting", "removing"}, reply : Nat,
                   task : Tasks \cup {NoTask}]
    BY <1>10, <2>1 DEF SendAnswer, SendDropped, SendOver
  <2> QED
    BY <1>10, <2>2, <2>3 DEF SendAnswer, SendDropped, BotTypeOK, taskVars
<1>11. CASE SendPost
  <2>1. delivered' \in [Chats -> Seq(Nat)]
    <3>1. /\ delivered \in [Chats -> Seq(Nat)] /\ ChatOf[send.task] \in Chats
          /\ send.reply \in Nat
      BY <1>1, <1>11 DEF SendPost, BotTypeOK
    <3>2. Append(delivered[ChatOf[send.task]], send.reply) \in Seq(Nat)
      BY <3>1
    <3> QED
      BY <1>11, <3>1, <3>2 DEF SendPost, Deliver
  <2> QED
    BY <1>1, <1>11, <2>1 DEF SendPost, BotTypeOK
<1>12. CASE SendRemove
  BY <1>1, <1>12 DEF SendRemove, Remove, SendOver, BotTypeOK
<1>13. CASE Cleanup
  <2>1. overtaken' \subseteq Nat
    <3> DEFINE gone == {t \in streamTasks : "lifetime" \in passed[t]}
    <3>1. gone \in SUBSET Tasks /\ Race(gone)
      BY <1>13 DEF Cleanup, BotTypeOK
    <3> QED
      BY <1>2, <3>1
  <2> QED
    BY <1>1, <1>13, <2>1 DEF Cleanup, BotTypeOK
<1>14. CASE StopBot
  BY <1>1, <1>14 DEF StopBot, BotTypeOK
<1>15. CASE UNCHANGED botVars
  BY <1>15 DEF botVars, taskVars, BotTypeOK
<1> QED
  BY <1>3, <1>4, <1>5, <1>6, <1>7, <1>8, <1>9, <1>10, <1>11, <1>12, <1>13, <1>14, <1>15
  DEF BotNext

LEMMA BotInvStep == ASSUME BotInv, [BotNext]_botVars PROVE BotInv'
<1>1. BotTypeOK'
  BY BotTypeStep DEF BotInv
<1>2. /\ \A t \in Tasks : poll[t] # "none" => t \in Opened
      /\ send.step # "idle" => send.task \in Tasks /\ send.task \in Opened
  BY DEF BotInv, BotTypeOK, KnownOK, Opened
<1>3. ASSUME NEW t \in Tasks, PollFind(t) \/ PollEmpty(t) PROVE BotInv'
  <2>1. t \in Opened
    BY <1>3 DEF PollFind, PollEmpty, BotInv, KnownOK
  <2>2. \A u \in Tasks : poll'[u] # "none" => u \in Opened
    BY <1>2, <1>3, <2>1 DEF PollFind, PollEmpty, BotInv, BotTypeOK
  <2> QED
    BY <1>1, <1>3, <2>2, Quiet DEF PollFind, PollEmpty, taskVars
<1>4. ASSUME NEW t \in Tasks, PollRemove(t) PROVE BotInv'
  <2>1. t \in Opened /\ \A u \in Tasks : poll'[u] # "none" => u \in Opened
    BY <1>2, <1>4 DEF PollRemove, BotInv, BotTypeOK
  <2> QED
    BY <1>1, <1>4, <2>1, RemoveKeeps DEF PollRemove
<1>5. ASSUME NEW t \in Tasks, NEW limit \in {"deadline", "grace", "lifetime"}, Pass(t, limit)
      PROVE  BotInv'
  BY <1>1, <1>2, <1>5, Quiet DEF Pass, taskVars
<1>6. CASE SendDropped
  BY <1>1, <1>2, <1>6, Quiet DEF SendDropped, SendOver, taskVars
<1>7. CASE SendRemove
  <2>1. /\ send.task \in Tasks /\ send.task \in Opened
        /\ send'.step = "idle" /\ send'.reply = send.reply /\ poll' = poll
    BY <1>2, <1>7 DEF SendRemove, SendOver
  <2>2. overtaken' = overtaken /\ send.task \notin streamTasks
    BY <1>7 DEF SendRemove, BotInv, LiveOK, QueueOK
  <2> QED
    BY <1>1, <1>2, <1>7, <2>1, <2>2, RemoveKeeps DEF SendRemove
<1>8. CASE StopBot
  BY <1>1, <1>2, <1>8, Quiet DEF StopBot
<1>9. CASE UNCHANGED botVars
  BY <1>1, <1>2, <1>9, Quiet DEF botVars, taskVars
<1> QED
  BY <1>1, <1>3, <1>4, <1>5, <1>6, <1>7, <1>8, <1>9, CallbackKeeps, AnswerKeeps, CloseKeeps,
     LookKeeps, HandKeeps, PostKeeps, CleanupKeeps DEF BotNext

LEMMA BotInvInit == ASSUME BotInit PROVE BotInv
<1>1. BotTypeOK
  BY DEF BotInit, BotTypeOK, Idle, NoReply
<1>2. Opened = {}
  BY DEF BotInit, Opened
<1>3. KnownOK /\ QueueOK
  BY <1>2, ChatIsChat DEF BotInit, KnownOK, QueueOK, PollableIsQueued, Queued, Idle
<1>4. LiveOK /\ LatestOK
  BY DEF BotInit, LiveOK, LatestOK, Live, Idle
<1>5. NumbersOK /\ RepliesInOrder
  BY ChatIsChat DEF BotInit, NumbersOK, RepliesInOrder, Live, Underway, Idle, NoReply
<1> QED
  BY <1>1, <1>3, <1>4, <1>5 DEF BotInv

LEMMA BotInvHolds == BotSpec => []BotInv
<1>1. BotInit => BotInv
  BY BotInvInit
<1>2. BotInv /\ [BotNext]_botVars => BotInv'
  BY BotInvStep
<1> QED
  BY <1>1, <1>2, PTL DEF BotSpec

\* The bot's tasks, queues, requests and replies are what the code can hold.
THEOREM BotTypeCorrect == BotSpec => []BotTypeOK
<1>1. BotInv => BotTypeOK
  BY DEF BotInv
<1> QED
  BY <1>1, BotInvHolds, PTL

\* A stream that WeCom can poll can be answered; a reply that nobody reads any more was on
\* its way when its stream ended; and replies reach their chat in the order in which they
\* were sent: for any number of tasks, chats and replies.
THEOREM BotSoundHolds == BotSpec => []BotSound
<1>1. BotInv => BotSound
  <2>1. BotInv => StrandedNeedsRace
    BY DEF BotInv, LiveOK, StrandedNeedsRace, Live
  <2> QED
    BY <2>1 DEF BotInv, QueueOK, BotSound, TasksAnswerable
<1> QED
  BY <1>1, BotInvHolds, PTL

(***************************************************************************)
(* The OneBot channel                                                      *)
(***************************************************************************)

\* How many new messages ago the place i of the ring was written.
Age(i) == IF i < ringIdx THEN ringIdx - i ELSE (ringIdx - i) + RingSize

\* The ring holds the last messages that were new, and the map knows them.
RingOK ==
  /\ NoMsg \notin dedup
  /\ \A i \in 0..RingSize-1 :
       ring[i] = IF Age(i) <= Len(fresh) THEN fresh[Len(fresh) + 1 - Age(i)] ELSE NoMsg
  /\ DedupIsWindow

\* Nobody dials over a connection.
DialOK ==
  /\ link = "dialing" => conn = Nil
  /\ obState = "new" => conn = Nil /\ link = "off"

ObInv == ObTypeOK /\ RingOK /\ DialOK /\ ConnIsHeard

LEMMA NextPlace ==
  ASSUME NEW R \in Nat \ {0}, NEW a \in 0..R-1
  PROVE  (a + 1) % R = IF a + 1 = R THEN 0 ELSE a + 1
<1>1. R % R = 0
  OBVIOUS
<1>2. ASSUME a + 1 # R PROVE (a + 1) % R = a + 1
  BY <1>2
<1> QED
  BY <1>1, <1>2

\* What a new message does to the ring, the map and the history.
LEMMA RememberStep ==
  ASSUME ObTypeOK, RingOK, NEW m \in Messages, m \notin dedup,
         dedup' = (dedup \ {ring[ringIdx]}) \cup {m},
         ring' = [ring EXCEPT ![ringIdx] = m],
         ringIdx' = (ringIdx + 1) % RingSize,
         fresh' = Append(fresh, m)
  PROVE  RingOK' /\ ringIdx' \in 0..RingSize-1
<1> DEFINE n == Len(fresh)
           R == RingSize
           old == ring[ringIdx]
<1>1. /\ R \in Nat \ {0} /\ n \in Nat /\ ringIdx \in 0..R-1 /\ m # NoMsg
      /\ ring \in [0..R-1 -> Messages \cup {NoMsg}] /\ fresh \in Seq(Messages)
  BY ObAssumption DEF ObAssumption, ObTypeOK
<1>2. ringIdx' = IF ringIdx + 1 = R THEN 0 ELSE ringIdx + 1
  BY <1>1, NextPlace
<1>a. DOMAIN fresh = 1..n /\ DOMAIN fresh' = 1..n+1
  BY <1>1
<1>3. /\ Len(fresh') = n + 1 /\ fresh'[n + 1] = m
      /\ \A i \in 1..n : fresh'[i] = fresh[i]
  BY <1>1
<1>4. /\ ring'[ringIdx] = m
      /\ \A i \in 0..R-1 : i # ringIdx => ring'[i] = ring[i]
  BY <1>1
<1>5. \A i \in 1..n : i > n - R => fresh[i] \in dedup /\ fresh[i] # m
  BY <1>1 DEF RingOK, DedupIsWindow, LastOf
<1>6. ASSUME NEW x \in dedup PROVE \E i \in 1..n : i > n - R /\ x = fresh[i]
  BY <1>1, <1>6 DEF RingOK, DedupIsWindow, LastOf
<1>7. \A i, j \in 1..n : i < j /\ j - i <= R => fresh[i] # fresh[j]
  BY <1>a DEF RingOK, DedupIsWindow
<1>8. old = IF R <= n THEN fresh[n + 1 - R] ELSE NoMsg
  BY <1>1 DEF RingOK, Age
<1>9. ASSUME NEW i \in 0..R-1
      PROVE  ring'[i] = IF Age(i)' <= Len(fresh')
                       THEN fresh'[Len(fresh') + 1 - Age(i)'] ELSE NoMsg
  <2>1. CASE i = ringIdx
    <3>1. Age(i)' = 1
      BY <1>1, <1>2, <2>1 DEF Age
    <3> QED
      BY <1>1, <1>3, <1>4, <2>1, <3>1
  <2>2. CASE i # ringIdx
    <3>1. Age(i)' = Age(i) + 1 /\ Age(i) \in 1..R
      <4>1. R \in Nat \ {0} /\ ringIdx \in 0..R-1
        BY <1>1
      <4>2. CASE ringIdx + 1 = R
        <5>1. ringIdx' = 0 /\ i < ringIdx
          BY <1>2, <2>2, <4>1, <4>2
        <5> QED
          BY <4>1, <4>2, <5>1 DEF Age
      <4>3. CASE ringIdx + 1 # R
        <5>1. ringIdx' = ringIdx + 1
          BY <1>2, <4>3
        <5> QED
          BY <2>2, <4>1, <5>1 DEF Age
      <4> QED
        BY <4>2, <4>3
    <3>2. ring[i] = IF Age(i) <= n THEN fresh[n + 1 - Age(i)] ELSE NoMsg
      BY DEF RingOK
    <3>3. Age(i) <= n => fresh'[n + 1 - Age(i)] = fresh[n + 1 - Age(i)]
      BY <1>1, <1>3, <3>1
    <3> QED
      BY <1>1, <1>4, <2>2, <3>1, <3>2, <3>3
  <2> QED
    BY <2>1, <2>2
<1>10. dedup' = {fresh'[i] : i \in LastOf(fresh', R)}
  <2>1. ASSUME NEW x \in dedup' PROVE \E i \in 1..n+1 : i > n + 1 - R /\ x = fresh'[i]
    <3>1. CASE x = m
      BY <1>1, <1>3, <3>1
    <3>2. CASE x # m
      <4>1. x \in dedup /\ x # old
        BY <2>1, <3>2
      <4>2. PICK i \in 1..n : i > n - R /\ x = fresh[i]
        BY <1>6, <4>1
      <4>3. i # n + 1 - R
        BY <1>1, <1>8, <4>1, <4>2
      <4> QED
        BY <1>1, <1>3, <4>2, <4>3
    <3> QED
      BY <3>1, <3>2
  <2>2. ASSUME NEW i \in 1..n+1, i > n + 1 - R PROVE fresh'[i] \in dedup'
    <3>1. CASE i = n + 1
      BY <1>3, <3>1
    <3>2. CASE i # n + 1
      <4>1. i \in 1..n /\ i > n - R
        BY <1>1, <2>2, <3>2
      <4>2. fresh[i] # old
        <5>1. CASE R <= n
          <6>1. n + 1 - R \in 1..n /\ i > n + 1 - R /\ i - (n + 1 - R) <= R
            BY <1>1, <2>2, <4>1, <5>1
          <6> QED
            BY <1>7, <1>8, <4>1, <5>1, <6>1
        <5>2. CASE ~(R <= n)
          BY <1>1, <1>5, <1>8, <4>1, <5>2 DEF RingOK
        <5> QED
          BY <5>1, <5>2
      <4> QED
        BY <1>3, <1>5, <4>1, <4>2
    <3> QED
      BY <3>1, <3>2
  <2>3. LastOf(fresh', R) = {i \in 1..n+1 : i > n + 1 - R}
    BY <1>1, <1>3, <1>a DEF LastOf
  <2> QED
    BY <2>1, <2>2, <2>3
<1>11. ASSUME NEW i \in 1..n+1, NEW j \in 1..n+1, i < j, j - i <= R PROVE fresh'[i] # fresh'[j]
  <2>1. CASE j = n + 1
    <3>1. i \in 1..n /\ i > n - R
      BY <1>1, <1>11, <2>1
    <3> QED
      BY <1>3, <1>5, <2>1, <3>1
  <2>2. CASE j # n + 1
    <3>1. i \in 1..n /\ j \in 1..n
      <4> HIDE DEF n
      <4> QED
        BY <1>1, <1>11, <2>2
    <3> QED
      BY <1>3, <1>7, <1>11, <3>1
  <2> QED
    BY <2>1, <2>2
<1>12. NoMsg \notin dedup'
  BY <1>1 DEF RingOK
<1>13. DedupIsWindow'
  <2>1. \A i, j \in DOMAIN fresh' : i < j /\ j - i <= R => fresh'[i] # fresh'[j]
    BY <1>a, <1>11
  <2>2. dedup' \ {NoMsg} = dedup'
    BY <1>12
  <2> QED
    BY <1>10, <2>1, <2>2 DEF DedupIsWindow
<1> QED
  <2>1. ringIdx' \in 0..R-1
    BY <1>1, <1>2
  <2>2. \A i \in 0..R-1 :
          ring'[i] = IF Age(i)' <= Len(fresh') THEN fresh'[Len(fresh') + 1 - Age(i)'] ELSE NoMsg
    BY <1>9
  <2> QED
    BY <1>12, <1>13, <2>1, <2>2 DEF RingOK

LEMMA RingStep == ASSUME ObTypeOK, RingOK, NEW k \in Conns, NEW m \in Messages, Receive(k, m)
                  PROVE  RingOK' /\ ObTypeOK'
<1>1. CASE m \in NoIds
  <2>1. UNCHANGED <<dedup, ring, ringIdx, fresh>>
    BY <1>1 DEF Receive, Remember
  <2>2. RingOK'
    BY <2>1 DEF RingOK, DedupIsWindow, Age
  <2>3. handled' \in 0..MaxEvents
    BY ObAssumption DEF ObAssumption, ObTypeOK, Receive
  <2> QED
    BY <2>1, <2>2, <2>3 DEF Receive, ObTypeOK, req_vars
<1>2. CASE m \notin NoIds
  <2>1. /\ m \notin dedup /\ dedup' = (dedup \ {ring[ringIdx]}) \cup {m}
        /\ ring' = [ring EXCEPT ![ringIdx] = m] /\ ringIdx' = (ringIdx + 1) % RingSize
        /\ fresh' = Append(fresh, m)
    BY <1>2 DEF Receive, Remember
  <2>2. RingOK' /\ ringIdx' \in 0..RingSize-1
    BY <2>1, RememberStep
  <2>3. handled' \in 0..MaxEvents
    BY ObAssumption DEF ObAssumption, ObTypeOK, Receive
  <2>4. ring' \in [0..RingSize-1 -> Messages \cup {NoMsg}] /\ fresh' \in Seq(Messages)
    BY <2>1 DEF ObTypeOK
  <2> QED
    BY <2>1, <2>2, <2>3, <2>4 DEF ObTypeOK, Receive, req_vars
<1> QED
  BY <1>1, <1>2

LEMMA ObStep == ObInv /\ [ObNext]_obVars => ObInv'
<1> SUFFICES ASSUME ObInv, [ObNext]_obVars PROVE ObInv'
  OBVIOUS
<1>a. MaxDials \in Nat /\ Nil \notin Conns
  BY ObAssumption DEF ObAssumption, Nil, Conns
<1>b. UNCHANGED ring_vars => RingOK'
  BY DEF ObInv, RingOK, DedupIsWindow, Age, ring_vars
<1> USE <1>a DEF ObInv, ObTypeOK, DialOK, ConnIsHeard, CtxDone, ring_vars, req_vars
<1>1. CASE Start
  BY <1>1, <1>b DEF Start
<1>2. CASE Stop
  BY <1>2, <1>b DEF Stop
<1>3. CASE DialSucceeds
  <2>1. dials' \in Conns /\ dials' \in 0..MaxDials
    BY <1>3 DEF DialSucceeds, Conns
  <2> QED
    BY <1>3, <1>b, <2>1 DEF DialSucceeds
<1>4. CASE DialFails
  BY <1>4, <1>b DEF DialFails, AfterAttempt
<1>5. CASE Fetched
  BY <1>5, <1>b DEF Fetched, AfterAttempt
<1>6. CASE ReconnectTick
  BY <1>6, <1>b DEF ReconnectTick
<1>7. CASE ReconnectEnds
  BY <1>7, <1>b DEF ReconnectEnds
<1>8. ASSUME NEW k \in Conns, Break(k) PROVE ObInv'
  BY <1>8, <1>b DEF Break
<1>9. ASSUME NEW k \in Conns, ListenStart(k) PROVE ObInv'
  BY <1>9, <1>b DEF ListenStart
<1>10. ASSUME NEW k \in Conns, ListenEnds(k) PROVE ObInv'
  BY <1>10, <1>b DEF ListenEnds
<1>11. ASSUME NEW k \in Conns, ListenFails(k) PROVE ObInv'
  BY <1>11, <1>b DEF ListenFails
<1>12. ASSUME NEW k \in Conns, NEW m \in Messages, Receive(k, m) PROVE ObInv'
  <2>1. RingOK' /\ ObTypeOK'
    BY <1>12, RingStep DEF ObInv
  <2> QED
    BY <1>12, <2>1 DEF Receive
<1>13. ASSUME NEW k \in Conns, NEW r \in Requests, Answer(k, r) PROVE ObInv'
  BY <1>13, <1>b DEF Answer
<1>14. ASSUME NEW r \in Requests, ReqLook(r) PROVE ObInv'
  BY <1>14, <1>b DEF ReqLook
<1>15. ASSUME NEW r \in Requests, ReqWrite(r) PROVE ObInv'
  BY <1>15, <1>b DEF ReqWrite
<1>16. ASSUME NEW r \in Requests, ReqEnd(r) PROVE ObInv'
  BY <1>16, <1>b DEF ReqEnd
<1>17. CASE UNCHANGED obVars
  BY <1>17, <1>b DEF obVars
<1> QED
  BY <1>1, <1>2, <1>3, <1>4, <1>5, <1>6, <1>7, <1>8, <1>9, <1>10, <1>11, <1>12, <1>13, <1>14,
     <1>15, <1>16, <1>17 DEF ObNext

LEMMA ObStart == ObInit => ObInv
<1> SUFFICES ASSUME ObInit PROVE ObInv
  OBVIOUS
<1>1. ObTypeOK
  BY ObAssumption DEF ObAssumption, ObInit, ObTypeOK, Conns, Nil
<1>2. RingOK
  <2>1. Len(fresh) = 0 /\ DOMAIN fresh = {} /\ dedup = {}
    BY DEF ObInit
  <2>2. \A i \in 0..RingSize-1 : ring[i] = NoMsg /\ ~(Age(i) <= 0)
    BY ObAssumption DEF ObAssumption, ObInit, Age
  <2>3. DedupIsWindow
    BY <2>1 DEF DedupIsWindow, LastOf
  <2> QED
    BY <2>1, <2>2, <2>3 DEF RingOK
<1>3. DialOK /\ ConnIsHeard
  BY DEF ObInit, DialOK, ConnIsHeard
<1> QED
  BY <1>1, <1>2, <1>3 DEF ObInv

\* The variables of the OneBot channel keep their types.
THEOREM ObTypeCorrect == ObSpec => []ObTypeOK
<1>1. ObInv => ObTypeOK
  BY DEF ObInv
<1> QED
  BY <1>1, ObStart, ObStep, PTL DEF ObSpec

\* For any size of the ring and number of dials: the ring recognises exactly the last
\* messages that were new, and a connection that is held has its listener.
THEOREM OneBotSoundHolds == ObSpec => []OneBotSound
<1>1. ObInv => OneBotSound
  BY DEF ObInv, OneBotSound, RingOK
<1> QED
  BY <1>1, ObStart, ObStep, PTL DEF ObSpec

(***************************************************************************)
(* The two ways to WhatsApp                                                *)
(***************************************************************************)

\* Before Start there is nothing.
FreshOK ==
  mode = "new" =>
    /\ up = "no" /\ halt = "no" /\ ~ended /\ ~client /\ ~online
    /\ listenLoop = "none" /\ badReads = 0 /\ recon = "none" /\ ~reconnecting
    /\ ~qr /\ finishing = 0 /\ wg = 0 /\ events = 0 /\ breaks = 0

\* The bridge has no goroutine that Stop waits for.  As long as its connection has not
\* broken by itself, it is closed only by Stop, and the listener that sees the end of the
\* context leaves after one failing read at most.
BridgeOK ==
  mode = "bridge" =>
    /\ up \in {"yes", "failed"} /\ halt \in {"no", "lock", "done"}
    /\ recon = "none" /\ ~qr /\ finishing = 0 /\ wg = 0 /\ events = 0
    /\ halt # "no" => ended
    /\ halt = "done" => ~online
    /\ breaks = 0 => /\ listenLoop # "panic"
                     /\ listenLoop # "none" /\ ~online => ended
                     /\ badReads > 0 => badReads = 1 /\ ended /\ listenLoop # "read"

\* The native client: a reconnection is marked as long as its goroutine goes on, Stop
\* comes when Start is over, and its flag keeps everybody else out of the wait group.
NativeOK ==
  mode = "native" =>
    /\ listenLoop = "none" /\ up # "no" /\ halt # "lock"
    /\ reconnecting <=> recon # "none"
    /\ stopping <=> halt # "no"
    /\ stopping => up \in {"yes", "failed"}
    /\ halt \notin {"no", "cancel"} => ended
    /\ up \in {"connect", "qr"} => ~qr
    /\ halt \in {"no", "cancel"} /\ up # "failed" => client /\ ~ended

\* What happens to a connection that is lost, and to one that is made while Stop runs.
LostOK ==
  mode = "native" =>
    /\ up \in {"qr", "running", "yes"} /\ ~stopping /\ ~online =>
         events > 0 \/ recon \in {"loop", "connect", "wait"} \/ missed
    /\ halt \in {"wait", "close", "closeLate", "done", "doneLate"} /\ ~raced =>
         ~online /\ recon # "connect"

BoundsOK ==
  /\ mode \in {"new", "bridge", "native"}
  /\ events <= breaks
  /\ badReads < MaxFailures \/ listenLoop = "panic"

WaInv == LinkTypeOK /\ BoundsOK /\ StopWaits /\ FreshOK /\ BridgeOK /\ NativeOK /\ LostOK

\* Zenon, because the flags are Boolean values.
LEMMA FlagsStep == FlagsOK /\ [WaNext]_waVars => FlagsOK'
<1> SUFFICES ASSUME FlagsOK, [WaNext]_waVars PROVE FlagsOK'
  OBVIOUS
<1> USE DEF FlagsOK, base, bridge, native
<1>1. ASSUME NEW dialling \in BOOLEAN, "bridge" \in Modes, BridgeStart(dialling) PROVE FlagsOK'
  BY <1>1, Zenon DEF BridgeStart
<1>2. ASSUME NEW opens \in BOOLEAN, "native" \in Modes, NativeStart(opens) PROVE FlagsOK'
  BY <1>2, Zenon DEF NativeStart
<1>3. ASSUME NEW paired \in BOOLEAN, NEW connects \in BOOLEAN, NativeConnect(paired, connects)
      PROVE  FlagsOK'
  BY <1>3, Zenon DEF NativeConnect
<1>4. CASE NativeQR
  BY <1>4, Zenon DEF NativeQR
<1>5. CASE NativeRunning
  BY <1>5, Zenon DEF NativeRunning
<1>6. CASE BridgeStop
  BY <1>6, Zenon DEF BridgeStop
<1>7. CASE StopFlag
  BY <1>7, Zenon DEF StopFlag
<1>8. CASE StopCancel
  BY <1>8, Zenon DEF StopCancel
<1>9. CASE StopDisconnect
  BY <1>9, Zenon DEF StopDisconnect
<1>10. CASE StopWait
  BY <1>10, Zenon DEF StopWait
<1>11. CASE StopClose
  BY <1>11, Zenon DEF StopClose
<1>12. CASE BridgeLoop
  BY <1>12, Zenon DEF BridgeLoop
<1>13. CASE BridgeRead
  BY <1>13, Zenon DEF BridgeRead
<1>14. CASE QRLeaves
  BY <1>14, Zenon DEF QRLeaves
<1>15. CASE OnDisconnected
  BY <1>15, Zenon DEF OnDisconnected
<1>16. CASE ReconnectLoop
  BY <1>16, Zenon DEF ReconnectLoop, ReconnectGoes
<1>17. CASE ReconnectWait
  BY <1>17, Zenon DEF ReconnectWait, ReconnectGoes
<1>18. CASE ReconnectUnmark
  BY <1>18, Zenon DEF ReconnectUnmark, ReconnectGoes
<1>19. CASE ReconnectDone
  BY <1>19, Zenon DEF ReconnectDone
<1>20. ASSUME NEW connects \in BOOLEAN, ReconnectTry(connects) PROVE FlagsOK'
  BY <1>20, Zenon DEF ReconnectTry, ReconnectGoes
<1>21. CASE LinkBreaks
  BY <1>21, Zenon DEF LinkBreaks
<1>22. CASE UNCHANGED waVars
  BY <1>22, Zenon DEF waVars
<1> QED
  BY <1>1, <1>2, <1>3, <1>4, <1>5, <1>6, <1>7, <1>8, <1>9, <1>10, <1>11, <1>12, <1>13, <1>14,
     <1>15, <1>16, <1>17, <1>18, <1>19, <1>20, <1>21, <1>22
     DEF WaNext, Begin, Starting, Stopping, Goroutines


LEMMA WaStep == WaInv /\ [WaNext]_waVars => WaInv'
<1> SUFFICES ASSUME WaInv, FlagsOK, FlagsOK', [WaNext]_waVars PROVE WaInv'
  BY FlagsStep DEF WaInv, LinkTypeOK
<1>a. /\ isRunning \in BOOLEAN /\ ended \in BOOLEAN /\ client \in BOOLEAN /\ online \in BOOLEAN
      /\ stopping \in BOOLEAN /\ reconnecting \in BOOLEAN /\ qr \in BOOLEAN
      /\ missed \in BOOLEAN /\ raced \in BOOLEAN
  BY DEF FlagsOK
<1>b. /\ isRunning' \in BOOLEAN /\ ended' \in BOOLEAN /\ client' \in BOOLEAN /\ online' \in BOOLEAN
      /\ stopping' \in BOOLEAN /\ reconnecting' \in BOOLEAN /\ qr' \in BOOLEAN
      /\ missed' \in BOOLEAN /\ raced' \in BOOLEAN
  BY DEF FlagsOK
<1> USE <1>a, <1>b, WaAssumption DEF WaAssumption, WaInv, LinkTypeOK, BoundsOK, StopWaits, FreshOK, BridgeOK,
       NativeOK, LostOK, base, bridge, native
<1>1. ASSUME NEW dialling \in BOOLEAN, "bridge" \in Modes, BridgeStart(dialling) PROVE WaInv'
  BY <1>1 DEF BridgeStart
<1>2. ASSUME NEW opens \in BOOLEAN, "native" \in Modes, NativeStart(opens) PROVE WaInv'
  BY <1>2 DEF NativeStart
<1>3. ASSUME NEW paired \in BOOLEAN, NEW connects \in BOOLEAN, NativeConnect(paired, connects)
      PROVE  WaInv'
  BY <1>3 DEF NativeConnect
<1>4. CASE NativeQR
  BY <1>4 DEF NativeQR
<1>5. CASE NativeRunning
  BY <1>5 DEF NativeRunning
<1>6. CASE BridgeStop
  BY <1>6 DEF BridgeStop
<1>7. CASE StopFlag
  BY <1>7 DEF StopFlag
<1>8. CASE StopCancel
  BY <1>8 DEF StopCancel
<1>9. CASE StopDisconnect
  BY <1>9 DEF StopDisconnect
<1>10. CASE StopWait
  BY <1>10 DEF StopWait
<1>11. CASE StopClose
  BY <1>11 DEF StopClose
<1>12. CASE BridgeLoop
  BY <1>12 DEF BridgeLoop
<1>13. CASE BridgeRead
  BY <1>13 DEF BridgeRead
<1>14. CASE QRLeaves
  BY <1>14 DEF QRLeaves
<1>15. CASE OnDisconnected
  BY <1>15 DEF OnDisconnected
<1>16. CASE ReconnectLoop
  BY <1>16 DEF ReconnectLoop, ReconnectGoes
<1>17. CASE ReconnectWait
  BY <1>17 DEF ReconnectWait, ReconnectGoes
<1>18. CASE ReconnectUnmark
  BY <1>18 DEF ReconnectUnmark, ReconnectGoes
<1>19. CASE ReconnectDone
  BY <1>19 DEF ReconnectDone
<1>20. ASSUME NEW connects \in BOOLEAN, ReconnectTry(connects) PROVE WaInv'
  BY <1>20 DEF ReconnectTry, ReconnectGoes
<1>21. CASE LinkBreaks
  BY <1>21 DEF LinkBreaks
<1>22. CASE UNCHANGED waVars
  BY <1>22 DEF waVars
<1> QED
  BY <1>1, <1>2, <1>3, <1>4, <1>5, <1>6, <1>7, <1>8, <1>9, <1>10, <1>11, <1>12, <1>13, <1>14,
     <1>15, <1>16, <1>17, <1>18, <1>19, <1>20, <1>21, <1>22
     DEF WaNext, Begin, Starting, Stopping, Goroutines

LEMMA WaStart == WaInit => WaInv
<1>1. WaInit => FlagsOK
  BY Zenon DEF WaInit, FlagsOK
<1>2. WaInit /\ FlagsOK => WaInv
  BY WaAssumption DEF WaAssumption, WaInit, WaInv, LinkTypeOK, BoundsOK, StopWaits, FreshOK, BridgeOK,
     NativeOK, LostOK
<1> QED
  BY <1>1, <1>2

\* The variables of the WhatsApp channels keep their types.
THEOREM WaTypeCorrect == WaSpec => []LinkTypeOK
<1>1. WaInv => LinkTypeOK
  BY DEF WaInv
<1> QED
  BY <1>1, WaStart, WaStep, PTL DEF WaSpec

\* For any number of failing reads and breaks: Stop waits for every goroutine, a lost
\* connection is answered, and a stopped client is offline unless it was just connecting.
THEOREM WhatsAppSoundHolds == WaSpec => []WhatsAppSound
<1>1. WaInv => WhatsAppSound
  BY WaAssumption DEF WaAssumption, FlagsOK, WaInv, WhatsAppSound, StopWaits, DownIsAnswered, StopDisconnects, PanicNeedsBreak,
         LinkTypeOK, BoundsOK, FreshOK, BridgeOK, NativeOK, LostOK
<1> QED
  BY <1>1, WaStart, WaStep, PTL DEF WaSpec

(***************************************************************************)
(* Pico and the MaixCam                                                    *)
(***************************************************************************)

Counted == {"top", "reading", "leaving", "closed", "uncount"}
Looping == {c \in Clients : loopAt[c] \in Counted}
OfPico == {"shaking", "stored", "uncount"}

ServersTypes ==
  /\ kind \in ServerKinds \cup {"none"} /\ running \in BOOLEAN /\ contextEnded \in BOOLEAN
  /\ stopPc \in {"no", "close", "cancel", "listener", "clients", "done"}
  /\ loopAt \in [Clients -> Counted \cup OfPico \cup {"away", "accepted", "ended"}]
  /\ stopTodo \subseteq Clients /\ table \subseteq Clients /\ closed \subseteq Clients
  /\ left \subseteq Clients /\ silent \subseteq Clients /\ owed \subseteq Clients
  /\ visited \subseteq Clients /\ stable \subseteq Clients /\ taken \subseteq Clients
  /\ attempt \in 0..SendRetries
  /\ sendPc \in {"idle", "writing", "wait", "ok", "failed", "notRunning"}
  /\ heard \in [Clients -> Nat]

\* Each channel's connections are at its own steps.
LoopsFit ==
  /\ kind = "none" => table = {} /\ sendPc = "idle" /\ \A c \in Clients : loopAt[c] = "away"
  /\ kind = "pico" => \A c \in Clients : loopAt[c] # "accepted"
  /\ kind = "maixcam" => \A c \in Clients : loopAt[c] \notin OfPico
  /\ kind = "pico" => count = Cardinality(Looping)
  /\ kind # "pico" => count = 0
  /\ NoGhosts
  /\ \A c \in Clients : loopAt[c] = "closed" => c \in closed

\* What the message has come to.
Delivery ==
  /\ \A c \in stable : /\ loopAt[c] \notin {"away", "shaking", "accepted"}
                       /\ Good(c) => c \in owed
                       /\ Good(c) /\ c \in visited => c \in taken /\ heard[c] > 0
  /\ Reached
  /\ \A c \in Clients : heard[c] <= attempt + (IF c \in visited THEN 1 ELSE 0)
  /\ sendPc = "idle" => attempt = 0 /\ visited = {}
  /\ sendPc = "wait" => attempt < SendRetries
  /\ kind = "pico" => sendPc # "wait" /\ attempt = 0

-----------------------------------------------------------------------------

\* The connection of c goes on, or the client leaves it; the message is not touched.
ConnStep(c) ==
  \/ \E authentic \in BOOLEAN : Knock(c, authentic)
  \/ Accept(c) \/ \E garbage \in BOOLEAN : Says(c, garbage)
  \/ ClientLeaves(c) \/ Loop(c)

LEMMA ConnMoves ==
  ASSUME NEW c \in Clients, ConnStep(c)
  PROVE  /\ UNCHANGED <<kind, running, contextEnded, stopPc, stopTodo, listening, sendVars>>
         /\ closed \subseteq closed' /\ left \subseteq left' /\ silent \subseteq silent'
         /\ \/ loopAt' = loopAt
            \/ \E to : loopAt' = [loopAt EXCEPT ![c] = to]
                       /\ (to \in {"away", "shaking", "accepted"} => loopAt[c] = "away")
         /\ table' \subseteq table \cup {d \in {c} : loopAt[d] \in {"shaking", "accepted"}}
<1>1. CASE Loop(c)
  BY <1>1 DEF Loop, Goes, Upgrade, Count, AddClient, Top, ReadFails, DeadlinePasses, Close, Delete,
    Uncount, channelVars, sendVars
<1>2. CASE ~Loop(c)
  BY <1>2 DEF ConnStep, Goes, Knock, Accept, Says, ClientLeaves, channelVars, connVars, sendVars
<1> QED
  BY <1>1, <1>2

LEMMA ConnTypes ==
  ASSUME ServersTypes, LoopsFit, NEW c \in Clients, ConnStep(c)
  PROVE  ServersTypes'
<1>1. /\ UNCHANGED <<kind, running, contextEnded, stopPc, stopTodo, listening, sendVars>>
      /\ table' \subseteq Clients
  BY ConnMoves DEF ServersTypes
<1>2. closed' \subseteq Clients /\ left' \subseteq Clients /\ silent' \subseteq Clients
  BY DEF ConnStep, Loop, Upgrade, Count, AddClient, Top, ReadFails, DeadlinePasses, Close, Delete,
    Uncount, Knock, Accept, Says, ClientLeaves, connVars, ServersTypes
<1>3. loopAt' \in [Clients -> Counted \cup OfPico \cup {"away", "accepted", "ended"}]
  BY DEF ConnStep, Loop, Goes, Upgrade, Count, AddClient, Top, ReadFails, DeadlinePasses, Close, Delete,
    Uncount, Knock, Accept, Says, ClientLeaves, ServersTypes, Counted, OfPico
<1> QED
  BY <1>1, <1>2, <1>3 DEF ServersTypes, sendVars

LEMMA KindIs == ServersTypes => kind \in {"none", "pico", "maixcam"}
  BY ServersAssumption DEF ServersTypes

LEMMA LoopingFinite == IsFiniteSet(Looping) /\ Cardinality(Looping) \in Nat
<1>1. IsFiniteSet(Looping)
  BY ServersAssumption, FS_Subset DEF Looping
<1> QED
  BY <1>1, FS_CardinalityType

\* The connection of c goes from one step to another.
LEMMA LoopingMoves ==
  ASSUME ServersTypes, NEW c \in Clients, NEW to, loopAt' = [loopAt EXCEPT ![c] = to]
  PROVE  /\ to \in Counted => Looping' = Looping \cup {c}
         /\ to \notin Counted => Looping' = Looping \ {c}
  BY DEF Looping, ServersTypes

LEMMA CountKept ==
  ASSUME ServersTypes, LoopsFit, NEW c \in Clients, NEW to, loopAt' = [loopAt EXCEPT ![c] = to],
         loopAt[c] \in Counted <=> to \in Counted, count' = count, kind' = kind
  PROVE  (kind = "pico" => count' = Cardinality(Looping')) /\ (kind # "pico" => count' = 0)
<1>1. Looping' = Looping
  BY LoopingMoves DEF Looping
<1> QED
  BY <1>1 DEF LoopsFit

LEMMA GhostsKept ==
  ASSUME ServersTypes, NoGhosts, NEW c \in Clients, table' \subseteq table \cup {c},
         \A d \in Clients \ {c} : loopAt'[d] = loopAt[d],
         c \in table' => loopAt'[c] \in {"stored", "top", "reading", "leaving", "closed"}
  PROVE  NoGhosts'
<1>1. table \subseteq Clients
  BY DEF ServersTypes
<1> QED
  BY <1>1 DEF NoGhosts

LEMMA ConnFits ==
  ASSUME ServersTypes, LoopsFit, NEW c \in Clients, ConnStep(c)
  PROVE  LoopsFit'
<1>1. kind \in {"none", "pico", "maixcam"} /\ kind' = kind /\ sendPc' = sendPc
  BY KindIs, ConnMoves DEF sendVars
<1>2. ASSUME NEW to, Goes(c, loopAt[c], to)
      PROVE  /\ loopAt'[c] = to /\ \A d \in Clients \ {c} : loopAt'[d] = loopAt[d]
             /\ loopAt' = [loopAt EXCEPT ![c] = to]
  BY <1>2 DEF Goes, ServersTypes
<1>3. CASE \E authentic \in BOOLEAN : Knock(c, authentic)
  <2>1. PICK to \in {"shaking", "ended"} : Goes(c, "away", to)
    BY <1>3 DEF Knock
  <2>2. kind = "pico" /\ table' = table /\ closed' = closed /\ count' = count
    BY <1>3 DEF Knock
  <2>3. count' = Cardinality(Looping')
    BY <2>1, <2>2, <1>1, <1>2, CountKept DEF Goes, Counted
  <2> QED
    BY <2>1, <2>2, <2>3, <1>1, <1>2 DEF LoopsFit, NoGhosts, Goes
<1>4. CASE Accept(c)
  <2>1. Goes(c, "away", "accepted") /\ kind = "maixcam" /\ table' = table /\ closed' = closed
        /\ count' = count
    BY <1>4 DEF Accept
  <2>2. count' = 0
    BY <2>1 DEF LoopsFit
  <2> QED
    BY <2>1, <2>2, <1>1, <1>2 DEF LoopsFit, NoGhosts, Goes, OfPico
<1>5. CASE \/ \E garbage \in BOOLEAN : Says(c, garbage)
           \/ Top(c) \/ ReadFails(c) \/ DeadlinePasses(c)
  <2>1. PICK from \in {"top", "reading"}, to \in {"top", "reading", "leaving"} : Goes(c, from, to)
    BY <1>5 DEF Says, Top, ReadFails, DeadlinePasses
  <2>2. table' = table /\ closed' = closed /\ count' = count
    BY <1>5 DEF Says, Top, ReadFails, DeadlinePasses
  <2>3. (kind = "pico" => count' = Cardinality(Looping')) /\ (kind # "pico" => count' = 0)
    BY <2>1, <2>2, <1>1, <1>2, CountKept DEF Goes, Counted
  <2> QED
    BY <2>1, <2>2, <2>3, <1>1, <1>2 DEF LoopsFit, NoGhosts, Goes, OfPico
<1>6. CASE ClientLeaves(c)
  <2>1. loopAt' = loopAt /\ table' = table /\ closed' = closed /\ count' = count
    BY <1>6 DEF ClientLeaves
  <2> QED
    BY <2>1, <1>1 DEF LoopsFit, NoGhosts, Looping
<1>7. CASE Upgrade(c)
  <2>1. PICK to \in {"ended", "stored"} :
          Goes(c, "shaking", to) /\ table' = IF to = "stored" THEN table \cup {c} ELSE table
    BY <1>7 DEF Upgrade
  <2>2. closed' = closed /\ count' = count
    BY <1>7 DEF Upgrade
  <2>3. kind = "pico"
    BY <2>1, <1>1 DEF Goes, LoopsFit, OfPico
  <2>4. count' = Cardinality(Looping')
    BY <2>1, <2>2, <2>3, <1>1, <1>2, CountKept DEF Goes, Counted
  <2>5. NoGhosts'
    BY <2>1, <1>2, GhostsKept DEF LoopsFit, NoGhosts, Goes
  <2>6. \A d \in Clients : loopAt'[d] # "accepted" /\ (loopAt'[d] = "closed" => d \in closed')
    BY <2>1, <2>2, <2>3, <1>2 DEF LoopsFit, Goes
  <2> QED
    BY <2>3, <2>4, <2>5, <2>6, <1>1 DEF LoopsFit
<1>8. CASE Count(c)
  <2>1. Goes(c, "stored", "top") /\ count' = count + 1 /\ table' = table /\ closed' = closed
    BY <1>8 DEF Count
  <2>2. kind = "pico"
    BY <2>1, <1>1 DEF Goes, LoopsFit, OfPico
  <2>3. c \notin Looping /\ Looping' = Looping \cup {c}
    BY <2>1, <1>2, LoopingMoves DEF Goes, Looping, Counted
  <2>4. count' = Cardinality(Looping')
    BY <2>1, <2>2, <2>3, LoopingFinite, FS_AddElement DEF LoopsFit
  <2>5. NoGhosts'
    BY <2>1, <1>2, GhostsKept DEF LoopsFit, NoGhosts, Goes
  <2>6. \A d \in Clients : loopAt'[d] # "accepted" /\ (loopAt'[d] = "closed" => d \in closed')
    BY <2>1, <2>2, <1>2 DEF LoopsFit, Goes
  <2> QED
    BY <2>2, <2>4, <2>5, <2>6, <1>1 DEF LoopsFit
<1>9. CASE AddClient(c)
  <2>1. /\ Goes(c, "accepted", "top") /\ count' = count /\ table' = table \cup {c}
        /\ closed' = closed
    BY <1>9 DEF AddClient
  <2>2. kind = "maixcam"
    BY <2>1, <1>1 DEF Goes, LoopsFit
  <2>5. NoGhosts'
    BY <2>1, <1>2, GhostsKept DEF LoopsFit, Goes
  <2>6. \A d \in Clients : loopAt'[d] \notin OfPico /\ (loopAt'[d] = "closed" => d \in closed')
    BY <2>1, <2>2, <1>2 DEF LoopsFit, Goes, OfPico
  <2> QED
    BY <2>1, <2>2, <2>5, <2>6, <1>1 DEF LoopsFit
<1>10. CASE Close(c)
  <2>1. /\ Goes(c, "leaving", "closed") /\ count' = count /\ table' = table
        /\ closed' = closed \cup {c}
    BY <1>10 DEF Close
  <2>2. (kind = "pico" => count' = Cardinality(Looping')) /\ (kind # "pico" => count' = 0)
    BY <2>1, <1>1, <1>2, CountKept DEF Goes, Counted
  <2> QED
    BY <2>1, <2>2, <1>1, <1>2 DEF LoopsFit, NoGhosts, Goes, OfPico
<1>11. CASE Delete(c)
  <2>1. /\ Goes(c, "closed", IF kind = "pico" THEN "uncount" ELSE "ended")
        /\ count' = count /\ table' = table \ {c} /\ closed' = closed
    BY <1>11 DEF Delete
  <2>2. kind # "none"
    BY <2>1 DEF Goes, LoopsFit
  <2>3. kind = "pico" => count' = Cardinality(Looping')
    BY <2>1, <1>1, <1>2, CountKept DEF Goes, Counted
  <2> QED
    BY <2>1, <2>2, <2>3, <1>1, <1>2 DEF LoopsFit, NoGhosts, Goes, OfPico
<1>12. CASE Uncount(c)
  <2>1. Goes(c, "uncount", "ended") /\ count' = count - 1 /\ table' = table /\ closed' = closed
    BY <1>12 DEF Uncount
  <2>2. kind = "pico"
    BY <2>1, <1>1 DEF Goes, LoopsFit, OfPico
  <2>31. "ended" \notin Counted /\ loopAt[c] \in Counted
    BY <2>1 DEF Goes, Counted
  <2>3. c \in Looping /\ Looping' = Looping \ {c}
    BY <2>1, <2>31, <1>2, LoopingMoves DEF Goes, Looping
  <2>4. count' = Cardinality(Looping')
    BY <2>1, <2>2, <2>3, LoopingFinite, FS_RemoveElement DEF LoopsFit
  <2> QED
    BY <2>1, <2>2, <2>4, <1>1, <1>2 DEF LoopsFit, NoGhosts, Goes
<1> QED
  BY <1>3, <1>4, <1>5, <1>6, <1>7, <1>8, <1>9, <1>10, <1>11, <1>12 DEF ConnStep, Loop

\* A step that touches no message.
LEMMA DeliveryKept ==
  ASSUME Delivery, UNCHANGED sendVars, kind' = kind,
         \A c \in stable : loopAt'[c] \notin {"away", "shaking", "accepted"} /\ (Good(c)' => Good(c))
  PROVE  Delivery'
  BY DEF Delivery, Reached, sendVars

LEMMA ConnDelivers ==
  ASSUME ServersTypes, LoopsFit, Delivery, NEW c \in Clients, ConnStep(c)
  PROVE  Delivery'
<1>1. ASSUME NEW d \in stable
      PROVE  loopAt'[d] \notin {"away", "shaking", "accepted"} /\ (Good(d)' => Good(d))
  <2>1. loopAt[d] \notin {"away", "shaking", "accepted"} /\ d \in Clients
    BY DEF Delivery, ServersTypes
  <2>2. loopAt'[d] \notin {"away", "shaking", "accepted"}
    BY <2>1, ConnMoves DEF ServersTypes
  <2>3. Good(d)' => Good(d)
    BY <2>1, ConnMoves DEF Good
  <2> QED
    BY <2>2, <2>3
<1> QED
  BY <1>1, ConnMoves, DeliveryKept

-----------------------------------------------------------------------------
(* Stop, and the message                                                   *)

SvInv == ServersTypes /\ LoopsFit /\ Delivery

StopStep ==
  StopGoes \/ AcceptorChecks \/ AcceptFails \/ \E k \in ServerKinds : ServerStarts(k)

LEMMA StopMoves ==
  ASSUME ServersTypes, LoopsFit, StopStep
  PROVE  /\ UNCHANGED <<loopAt, left, silent, count, sendVars>>
         /\ table' \subseteq table /\ closed \subseteq closed' /\ closed' \subseteq Clients
         /\ \/ kind' = kind
            \/ kind = "none" /\ kind' \in ServerKinds
  BY DEF StopStep, StopGoes, ServerStops, EndContext, StopListener, StopClients, CloseOne, AcceptorChecks, AcceptFails,
    ServerStarts, ServersTypes, connVars

LEMMA StopHolds == SvInv /\ StopStep => SvInv'
<1> SUFFICES ASSUME SvInv, StopStep PROVE SvInv'
  OBVIOUS
<1>1. ServersTypes /\ LoopsFit /\ Delivery
  BY DEF SvInv
<1>2. /\ UNCHANGED <<loopAt, left, silent, count, sendVars>>
      /\ table' \subseteq table /\ closed \subseteq closed' /\ closed' \subseteq Clients
      /\ \/ kind' = kind
         \/ kind = "none" /\ kind' \in ServerKinds
  BY <1>1, StopMoves
<1>3. ServersTypes'
  <2>1. /\ running' \in BOOLEAN /\ contextEnded' \in BOOLEAN /\ stopTodo' \subseteq Clients
        /\ stopPc' \in {"no", "close", "cancel", "listener", "clients", "done"}
    BY <1>1 DEF StopStep, StopGoes, ServerStops, EndContext, StopListener, StopClients, CloseOne, AcceptorChecks,
      AcceptFails, ServerStarts, ServersTypes
  <2> QED
    BY <1>1, <1>2, <2>1 DEF ServersTypes, sendVars
<1>4. LoopsFit'
  <2>1. CASE kind' = kind
    BY <1>1, <1>2, <2>1 DEF LoopsFit, NoGhosts, sendVars, Looping
  <2>2. CASE kind = "none" /\ kind' \in ServerKinds
    <3>1. Looping' = {} /\ count' = 0 /\ table' = {} /\ \A c \in Clients : loopAt'[c] = "away"
      BY <1>1, <1>2, <2>2 DEF LoopsFit, Looping, Counted
    <3> QED
      BY <3>1, <2>2, FS_EmptySet, ServersAssumption DEF LoopsFit, NoGhosts, OfPico
  <2> QED
    BY <1>2, <2>1, <2>2
<1>5. Delivery'
  <2>1. \A c \in stable : loopAt'[c] \notin {"away", "shaking", "accepted"} /\ (Good(c)' => Good(c))
    BY <1>1, <1>2 DEF Delivery, Good
  <2>2. CASE kind' = kind
    BY <1>1, <1>2, <2>1, <2>2, DeliveryKept
  <2>3. CASE kind = "none"
    <3>1. sendPc' = "idle" /\ sendPc = "idle" /\ UNCHANGED sendVars
      BY <1>1, <1>2, <2>3 DEF LoopsFit, sendVars
    <3> QED
      BY <1>1, <2>1, <3>1 DEF Delivery, Reached, sendVars
  <2> QED
    BY <1>2, <2>2, <2>3
<1> QED
  BY <1>3, <1>4, <1>5 DEF SvInv

LEMMA BeginHolds == SvInv /\ SendBegin => SvInv'
<1> SUFFICES ASSUME SvInv, SendBegin PROVE SvInv'
  OBVIOUS
<1> USE ServersAssumption
<1>1. ServersTypes /\ LoopsFit /\ Delivery
  BY DEF SvInv
<1>2. UNCHANGED <<channelVars, connVars, heard>> /\ kind # "none"
  BY DEF SendBegin
<1>3. attempt' \in 0..SendRetries /\ attempt' >= attempt
  BY <1>1 DEF SendBegin, ServersTypes, Delivery
<1>4. sendPc' \in {"writing", "wait", "failed", "notRunning"}
  BY DEF SendBegin, SendAgain
<1>5. ServersTypes'
  <2>1. owed' \subseteq Clients /\ visited' \subseteq Clients /\ stable' \subseteq Clients /\ taken' \subseteq Clients
    BY <1>1 DEF SendBegin, ServersTypes, Good
  <2> QED
    BY <1>1, <1>2, <1>3, <1>4, <2>1 DEF ServersTypes, channelVars, connVars
<1>6. LoopsFit'
  BY <1>1, <1>2 DEF LoopsFit, NoGhosts, channelVars, connVars, Looping
<1>7. kind = "pico" => sendPc' \in {"writing", "notRunning"} /\ attempt' = 0
  BY <1>1 DEF SendBegin, Delivery
<1>8. Reached'
  BY <1>4, <1>7, <1>2 DEF Reached, channelVars
<1>9. \A c \in stable' : /\ loopAt'[c] \notin {"away", "shaking", "accepted"} /\ c \in owed'
  BY <1>1, <1>2 DEF SendBegin, Good, LoopsFit, NoGhosts, connVars
<1>10. \A c \in Clients : heard[c] <= attempt'
  <2>1. CASE sendPc = "idle"
    BY <1>1, <1>3, <2>1 DEF Delivery, ServersTypes
  <2>2. CASE sendPc = "wait"
    BY <1>1, <2>2 DEF Delivery, ServersTypes, SendBegin
  <2> QED
    BY <2>1, <2>2 DEF SendBegin
<1>11. sendPc' = "wait" => attempt' < SendRetries
  BY <1>3 DEF SendBegin, SendAgain
<1>12. visited' = {}
  BY DEF SendBegin
<1>13. Delivery'
  BY <1>2, <1>3, <1>4, <1>7, <1>8, <1>9, <1>10, <1>11, <1>12, <1>1 DEF Delivery, ServersTypes, channelVars
<1> QED
  BY <1>5, <1>6, <1>13 DEF SvInv

LEMMA WriteHolds ==
  ASSUME SvInv, NEW c \in Clients, NEW goesThrough \in BOOLEAN, WriteTo(c, goesThrough)
  PROVE  SvInv'
<1>1. ServersTypes /\ LoopsFit /\ Delivery
  BY DEF SvInv
<1>2. UNCHANGED <<channelVars, connVars, sendPc, owed, stable, attempt>> /\ sendPc = "writing"
  BY DEF WriteTo
<1>3. /\ visited' = visited \cup {c} /\ c \notin visited
      /\ taken \subseteq taken' /\ taken' \subseteq taken \cup {c} /\ (Good(c) => c \in taken')
  BY DEF WriteTo
<1>4. /\ heard' \in [Clients -> Nat] /\ \A d \in Clients : heard'[d] >= heard[d]
      /\ \A d \in Clients \ {c} : heard'[d] = heard[d]
      /\ heard'[c] <= heard[c] + 1 /\ (Good(c) => heard'[c] > 0)
  BY <1>1 DEF WriteTo, ServersTypes
<1>5. ServersTypes'
  BY <1>1, <1>2, <1>3, <1>4 DEF ServersTypes, channelVars, connVars
<1>6. LoopsFit'
  BY <1>1, <1>2 DEF LoopsFit, NoGhosts, channelVars, connVars, Looping
<1>7. \A d \in Clients : Good(d)' <=> Good(d)
  BY <1>2 DEF Good, connVars
<1>8. \A d \in stable' : /\ loopAt'[d] \notin {"away", "shaking", "accepted"}
                         /\ Good(d)' => d \in owed'
                         /\ Good(d)' /\ d \in visited' => d \in taken' /\ heard'[d] > 0
  BY <1>1, <1>2, <1>3, <1>4, <1>7 DEF Delivery, ServersTypes, connVars
<1>9. \A d \in Clients : heard'[d] <= attempt' + (IF d \in visited' THEN 1 ELSE 0)
  BY <1>1, <1>2, <1>3, <1>4 DEF Delivery, ServersTypes
<1>10. Delivery'
  BY <1>1, <1>2, <1>8, <1>9 DEF Delivery, Reached, channelVars
<1> QED
  BY <1>5, <1>6, <1>10 DEF SvInv

LEMMA EndHolds == SvInv /\ SendEnd => SvInv'
<1> SUFFICES ASSUME SvInv, SendEnd PROVE SvInv'
  OBVIOUS
<1>1. ServersTypes /\ LoopsFit /\ Delivery
  BY DEF SvInv
<1>2. /\ UNCHANGED <<channelVars, connVars, owed, visited, stable, taken, attempt, heard>>
      /\ owed \cap table \subseteq visited
  BY DEF SendEnd
<1>3. kind = "pico" => sendPc' = IF taken # {} THEN "ok" ELSE "failed"
  BY DEF SendEnd
<1>4. kind # "pico" => sendPc' \in {"ok", "failed", "wait"}
                       /\ (sendPc' = "wait" => attempt # SendRetries)
  BY DEF SendEnd, SendAgain
<1>5. ServersTypes'
  BY <1>1, <1>2, <1>3, <1>4 DEF ServersTypes, channelVars, connVars
<1>6. LoopsFit'
  <2>1. kind # "none"
    BY <1>1 DEF LoopsFit, SendEnd
  <2> QED
    BY <1>1, <1>2, <2>1 DEF LoopsFit, NoGhosts, channelVars, connVars, Looping
<1>7. ASSUME NEW c \in stable, Good(c) PROVE c \in taken /\ heard[c] > 0
  BY <1>1, <1>2, <1>7 DEF Delivery, Good
<1>8. Reached'
  BY <1>2, <1>3, <1>7 DEF Reached, channelVars, connVars, Good
<1>9. attempt \in Nat /\ SendRetries \in Nat /\ attempt <= SendRetries
  BY <1>1, ServersAssumption DEF ServersTypes
<1>10. Delivery'
  <2>1. \A d \in Clients : Good(d)' <=> Good(d)
    BY <1>2 DEF Good, connVars
  <2>2. sendPc' = "wait" => attempt' < SendRetries
    BY <1>2, <1>3, <1>4, <1>9
  <2>3. sendPc' # "idle" /\ (kind' = "pico" => sendPc' # "wait")
    BY <1>2, <1>3, <1>4 DEF channelVars
  <2>4. stable \subseteq Clients
    BY <1>1 DEF ServersTypes
  <2> QED
    BY <1>1, <1>2, <1>8, <2>1, <2>2, <2>3, <2>4 DEF Delivery, channelVars, connVars
<1> QED
  BY <1>5, <1>6, <1>10 DEF SvInv

LEMMA ServersInitially == SvInit => SvInv
<1> SUFFICES ASSUME SvInit PROVE SvInv
  OBVIOUS
<1>1. ServersTypes
  <2>1. attempt \in 0..SendRetries /\ heard \in [Clients -> Nat]
    BY ServersAssumption DEF SvInit
  <2>2. loopAt \in [Clients -> Counted \cup OfPico \cup {"away", "accepted", "ended"}]
    BY DEF SvInit
  <2> QED
    BY <2>1, <2>2 DEF SvInit, ServersTypes
<1>2. Looping = {}
  BY DEF SvInit, Looping, Counted
<1>3. LoopsFit
  BY <1>2 DEF SvInit, LoopsFit, NoGhosts
<1>4. Delivery
  BY DEF SvInit, Delivery, Reached
<1> QED
  BY <1>1, <1>3, <1>4 DEF SvInv

LEMMA ServersNextHolds == SvInv /\ [SvNext]_svVars => SvInv'
<1> SUFFICES ASSUME SvInv, [SvNext]_svVars PROVE SvInv'
  OBVIOUS
<1>1. CASE UNCHANGED svVars
  BY <1>1 DEF svVars, SvInv, ServersTypes, LoopsFit, NoGhosts, Delivery, Reached, Good, Looping
<1>2. CASE StopStep
  BY <1>2, StopHolds
<1>3. ASSUME NEW c \in Clients, ConnStep(c) PROVE SvInv'
  BY <1>3, ConnTypes, ConnFits, ConnDelivers DEF SvInv
<1>4. CASE SendBegin
  BY <1>4, BeginHolds
<1>5. CASE Writing
  BY <1>5, WriteHolds, EndHolds DEF Writing
<1> QED
  BY <1>1, <1>2, <1>3, <1>4, <1>5 DEF SvNext, Clientele, StopStep, ConnStep

LEMMA ServersAlways == SvSpec => []SvInv
  BY ServersInitially, ServersNextHolds, PTL DEF SvSpec

\* The types of the two servers' books.
THEOREM ServersTypeCorrect == SvSpec => []ServersTypeOK
<1>1. ASSUME SvInv PROVE ServersTypeOK
  <2>1. ServersTypes /\ LoopsFit /\ Delivery
    BY <1>1 DEF SvInv
  <2>2. count \in 0..Cardinality(Clients)
    <3>1. Looping \subseteq Clients /\ IsFiniteSet(Clients)
      BY ServersAssumption DEF Looping
    <3>2. Cardinality(Looping) <= Cardinality(Clients)
      BY <3>1, FS_Subset
    <3>3. Cardinality(Looping) \in Nat /\ Cardinality(Clients) \in Nat
      BY <3>1, LoopingFinite, FS_CardinalityType
    <3> QED
      BY <2>1, <3>2, <3>3 DEF LoopsFit
  <2>3. \A c \in Clients : heard[c] \in 0..(SendRetries + 1)
    BY <2>1, ServersAssumption DEF ServersTypes, Delivery
  <2>4. UNION {stopTodo, table, closed, left, silent, owed, visited, stable, taken} \subseteq Clients
    BY <2>1 DEF ServersTypes
  <2>5. loopAt \in [Clients -> {"away", "shaking", "stored", "accepted", "top", "reading",
                                "leaving", "closed", "uncount", "ended"}]
    BY <2>1 DEF ServersTypes, Counted, OfPico
  <2>6. heard \in [Clients -> 0..(SendRetries + 1)]
    BY <2>1, <2>3 DEF ServersTypes
  <2> QED
    BY <2>1, <2>2, <2>4, <2>5, <2>6 DEF ServersTypes, ServersTypeOK
<1> QED
  BY <1>1, ServersAlways, PTL

\* The books of the servers, for any number of connections: the count is the loops that
\* run, no map holds an ended connection, success means that everybody who stayed has the
\* message, and nobody has it twice without an error.
THEOREM ServersSoundHolds == SvSpec => []ServersSound
<1>1. ASSUME SvInv PROVE ServersSound
  <2>1. ServersTypes /\ LoopsFit /\ Delivery
    BY <1>1 DEF SvInv
  <2>2. CountIsLoops
    BY <2>1 DEF LoopsFit, CountIsLoops, Looping, Counted
  <2>3. RepeatsHaveErrors
    BY <2>1 DEF RepeatsHaveErrors, Delivery, ServersTypes
  <2> QED
    BY <2>1, <2>2, <2>3 DEF ServersSound, LoopsFit, Delivery
<1> QED
  BY <1>1, ServersAlways, PTL

=============================================================================
