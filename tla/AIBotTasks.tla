----------------------------- MODULE AIBotTasks -----------------------------
(***************************************************************************)
(* pkg/channels/wecom/aibot.go: the stream tasks of the WeCom AI bot.  A    *)
(* message of a user opens a task; WeCom polls its stream until a response  *)
(* says finish.  Send, called by the channel's worker, hands a reply to the *)
(* oldest task of the chat: through its answer channel while the stream is  *)
(* open, through its response_url afterwards.                               *)
(*                                                                          *)
(* A task is named by its message.  Replies are numbered in the order in    *)
(* which the worker sends them; encryption and message formats are left     *)
(* out, and of time only which limits have passed.                          *)
(***************************************************************************)
EXTENDS Naturals, Sequences

CONSTANTS
  Tasks,     \* messages of users, each with the stream task it opens
  ChatOf,    \* ChatOf[t]: its chat
  HasURL,    \* tasks whose message carries a response_url
  MaxReplies \* bound on the number of replies

Chats == {ChatOf[t] : t \in Tasks}
NoReply == 0
NoTask == "none"

ASSUME BotAssumption == NoTask \notin Tasks /\ MaxReplies \in Nat

VARIABLES
  botRunning,  \* the channel runs; c.ctx is cancelled when it is stopped
  streamTasks, \* tasks a poll can find
  chatTasks,   \* chatTasks[c]: the tasks in the queue of chat c, first the one opened first
  answerCh,    \* answerCh[t]: the reply in the one-place channel of t, or NoReply
  streamClosed,\* tasks whose StreamClosed is set
  finished,    \* tasks whose Finished is set
  cancelled,   \* tasks whose context is cancelled
  opened,      \* messages that have been received, in order
  passed,      \* passed[t]: limits that have passed: "deadline", "grace", "lifetime"
  poll,        \* poll[t]: the request of stream t: "none", "reading", "removing", "closing"
  send,        \* the worker: [step, reply, task]
  delivered,   \* delivered[c]: replies that have reached chat c, in order
  overtaken        \* history: replies on their way to a task when it left streamTasks

taskVars == <<streamTasks, chatTasks, streamClosed, finished, cancelled>>
botVars == <<botRunning, taskVars, answerCh, opened, passed, poll, send, delivered, overtaken>>

Idle == [step |-> "idle", reply |-> NoReply, task |-> NoTask]

BotInit ==
  /\ botRunning = TRUE
  /\ streamTasks = {}
  /\ chatTasks = [c \in Chats |-> {}]
  /\ answerCh = [t \in Tasks |-> NoReply]
  /\ streamClosed = {} /\ finished = {} /\ cancelled = {} /\ opened = <<>>
  /\ passed = [t \in Tasks |-> {}]
  /\ poll = [t \in Tasks |-> "none"]
  /\ send = Idle
  /\ delivered = [c \in Chats |-> <<>>]
  /\ overtaken = {}

Opened == {opened[i] : i \in DOMAIN opened}
Queued(t) == t \in chatTasks[ChatOf[t]]

\* Tasks are appended to a queue when they are opened, and only ever taken out of it.
Before(t, u) == \E i, k \in DOMAIN opened : i < k /\ opened[i] = t /\ opened[k] = u
Oldest(q) == CHOOSE t \in q : \A u \in q \ {t} : Before(t, u)

Deliver(t, reply) == delivered' = [delivered EXCEPT ![ChatOf[t]] = Append(@, reply)]
Race(ts) == overtaken' = overtaken \cup ({answerCh[t] : t \in ts} \ {NoReply})
                          \cup (IF send.task \in ts THEN {send.reply} ELSE {})

-----------------------------------------------------------------------------
(* WeCom: messages and polls                                               *)

\* handleTextMessage: the task is entered in both maps and its message handed to
\* the agent; the response to the callback is the first look at the stream.
Callback(t) ==
  /\ t \notin Opened
  /\ opened' = Append(opened, t)
  /\ streamTasks' = streamTasks \cup {t}
  /\ chatTasks' = [chatTasks EXCEPT ![ChatOf[t]] = @ \cup {t}]
  /\ cancelled' = IF botRunning THEN cancelled ELSE cancelled \cup {t}
  /\ poll' = [poll EXCEPT ![t] = "reading"]
  /\ UNCHANGED <<botRunning, answerCh, streamClosed, finished, passed, send, delivered, overtaken>>

\* handleStreamMessage: a poll that finds its task (one that does not changes nothing).
PollFind(t) ==
  /\ poll[t] = "none" /\ t \in streamTasks
  /\ poll' = [poll EXCEPT ![t] = "reading"]
  /\ UNCHANGED <<botRunning, taskVars, answerCh, opened, passed, send, delivered, overtaken>>

\* getStreamResponse with an answer: the stream finishes with it; removeTask
\* cancels the task before it takes the lock.
PollAnswer(t) ==
  /\ poll[t] = "reading" /\ answerCh[t] # NoReply
  /\ Deliver(t, answerCh[t])
  /\ answerCh' = [answerCh EXCEPT ![t] = NoReply]
  /\ cancelled' = cancelled \cup {t}
  /\ poll' = [poll EXCEPT ![t] = "removing"]
  /\ UNCHANGED <<botRunning, streamTasks, chatTasks, streamClosed, finished, opened,
                 passed, send, overtaken>>

\* getStreamResponse without one: finish = false, or past the deadline a notice.
PollEmpty(t) ==
  /\ poll[t] = "reading" /\ answerCh[t] = NoReply
  /\ poll' = [poll EXCEPT ![t] = IF "deadline" \in passed[t] THEN "closing" ELSE "none"]
  /\ UNCHANGED <<botRunning, taskVars, answerCh, opened, passed, send, delivered, overtaken>>

\* The stream is closed with the notice; the task stays in the chat's queue.
PollClose(t) ==
  /\ poll[t] = "closing"
  /\ poll' = [poll EXCEPT ![t] = "none"]
  /\ streamClosed' = streamClosed \cup {t}
  /\ streamTasks' = streamTasks \ {t}
  /\ Race({t})
  /\ UNCHANGED <<botRunning, chatTasks, finished, cancelled, answerCh, opened, passed,
                 send, delivered>>

\* removeTask under the lock.
Remove(t) ==
  /\ finished' = finished \cup {t}
  /\ streamTasks' = streamTasks \ {t}
  /\ chatTasks' = [chatTasks EXCEPT ![ChatOf[t]] = @ \ {t}]

PollRemove(t) ==
  /\ poll[t] = "removing"
  /\ poll' = [poll EXCEPT ![t] = "none"]
  /\ Remove(t)
  /\ Race({t})
  /\ UNCHANGED <<botRunning, streamClosed, cancelled, answerCh, opened, passed, send,
                 delivered>>

-----------------------------------------------------------------------------
(* Send, called by the worker of the channel                               *)

\* Finished tasks at the head of the queue are skipped, others are not looked at.
Compacted(c) ==
  {t \in chatTasks[c] : t \notin finished \/ \E u \in chatTasks[c] \ finished : Before(u, t)}

\* Mutant of SendLook: the newest task of the chat gets the reply.
SendLookNewest(c) ==
  /\ send.step = "idle" /\ send.reply < MaxReplies /\ botRunning
  /\ \E t \in chatTasks[c] :
       /\ \A u \in chatTasks[c] \ {t} : Before(u, t)
       /\ send' = [step |-> "answering", reply |-> send.reply + 1, task |-> t]
  /\ UNCHANGED <<botRunning, taskVars, answerCh, opened, passed, poll, delivered, overtaken>>

SendNothing == send' = [send EXCEPT !.reply = @ + 1]

\* Send, first critical section: the oldest task and whether its stream is closed.
\* A reply without a task is dropped, one to a stopped channel refused.
SendLook(c) ==
  /\ send.step = "idle" /\ send.reply < MaxReplies
  /\ IF ~botRunning
     THEN SendNothing /\ UNCHANGED chatTasks
     ELSE /\ chatTasks' = [chatTasks EXCEPT ![c] = Compacted(c)]
          /\ IF Compacted(c) = {} THEN SendNothing
             ELSE LET t == Oldest(Compacted(c)) IN
                  send' = [step |-> IF t \in streamClosed THEN "posting" ELSE "answering",
                           reply |-> send.reply + 1, task |-> t]
  /\ UNCHANGED <<botRunning, streamTasks, streamClosed, finished, cancelled, answerCh,
                 opened, passed, poll, delivered, overtaken>>

SendOver == send' = [step |-> "idle", reply |-> send.reply, task |-> NoTask]

\* The stream looked open: the reply waits for a place in the answer channel ...
SendAnswer ==
  /\ send.step = "answering" /\ answerCh[send.task] = NoReply
  /\ answerCh' = [answerCh EXCEPT ![send.task] = send.reply]
  /\ SendOver
  /\ UNCHANGED <<botRunning, taskVars, opened, passed, poll, delivered, overtaken>>

\* ... or the task is cancelled and the reply dropped.
SendDropped ==
  /\ send.step = "answering" /\ send.task \in cancelled
  /\ SendOver
  /\ UNCHANGED <<botRunning, taskVars, answerCh, opened, passed, poll, delivered, overtaken>>

\* The stream looked closed: the reply is posted to response_url, if there is one;
\* whatever comes of it, removeTask cancels the task ...
SendPost ==
  /\ send.step = "posting"
  /\ \/ send.task \in HasURL /\ Deliver(send.task, send.reply)
     \/ UNCHANGED delivered
  /\ cancelled' = cancelled \cup {send.task}
  /\ send' = [send EXCEPT !.step = "removing"]
  /\ UNCHANGED <<botRunning, streamTasks, chatTasks, streamClosed, finished, answerCh,
                 opened, passed, poll, overtaken>>

\* ... and takes it out of the maps.
SendRemove ==
  /\ send.step = "removing"
  /\ Remove(send.task)
  /\ SendOver
  /\ UNCHANGED <<botRunning, streamClosed, cancelled, answerCh, opened, passed, poll,
                 delivered, overtaken>>

-----------------------------------------------------------------------------
(* Time and cleanup                                                        *)

\* 30 s after the message, an hour after it, ten minutes after the stream closed.
Pass(t, limit) ==
  /\ t \in Opened /\ limit \notin passed[t]
  /\ limit = "lifetime" => "deadline" \in passed[t]
  /\ limit = "grace" => t \in streamClosed
  /\ passed' = [passed EXCEPT ![t] = @ \cup {limit}]
  /\ UNCHANGED <<botRunning, taskVars, answerCh, opened, poll, send, delivered, overtaken>>

Expired(t) ==
  "lifetime" \in passed[t] \/ (t \in streamClosed /\ "grace" \in passed[t])

\* Mutant of Cleanup: only streams that can still be polled are looked at.
CleanupStreams ==
  LET old == {t \in streamTasks : "lifetime" \in passed[t]} IN
  /\ botRunning
  /\ streamTasks' = streamTasks \ old
  /\ cancelled' = cancelled \cup old
  /\ chatTasks' = [c \in Chats |-> chatTasks[c] \ old]
  /\ Race(old)
  /\ UNCHANGED <<botRunning, streamClosed, finished, answerCh, opened, passed, poll,
                 send, delivered>>

\* cleanupOldTasks, in one critical section: tasks older than an hour leave both maps,
\* closed ones past their grace period the queues, and finished ones with them.
Cleanup ==
  LET old == {t \in Opened : Queued(t) /\ t \notin finished /\ Expired(t)}
      oldStreams == {t \in streamTasks : "lifetime" \in passed[t]} IN
  /\ botRunning
  /\ streamTasks' = streamTasks \ oldStreams
  /\ cancelled' = cancelled \cup old \cup oldStreams
  /\ chatTasks' = [c \in Chats |-> chatTasks[c] \ (old \cup oldStreams \cup finished)]
  /\ Race(oldStreams)
  /\ UNCHANGED <<botRunning, streamClosed, finished, answerCh, opened, passed, poll,
                 send, delivered>>

\* Stop: c.ctx is cancelled, and with it every task and the cleanup loop.
StopBot ==
  /\ botRunning
  /\ botRunning' = FALSE
  /\ cancelled' = cancelled \cup Opened
  /\ UNCHANGED <<streamTasks, chatTasks, streamClosed, finished, answerCh, opened, passed,
                 poll, send, delivered, overtaken>>

-----------------------------------------------------------------------------
Request(t) == PollAnswer(t) \/ PollEmpty(t) \/ PollClose(t) \/ PollRemove(t)
Sender == SendAnswer \/ SendDropped \/ SendPost \/ SendRemove

BotNext ==
  \/ \E t \in Tasks :
       \/ Callback(t) \/ PollFind(t)
       \/ PollAnswer(t) \/ PollEmpty(t) \/ PollClose(t) \/ PollRemove(t)
       \/ \E limit \in {"deadline", "grace", "lifetime"} : Pass(t, limit)
  \/ \E c \in Chats : SendLook(c)
  \/ SendAnswer \/ SendDropped \/ SendPost \/ SendRemove
  \/ Cleanup \/ StopBot

BotSpec == BotInit /\ [][BotNext]_botVars

\* A request or a Send that has begun goes on, time passes, the cleanup's ticker fires.
\* Nobody has to poll: WeCom may stop asking.
BotFairSpec ==
  /\ BotSpec
  /\ \A t \in Tasks : WF_botVars(Request(t))
  /\ WF_botVars(Sender)
  /\ \A t \in Tasks : WF_botVars(\E limit \in {"deadline", "grace", "lifetime"} : Pass(t, limit))
  /\ WF_botVars(Cleanup)

-----------------------------------------------------------------------------
BotTypeOK ==
  /\ botRunning \in BOOLEAN
  /\ streamTasks \subseteq Tasks /\ streamClosed \subseteq Tasks /\ finished \subseteq Tasks
  /\ cancelled \subseteq Tasks /\ opened \in Seq(Tasks) /\ overtaken \subseteq Nat
  /\ chatTasks \in [Chats -> SUBSET Tasks]
  /\ answerCh \in [Tasks -> Nat]
  /\ passed \in [Tasks -> SUBSET {"deadline", "grace", "lifetime"}]
  /\ poll \in [Tasks -> {"none", "reading", "removing", "closing"}]
  /\ send \in [step : {"idle", "answering", "posting", "removing"}, reply : Nat,
               task : Tasks \cup {NoTask}]
  /\ delivered \in [Chats -> Seq(Nat)]

\* A stream WeCom can still poll has its task in the queue of its chat, unfinished,
\* so that Send can find it; and no chat keeps a finished task.
PollableIsQueued ==
  \A t \in Tasks : (t \in streamTasks => Queued(t)) /\ (Queued(t) => t \notin finished)

\* Replies reach their chat in the order in which they were sent, whichever of the two
\* ways each takes; only one that was on its way when its task went may come late.
RepliesInOrder ==
  \A c \in Chats : \A i, k \in DOMAIN delivered[c] :
    i < k => delivered[c][i] < delivered[c][k] \/ delivered[c][k] \in overtaken

\* A reply is left behind in the answer channel of a task nobody polls any more only if
\* it was on its way when the stream closed or the task was removed.
StrandedNeedsRace ==
  \A t \in Tasks : answerCh[t] # NoReply /\ t \notin streamTasks /\ poll[t] = "none"
                     => answerCh[t] \in overtaken

\* Both: a stream that is polled can be answered, and a reply that nobody will read was
\* overtaken by the end of its stream.
TasksAnswerable == PollableIsQueued /\ StrandedNeedsRace

\* And replies keep their order.
BotSound == TasksAnswerable /\ RepliesInOrder

\* A Send that waits for a full answer channel does not hold the channel's worker for
\* ever, even if WeCom stops polling.
SendReturns == (send.step # "idle") ~> (send.step = "idle")
=============================================================================
