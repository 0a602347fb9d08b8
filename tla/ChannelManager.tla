--------------------------- MODULE ChannelManager ---------------------------
(***************************************************************************)
(* pkg/channels/manager.go: the outbound side of the gateway.  One         *)
(* dispatcher per lane (text, media) takes messages off the bus and puts   *)
(* them into the bounded queue of the channel's worker; one worker per     *)
(* channel and lane waits for the rate limiter, sends and retries.         *)
(* StopAll and UnregisterChannel close the queues and wait for the         *)
(* workers, under the manager's write lock; SendToChannel bypasses the bus.*)
(*                                                                         *)
(* A message is the record that says where it goes and in how many parts   *)
(* SplitMessage cuts it.  What preSend finds recorded and what the         *)
(* platform answers are choices of the environment.  The process ends at   *)
(* the first panic.                                                        *)
(***************************************************************************)
EXTENDS Naturals, Sequences, FiniteSets

CONSTANTS
  Channels,    \* channels registered when StartAll runs
  BusMessages, \* the messages agents publish to the bus
  Callers,     \* goroutines that call SendToChannel, once each
  CallerMessage, \* what each of them sends
  Removable,   \* channels on which UnregisterChannel may be called
  MayStop,     \* whether StopAll is called
  NoMediaSender, \* channels that do not implement MediaSender
  QueueSize,   \* defaultChannelQueueSize (16)
  MaxRetries   \* maxRetries (3)

Lanes == {"text", "media"}
None == "none"

\* Channel names the bus may carry: registered ones, "system" and the other
\* internal names, and names nobody registered.
Internal == "internal"
Unknown == "unknown"

Messages == BusMessages \cup {CallerMessage[k] : k \in Callers}

ASSUME ManagerAssumption ==
  /\ Messages \subseteq [id : Nat, lane : Lanes, parts : Nat \ {0},
                         to : Channels \cup {Internal, Unknown}]
  /\ \A k \in Callers :
       /\ CallerMessage[k] \notin BusMessages
       /\ CallerMessage[k].lane = "text"
       /\ \A j \in Callers : CallerMessage[j] = CallerMessage[k] => j = k
  /\ Removable \subseteq Channels
  /\ Channels \cap {Internal, Unknown, None} = {}
  /\ QueueSize \in Nat \ {0}
  /\ MaxRetries \in Nat
  /\ MayStop \in BOOLEAN

VARIABLES
  registered,  \* keys of m.channels
  workers,     \* keys of m.workers
  busQ,        \* busQ[l]: outbound messages of lane l waiting in the bus
  disp,        \* disp[l]: the dispatcher, its step and the message it holds
  queue,       \* queue[l][c]: the worker queue of channel c
  qclosed,     \* qclosed[l][c]: that queue has been closed
  work,        \* work[l][c]: the worker, see NewWorker
  ctxDone,     \* dispatchCtx is cancelled
  stopPc,      \* where StopAll is
  removePc,    \* where UnregisterChannel is and on which channel
  caller,      \* caller[k]: where the SendToChannel call of k is
  panicked,    \* a send on a closed queue, or a call of a nil channel
  outcome,     \* history: outcome[m][i], what became of part i of m
  order,       \* history: bus messages in the order of their publication
  enqueued     \* history: messages that entered a worker queue

vars == <<registered, workers, busQ, disp, queue, qclosed, work, ctxDone, stopPc,
          removePc, caller, panicked, outcome, order, enqueued>>

NoMessage == [id |-> 0, lane |-> "text", parts |-> 1, to |-> Unknown]
NewWorker == [pc |-> "select", msg |-> NoMessage, part |-> 1, attempt |-> 0]

\* mu is held for writing from the lock of StopAll or UnregisterChannel to
\* their return; every other user takes it for reading around one lookup.
WriteLocked == \/ stopPc \notin {"running", "stopped"}
               \/ removePc # None

Published == {order[i] : i \in DOMAIN order}

\* StartAll: each channel whose Start succeeded gets a worker.
Init ==
  /\ registered = Channels
  /\ workers \in SUBSET Channels
  /\ busQ = [l \in Lanes |-> <<>>]
  /\ disp = [l \in Lanes |-> [pc |-> "subscribe", msg |-> NoMessage]]
  /\ queue = [l \in Lanes |-> [c \in Channels |-> <<>>]]
  /\ qclosed = [l \in Lanes |-> [c \in Channels |-> FALSE]]
  /\ work = [l \in Lanes |-> [c \in Channels |->
              [NewWorker EXCEPT !.pc = IF c \in workers THEN "select" ELSE None]]]
  /\ ctxDone = FALSE
  /\ stopPc = "running"
  /\ removePc = None
  /\ caller = [k \in Callers |-> "idle"]
  /\ panicked = FALSE
  /\ outcome = [m \in Messages |-> [i \in 1..m.parts |-> "none"]]
  /\ order = <<>>
  /\ enqueued = {}

\* An agent publishes to the bus (module MessageBus).
Publish(m) ==
  /\ m \notin Published
  /\ busQ' = [busQ EXCEPT ![m.lane] = Append(@, m)]
  /\ order' = Append(order, m)
  /\ UNCHANGED <<registered, workers, disp, queue, qclosed, work, ctxDone, stopPc,
                 removePc, caller, panicked, outcome, enqueued>>

-----------------------------------------------------------------------------
(* dispatchLoop                                                            *)

\* subscribe(ctx) returns a message, or false once the context has ended.
\* Messages to internal channels are skipped at once.
DispatchTake(l) ==
  /\ disp[l].pc = "subscribe"
  /\ busQ[l] # <<>>
  /\ busQ' = [busQ EXCEPT ![l] = Tail(@)]
  /\ disp' = IF Head(busQ[l]).to = Internal THEN disp
             ELSE [disp EXCEPT ![l] = [pc |-> "lookup", msg |-> Head(busQ[l])]]
  /\ UNCHANGED <<registered, workers, queue, qclosed, work, ctxDone, stopPc,
                 removePc, caller, panicked, outcome, order, enqueued>>

DispatchEnd(l) ==
  /\ disp[l].pc \in {"subscribe", "enqueue"}
  /\ ctxDone
  /\ disp' = [disp EXCEPT ![l] = [pc |-> "ended", msg |-> NoMessage]]
  /\ UNCHANGED <<registered, workers, busQ, queue, qclosed, work, ctxDone, stopPc,
                 removePc, caller, panicked, outcome, order, enqueued>>

\* The two map reads under RLock.  The worker found here is used after RUnlock.
DispatchLookup(l) ==
  LET m == disp[l].msg IN
  /\ disp[l].pc = "lookup"
  /\ ~WriteLocked
  /\ disp' = IF m.to \in registered \cap workers
             THEN [disp EXCEPT ![l].pc = "enqueue"]
             ELSE [disp EXCEPT ![l] = [pc |-> "subscribe", msg |-> NoMessage]]
  /\ UNCHANGED <<registered, workers, busQ, queue, qclosed, work, ctxDone, stopPc,
                 removePc, caller, panicked, outcome, order, enqueued>>

\* w.queue <- msg.  A send on a closed channel panics.
Enqueue(l, c, m) ==
  IF qclosed[l][c]
  THEN panicked' = TRUE /\ UNCHANGED <<queue, enqueued>>
  ELSE /\ Len(queue[l][c]) < QueueSize
       /\ queue' = [queue EXCEPT ![l][c] = Append(@, m)]
       /\ enqueued' = enqueued \cup {m}
       /\ UNCHANGED panicked

\* Mutant: a full queue sends the message to the end of the bus again.
DispatchEnqueueOrRequeue(l) ==
  LET m == disp[l].msg IN
  /\ disp[l].pc = "enqueue"
  /\ IF Len(queue[l][m.to]) < QueueSize
     THEN Enqueue(l, m.to, m) /\ UNCHANGED busQ
     ELSE busQ' = [busQ EXCEPT ![l] = Append(@, m)] /\ UNCHANGED <<queue, panicked, enqueued>>
  /\ disp' = [disp EXCEPT ![l] = [pc |-> "subscribe", msg |-> NoMessage]]
  /\ UNCHANGED <<registered, workers, qclosed, work, ctxDone, stopPc, removePc,
                 caller, outcome, order>>

DispatchEnqueue(l) ==
  /\ disp[l].pc = "enqueue"
  /\ Enqueue(l, disp[l].msg.to, disp[l].msg)
  /\ disp' = [disp EXCEPT ![l] = [pc |-> "subscribe", msg |-> NoMessage]]
  /\ UNCHANGED <<registered, workers, busQ, qclosed, work, ctxDone, stopPc, removePc,
                 caller, outcome, order>>

-----------------------------------------------------------------------------
(* runWorker, runMediaWorker, sendWithRetry, sendMediaWithRetry            *)

SetWorker(l, c, w) == work' = [work EXCEPT ![l][c] = w]

\* Mutant: the last part is sent first.
WorkerTakeLastPart(l, c) ==
  LET m == Head(queue[l][c]) IN
  /\ work[l][c].pc = "select"
  /\ queue[l][c] # <<>>
  /\ queue' = [queue EXCEPT ![l][c] = Tail(@)]
  /\ SetWorker(l, c, [pc |-> "limiter", msg |-> m, part |-> m.parts, attempt |-> 0])
  /\ UNCHANGED <<registered, workers, busQ, disp, qclosed, ctxDone, stopPc, removePc,
                 caller, panicked, outcome, order, enqueued>>

\* The worker's select: a message, a closed and empty queue, or ctx.Done().
\* Media for a channel without MediaSender is skipped.
WorkerTake(l, c) ==
  /\ work[l][c].pc = "select"
  /\ queue[l][c] # <<>>
  /\ queue' = [queue EXCEPT ![l][c] = Tail(@)]
  /\ IF l = "media" /\ c \in NoMediaSender
     THEN UNCHANGED work
     ELSE SetWorker(l, c, [pc |-> "limiter", msg |-> Head(queue[l][c]), part |-> 1,
                           attempt |-> 0])
  /\ UNCHANGED <<registered, workers, busQ, disp, qclosed, ctxDone, stopPc, removePc,
                 caller, panicked, outcome, order, enqueued>>

\* Mutant: a closed queue ends the worker although messages are left.
WorkerExitEarly(l, c) ==
  /\ work[l][c].pc = "select"
  /\ ctxDone \/ qclosed[l][c]
  /\ SetWorker(l, c, [NewWorker EXCEPT !.pc = "exited"])
  /\ UNCHANGED <<registered, workers, busQ, disp, queue, qclosed, ctxDone, stopPc,
                 removePc, caller, panicked, outcome, order, enqueued>>

WorkerExit(l, c) ==
  /\ work[l][c].pc = "select"
  /\ ctxDone \/ (qclosed[l][c] /\ queue[l][c] = <<>>)
  /\ SetWorker(l, c, [NewWorker EXCEPT !.pc = "exited"])
  /\ UNCHANGED <<registered, workers, busQ, disp, queue, qclosed, ctxDone, stopPc,
                 removePc, caller, panicked, outcome, order, enqueued>>

\* A part is finished with result r: the next part, or the next message.
FinishPart(l, c, r) ==
  LET w == work[l][c] IN
  /\ outcome' = [outcome EXCEPT ![w.msg][w.part] = r]
  /\ SetWorker(l, c, IF w.part < w.msg.parts
                     THEN [pc |-> "limiter", msg |-> w.msg, part |-> w.part + 1, attempt |-> 0]
                     ELSE NewWorker)

\* limiter.Wait(ctx) looks at the context first, then waits for a token.
WorkerLimiter(l, c) ==
  /\ work[l][c].pc = "limiter"
  /\ IF ctxDone
     THEN FinishPart(l, c, "dropped")
     ELSE SetWorker(l, c, [work[l][c] EXCEPT !.pc = "token"]) /\ UNCHANGED outcome
  /\ UNCHANGED <<registered, workers, busQ, disp, queue, qclosed, ctxDone, stopPc,
                 removePc, caller, panicked, order, enqueued>>

\* A token is there.  preSend may edit the text into a placeholder, and then
\* nothing is sent.
WorkerToken(l, c) ==
  /\ work[l][c].pc = "token"
  /\ \/ SetWorker(l, c, [work[l][c] EXCEPT !.pc = "send"]) /\ UNCHANGED outcome
     \/ l = "text" /\ FinishPart(l, c, "edited")
  /\ UNCHANGED <<registered, workers, busQ, disp, queue, qclosed, ctxDone, stopPc,
                 removePc, caller, panicked, order, enqueued>>

\* Mutant: one retry too many.
WorkerSendOneMore(l, c) ==
  LET w == work[l][c] IN
  /\ w.pc = "send"
  /\ \/ FinishPart(l, c, "sent")
     \/ /\ w.attempt > MaxRetries
        /\ FinishPart(l, c, "exhausted")
     \/ /\ w.attempt <= MaxRetries
        /\ outcome' = [outcome EXCEPT ![w.msg][w.part] = "failing"]
        /\ SetWorker(l, c, [w EXCEPT !.pc = "sleep"])
  /\ UNCHANGED <<registered, workers, busQ, disp, queue, qclosed, ctxDone, stopPc,
                 removePc, caller, panicked, order, enqueued>>

\* Mutant: a permanent error is retried like the others.
WorkerSendAlwaysRetrying(l, c) ==
  LET w == work[l][c] IN
  /\ w.pc = "send"
  /\ \/ FinishPart(l, c, "sent")
     \/ /\ w.attempt < MaxRetries
        /\ outcome' = [outcome EXCEPT ![w.msg][w.part] = "permanent"]
        /\ SetWorker(l, c, [w EXCEPT !.pc = "sleep"])
  /\ UNCHANGED <<registered, workers, busQ, disp, queue, qclosed, ctxDone, stopPc,
                 removePc, caller, panicked, order, enqueued>>

\* One attempt.  nil, ErrNotRunning and ErrSendFailed end the loop, and so does
\* any error of the last attempt; otherwise the worker sleeps.
WorkerSend(l, c) ==
  LET w == work[l][c] IN
  /\ w.pc = "send"
  /\ \/ FinishPart(l, c, "sent")
     \/ FinishPart(l, c, "permanent")
     \/ /\ w.attempt = MaxRetries
        /\ FinishPart(l, c, "exhausted")
     \/ /\ w.attempt < MaxRetries
        /\ outcome' = [outcome EXCEPT ![w.msg][w.part] = "failing"]
        /\ SetWorker(l, c, [w EXCEPT !.pc = "sleep"])
  /\ UNCHANGED <<registered, workers, busQ, disp, queue, qclosed, ctxDone, stopPc,
                 removePc, caller, panicked, order, enqueued>>

\* Mutant: the attempts are not counted.
WorkerRetryForever(l, c) ==
  /\ work[l][c].pc = "sleep"
  /\ SetWorker(l, c, [work[l][c] EXCEPT !.pc = "send"])
  /\ UNCHANGED <<registered, workers, busQ, disp, queue, qclosed, ctxDone, stopPc,
                 removePc, caller, panicked, outcome, order, enqueued>>

\* The backoff timer fires (fixed delay or exponential), or the context ends.
WorkerRetry(l, c) ==
  LET w == work[l][c] IN
  /\ w.pc = "sleep"
  /\ SetWorker(l, c, [pc |-> "send", msg |-> w.msg, part |-> w.part, attempt |-> w.attempt + 1])
  /\ UNCHANGED <<registered, workers, busQ, disp, queue, qclosed, ctxDone, stopPc,
                 removePc, caller, panicked, outcome, order, enqueued>>

\* The context ends while the worker waits for a token or for the timer.
WorkerGiveUp(l, c) ==
  /\ work[l][c].pc \in {"token", "sleep"}
  /\ ctxDone
  /\ FinishPart(l, c, "dropped")
  /\ UNCHANGED <<registered, workers, busQ, disp, queue, qclosed, ctxDone, stopPc,
                 removePc, caller, panicked, order, enqueued>>

-----------------------------------------------------------------------------
(* StopAll                                                                 *)

\* m.mu.Lock(); dispatchTask.cancel()
StopLock ==
  /\ MayStop
  /\ stopPc = "running"
  /\ ~WriteLocked
  /\ stopPc' = "cancelled"
  /\ ctxDone' = TRUE
  /\ UNCHANGED <<registered, workers, busQ, disp, queue, qclosed, work, removePc,
                 caller, panicked, outcome, order, enqueued>>

CloseQueues(l, cs) ==
  qclosed' = [qclosed EXCEPT ![l] = [c \in Channels |-> @[c] \/ c \in cs]]

\* close(w.queue) of every worker, then wait for every w.done.
StopCloseText ==
  /\ stopPc = "cancelled"
  /\ CloseQueues("text", workers)
  /\ stopPc' = "waitText"
  /\ UNCHANGED <<registered, workers, busQ, disp, queue, work, ctxDone, removePc,
                 caller, panicked, outcome, order, enqueued>>

Exited(l, cs) == \A c \in cs : work[l][c].pc = "exited"

StopCloseMedia ==
  /\ stopPc = "waitText"
  /\ Exited("text", workers)
  /\ CloseQueues("media", workers)
  /\ stopPc' = "waitMedia"
  /\ UNCHANGED <<registered, workers, busQ, disp, queue, work, ctxDone, removePc,
                 caller, panicked, outcome, order, enqueued>>

\* Mutant: the media workers are not waited for.
StopChannelsEarly ==
  /\ stopPc = "waitMedia"
  /\ stopPc' = "stopped"
  /\ UNCHANGED <<registered, workers, busQ, disp, queue, qclosed, work, ctxDone,
                 removePc, caller, panicked, outcome, order, enqueued>>

\* channel.Stop of every channel, and the return.
StopChannels ==
  /\ stopPc = "waitMedia"
  /\ Exited("media", workers)
  /\ stopPc' = "stopped"
  /\ UNCHANGED <<registered, workers, busQ, disp, queue, qclosed, work, ctxDone,
                 removePc, caller, panicked, outcome, order, enqueued>>

-----------------------------------------------------------------------------
(* UnregisterChannel                                                       *)

\* The text queue is closed at once, the media queue when the text worker is
\* done, and the entries go when the media worker is done.  A queue that
\* StopAll has closed already is closed twice.
Unregister(c) ==
  /\ removePc = None
  /\ ~WriteLocked
  /\ c \in registered
  /\ removePc' = c
  /\ IF c \in workers
     THEN /\ CloseQueues("text", {c})
          /\ panicked' = qclosed["text"][c]
     ELSE UNCHANGED <<qclosed, panicked>>
  /\ UNCHANGED <<registered, workers, busQ, disp, queue, work, ctxDone, stopPc, caller,
                 outcome, order, enqueued>>

UnregisterMedia(c) ==
  /\ removePc = c
  /\ c \in workers
  /\ work["text"][c].pc = "exited"
  /\ ~qclosed["media"][c]
  /\ CloseQueues("media", {c})
  /\ UNCHANGED <<registered, workers, busQ, disp, queue, work, ctxDone, stopPc,
                 removePc, caller, panicked, outcome, order, enqueued>>

UnregisterDelete(c) ==
  /\ removePc = c
  /\ c \in workers => qclosed["media"][c] /\ work["media"][c].pc = "exited"
  /\ registered' = registered \ {c}
  /\ workers' = workers \ {c}
  /\ removePc' = None
  /\ UNCHANGED <<busQ, disp, queue, qclosed, work, ctxDone, stopPc, caller, panicked,
                 outcome, order, enqueued>>

-----------------------------------------------------------------------------
(* SendToChannel                                                           *)

ToCaller(k, pc) == caller' = [caller EXCEPT ![k] = pc]

\* The lookup under RLock: an unknown channel is an error, a channel without
\* a worker is sent to directly.
CallerLookup(k) ==
  LET c == CallerMessage[k].to IN
  /\ caller[k] = "idle"
  /\ ~WriteLocked
  /\ ToCaller(k, IF c \notin registered THEN "returned"
                 ELSE IF c \in workers THEN "enqueue" ELSE "direct")
  /\ UNCHANGED <<registered, workers, busQ, disp, queue, qclosed, work, ctxDone, stopPc,
                 removePc, panicked, outcome, order, enqueued>>

CallerEnqueue(k) ==
  /\ caller[k] = "enqueue"
  /\ Enqueue("text", CallerMessage[k].to, CallerMessage[k])
  /\ ToCaller(k, "returned")
  /\ UNCHANGED <<registered, workers, busQ, disp, qclosed, work, ctxDone, stopPc,
                 removePc, outcome, order>>

\* The caller's own context ends while the queue is full.
CallerCancelled(k) ==
  /\ caller[k] = "enqueue"
  /\ ToCaller(k, "returned")
  /\ UNCHANGED <<registered, workers, busQ, disp, queue, qclosed, work, ctxDone, stopPc,
                 removePc, panicked, outcome, order, enqueued>>

\* The fallback reads m.channels again, without the lock.
CallerDirect(k) ==
  LET m == CallerMessage[k] IN
  /\ caller[k] = "direct"
  /\ IF m.to \in registered
     THEN /\ \E r \in {"sent", "permanent"} : outcome' = [outcome EXCEPT ![m][1] = r]
          /\ UNCHANGED panicked
     ELSE panicked' = TRUE /\ UNCHANGED outcome
  /\ ToCaller(k, "returned")
  /\ UNCHANGED <<registered, workers, busQ, disp, queue, qclosed, work, ctxDone, stopPc,
                 removePc, order, enqueued>>

-----------------------------------------------------------------------------
Dispatch(l) == \/ DispatchTake(l)
               \/ DispatchEnd(l)
               \/ DispatchLookup(l)
               \/ DispatchEnqueue(l)

Worker(l, c) == \/ WorkerTake(l, c)
                \/ WorkerExit(l, c)
                \/ WorkerLimiter(l, c)
                \/ WorkerToken(l, c)
                \/ WorkerSend(l, c)
                \/ WorkerRetry(l, c)
                \/ WorkerGiveUp(l, c)

Stop == StopLock \/ StopCloseText \/ StopCloseMedia \/ StopChannels

Remove(c) == Unregister(c) \/ UnregisterMedia(c) \/ UnregisterDelete(c)

Caller(k) == \/ CallerLookup(k)
             \/ CallerEnqueue(k)
             \/ CallerCancelled(k)
             \/ CallerDirect(k)

Next ==
  /\ ~panicked
  /\ \/ \E m \in BusMessages : Publish(m)
     \/ \E l \in Lanes : Dispatch(l)
     \/ \E l \in Lanes, c \in Channels : Worker(l, c)
     \/ Stop
     \/ \E c \in Removable : Remove(c)
     \/ \E k \in Callers : Caller(k)

Spec == Init /\ [][Next]_vars

\* Goroutines that can run do run: the dispatchers, the workers (a Send always
\* returns, a timer fires), a StopAll and an UnregisterChannel that have begun.
\* Nobody has to publish, to stop or to unregister.
Fairness ==
  /\ \A l \in Lanes : WF_vars(~panicked /\ Dispatch(l))
  /\ \A l \in Lanes, c \in Channels : WF_vars(~panicked /\ Worker(l, c))
  /\ WF_vars(~panicked /\ (StopCloseText \/ StopCloseMedia \/ StopChannels))
  /\ \A c \in Removable : WF_vars(~panicked /\ (UnregisterMedia(c) \/ UnregisterDelete(c)))

FairSpec == Spec /\ Fairness

-----------------------------------------------------------------------------
(* Properties                                                              *)

Final == {"sent", "edited", "permanent", "exhausted", "dropped"}
WorkerPcs == {None, "select", "limiter", "token", "send", "sleep", "exited"}

TypeOK ==
  /\ registered \subseteq Channels
  /\ workers \subseteq registered
  /\ busQ \in [Lanes -> Seq(BusMessages)]
  /\ disp \in [Lanes -> [pc : {"subscribe", "lookup", "enqueue", "ended"},
                         msg : BusMessages \cup {NoMessage}]]
  /\ queue \in [Lanes -> [Channels -> Seq(Messages)]]
  /\ \A l \in Lanes, c \in Channels : Len(queue[l][c]) <= QueueSize
  /\ qclosed \in [Lanes -> [Channels -> BOOLEAN]]
  /\ work \in [Lanes -> [Channels ->
       [pc : WorkerPcs, msg : Messages \cup {NoMessage},
        part : Nat \ {0}, attempt : 0..MaxRetries]]]
  /\ ctxDone \in BOOLEAN
  /\ stopPc \in {"running", "cancelled", "waitText", "waitMedia", "stopped"}
  /\ removePc \in Channels \cup {None}
  /\ caller \in [Callers -> {"idle", "enqueue", "direct", "returned"}]
  /\ panicked \in BOOLEAN
  /\ \A m \in Messages : outcome[m] \in [1..m.parts -> Final \cup {"none", "failing"}]
  /\ order \in Seq(BusMessages)
  /\ enqueued \subseteq Messages

\* m is on its way between the bus and the end of its worker's turn.
InFlight(m) ==
  \/ \E i \in DOMAIN busQ[m.lane] : busQ[m.lane][i] = m
  \/ disp[m.lane].msg = m
  \/ \E c \in Channels : \/ \E i \in DOMAIN queue[m.lane][c] : queue[m.lane][c][i] = m
                         \/ work[m.lane][c].msg = m

Attempted(m) == \E i \in 1..m.parts : outcome[m][i] # "none"

\* A chat sees its messages in the order the agent published them, whatever is
\* retried, rate limited or dropped on the way: nothing of a message is tried
\* while an earlier one of the same channel and lane is still on its way, and the
\* parts of a long message go out one after the other.
DeliveredInOrder ==
  /\ \A i, j \in DOMAIN order :
       (/\ i < j
        /\ order[i].lane = order[j].lane
        /\ order[i].to = order[j].to
        /\ Attempted(order[j])) => ~InFlight(order[i])
  /\ \A m \in Messages : \A i \in 2..m.parts :
       outcome[m][i] # "none" => outcome[m][i - 1] \in Final

Delivery(m) == \A i \in 1..m.parts : outcome[m][i] \in Final \ {"dropped"}

\* When StopAll has returned no worker is left that could still call Send on a stopped
\* channel; and when UnregisterChannel has removed a channel and nobody cancelled the
\* workers, everything that had entered its queues has been tried to the end.
ClosedQueuesAreDone ==
  /\ stopPc = "stopped" =>
       \A l \in Lanes, c \in Channels : work[l][c].pc \in {None, "exited"}
  /\ \A m \in enqueued :
       m.to \notin registered /\ ~ctxDone =>
         Delivery(m) \/ (m.lane = "media" /\ m.to \in NoMediaSender)

\* What the comment in StopAll says ("close all worker queues and wait for them
\* to drain"): when it returns, what had entered a queue has been tried.
StopDrains ==
  stopPc = "stopped" => \A m \in enqueued : m.lane = "text" => Delivery(m)

\* What README 5.3 says of the worker queues ("inherently concurrent-safe") and
\* the order of StopAll (dispatchers first, queues second) is there for.
NoSendOnClosedQueue == ~panicked

\* StopAll returns, however many messages are queued, blocked or being retried,
\* unless a send on a closed queue ends the process first.
StopReturns == (stopPc # "running") ~> (stopPc = "stopped" \/ panicked)

\* Without a shutdown every published message of a channel with a worker is
\* tried to the end: no full queue, retry or failed message blocks the rest.
EveryMessageTried ==
  \A m \in BusMessages :
    (m \in Published /\ m.to \in workers)
      ~> (\/ Delivery(m)
          \/ m.lane = "media" /\ m.to \in NoMediaSender
          \/ ctxDone \/ panicked \/ m.to \notin registered)

\* Both: nothing that waits in a worker or a dispatcher waits for ever.
QueuesMove == StopReturns /\ EveryMessageTried

=============================================================================
