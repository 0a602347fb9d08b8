----------------------------- MODULE Subagents -----------------------------
(***************************************************************************)
(* pkg/tools/subagent.go, spawn.go and toolloop.go: rounds that spawn tasks *)
(* in the background, the tool loop of each task, and the announcement of   *)
(* its result to the agent loop over the inbound channel of the bus, which  *)
(* is published with the manager's lock held.                               *)
(*                                                                          *)
(* The agent loop is one round at a time and the only consumer of the bus;  *)
(* cron and heartbeat rounds run beside it.  What a task is about and what  *)
(* its tools do is left out.                                                *)
(***************************************************************************)
EXTENDS Naturals, Sequences

CONSTANTS
  SubTasks,      \* tasks that can be spawned
  MaxIterations, \* sm.maxIterations
  InboundSize,   \* capacity of the bus's inbound channel
  MaxUsers       \* bound on the messages of users

LoopRound == "loop"
Rounds == {LoopRound, "direct"}
NoTask == "none"
User == "user"

ASSUME SaAssumption ==
  /\ NoTask \notin SubTasks /\ User \notin SubTasks
  /\ MaxIterations \in Nat /\ InboundSize \in Nat /\ MaxUsers \in Nat

VARIABLES
  round,     \* round[r]: "idle", "running", "spawning"
  wants,     \* wants[r]: the task round r is spawning
  smLock,    \* the task that holds sm.mu, or NoTask
  task,      \* task[t]: "idle", "spawned", "looping", "ending", "publishing", "over"
  status,    \* task.Status, "" before the spawn
  spawnedBy, \* spawnedBy[t]: the round whose context the task has
  iteration, \* iteration[t] of RunToolLoop
  inbound,   \* the bus's inbound channel: users' messages and announcements
  users,     \* users' messages so far
  busClosed, \* Close of the bus has begun
  runCancelled, \* the context of Run and of its rounds is cancelled
  ended,     \* history: tasks in the order in which their status became final
  announced  \* history: announcements in the order in which the bus took them

saVars == <<round, wants, smLock, task, status, spawnedBy, iteration, inbound, users,
            busClosed, runCancelled, ended, announced>>

SaInit ==
  /\ round = [r \in Rounds |-> "idle"] /\ wants = [r \in Rounds |-> NoTask]
  /\ smLock = NoTask
  /\ task = [t \in SubTasks |-> "idle"] /\ status = [t \in SubTasks |-> ""]
  /\ spawnedBy = [t \in SubTasks |-> LoopRound] /\ iteration = [t \in SubTasks |-> 0]
  /\ inbound = <<>> /\ users = 0
  /\ busClosed = FALSE /\ runCancelled = FALSE
  /\ ended = <<>> /\ announced = <<>>

Room == Len(inbound) < InboundSize
Cancelled(t) == runCancelled /\ spawnedBy[t] = LoopRound

-----------------------------------------------------------------------------
(* Rounds                                                                  *)

UserMessage ==
  /\ users < MaxUsers /\ Room /\ ~busClosed
  /\ users' = users + 1 /\ inbound' = Append(inbound, User)
  /\ UNCHANGED <<round, wants, smLock, task, status, spawnedBy, iteration, busClosed,
                 runCancelled, ended, announced>>

\* Run takes the next message; one that announces a task starts a round as well.
LoopTake ==
  /\ round[LoopRound] = "idle" /\ inbound # <<>> /\ ~runCancelled
  /\ round' = [round EXCEPT ![LoopRound] = "running"]
  /\ inbound' = Tail(inbound)
  /\ UNCHANGED <<wants, smLock, task, status, spawnedBy, iteration, users, busClosed,
                 runCancelled, ended, announced>>

DirectStart ==
  /\ round["direct"] = "idle"
  /\ round' = [round EXCEPT !["direct"] = "running"]
  /\ UNCHANGED <<wants, smLock, task, status, spawnedBy, iteration, inbound, users,
                 busClosed, runCancelled, ended, announced>>

RoundEnd(r) ==
  /\ round[r] = "running"
  /\ round' = [round EXCEPT ![r] = "idle"]
  /\ UNCHANGED <<wants, smLock, task, status, spawnedBy, iteration, inbound, users,
                 busClosed, runCancelled, ended, announced>>

\* SpawnTool.Execute past its checks: Spawn wants the lock ...
SpawnCall(r, t) ==
  /\ round[r] = "running" /\ task[t] = "idle" /\ \A q \in Rounds : wants[q] # t
  /\ round' = [round EXCEPT ![r] = "spawning"]
  /\ wants' = [wants EXCEPT ![r] = t]
  /\ UNCHANGED <<smLock, task, status, spawnedBy, iteration, inbound, users, busClosed,
                 runCancelled, ended, announced>>

\* ... and starts the task's goroutine, with the context of the round.
SpawnDo(r) ==
  /\ round[r] = "spawning" /\ smLock = NoTask
  /\ round' = [round EXCEPT ![r] = "running"]
  /\ wants' = [wants EXCEPT ![r] = NoTask]
  /\ task' = [task EXCEPT ![wants[r]] = "spawned"]
  /\ status' = [status EXCEPT ![wants[r]] = "running"]
  /\ spawnedBy' = [spawnedBy EXCEPT ![wants[r]] = r]
  /\ UNCHANGED <<smLock, iteration, inbound, users, busClosed, runCancelled, ended, announced>>

-----------------------------------------------------------------------------
(* runTask                                                                 *)

\* A task whose context is over before it begins ends without an announcement.  Either
\* way it takes the lock, to set its status or to read the manager's settings; the
\* context may end after the check, while the task waits for it.
TaskBegin(t) ==
  /\ task[t] = "spawned"
  /\ smLock = NoTask
  /\ \/ /\ Cancelled(t)
        /\ task' = [task EXCEPT ![t] = "over"]
        /\ status' = [status EXCEPT ![t] = "canceled"]
     \/ /\ task' = [task EXCEPT ![t] = "looping"]
        /\ UNCHANGED status
  /\ UNCHANGED <<round, wants, smLock, spawnedBy, iteration, inbound, users, busClosed,
                 runCancelled, ended, announced>>

\* RunToolLoop: an iteration of LLM call and tool calls; the bound ends the loop
\* with what it has, an answer without tool calls and a failing LLM call end it, too.
TaskIterate(t) ==
  /\ task[t] = "looping" /\ iteration[t] < MaxIterations
  /\ iteration' = [iteration EXCEPT ![t] = @ + 1]
  /\ UNCHANGED <<round, wants, smLock, task, status, spawnedBy, inbound, users, busClosed,
                 runCancelled, ended, announced>>

TaskLoopEnds(t) ==
  /\ task[t] = "looping"
  /\ task' = [task EXCEPT ![t] = "ending"]
  /\ UNCHANGED <<round, wants, smLock, status, spawnedBy, iteration, inbound, users,
                 busClosed, runCancelled, ended, announced>>

\* Mutant of TaskLock: the status is set under the lock, the result announced after it.
TaskLockBriefly(t) ==
  /\ task[t] = "ending" /\ smLock = NoTask
  /\ task' = [task EXCEPT ![t] = "publishing"]
  /\ \E s \in {"completed", "failed"} : status' = [status EXCEPT ![t] = s]
  /\ ended' = Append(ended, t)
  /\ UNCHANGED <<round, wants, smLock, spawnedBy, iteration, inbound, users, busClosed,
                 runCancelled, announced>>

\* The end of runTask: the status under the lock, which is kept while the result is
\* announced.
TaskLock(t) ==
  /\ task[t] = "ending" /\ smLock = NoTask
  /\ smLock' = t
  /\ task' = [task EXCEPT ![t] = "publishing"]
  /\ \E s \in {"completed", IF Cancelled(t) THEN "canceled" ELSE "failed"} :
       status' = [status EXCEPT ![t] = s]
  /\ ended' = Append(ended, t)
  /\ UNCHANGED <<round, wants, spawnedBy, iteration, inbound, users, busClosed,
                 runCancelled, announced>>

Unlock(t) ==
  /\ task' = [task EXCEPT ![t] = "over"]
  /\ smLock' = NoTask

TaskPublish(t) ==
  /\ task[t] = "publishing" /\ Room
  /\ inbound' = Append(inbound, t) /\ announced' = Append(announced, t)
  /\ Unlock(t)
  /\ UNCHANGED <<round, wants, status, spawnedBy, iteration, users, busClosed, runCancelled,
                 ended>>

\* Mutant of TaskGivesUp: the announcement has no time-out.
TaskGivesUpClosed(t) ==
  /\ task[t] = "publishing" /\ busClosed
  /\ Unlock(t)
  /\ UNCHANGED <<round, wants, status, spawnedBy, iteration, inbound, users, busClosed,
                 runCancelled, ended, announced>>

\* A closed bus, or a full one for five seconds: the result is lost.
TaskGivesUp(t) ==
  /\ task[t] = "publishing" /\ (busClosed \/ ~Room)
  /\ Unlock(t)
  /\ UNCHANGED <<round, wants, status, spawnedBy, iteration, inbound, users, busClosed,
                 runCancelled, ended, announced>>

\* The gateway's shutdown: cancel() and then the bus's Close.
Shutdown ==
  /\ \/ ~runCancelled /\ runCancelled' = TRUE /\ UNCHANGED busClosed
     \/ runCancelled /\ ~busClosed /\ busClosed' = TRUE /\ UNCHANGED runCancelled
  /\ UNCHANGED <<round, wants, smLock, task, status, spawnedBy, iteration, inbound, users,
                 ended, announced>>

-----------------------------------------------------------------------------
SaNext ==
  \/ UserMessage \/ LoopTake \/ DirectStart \/ Shutdown
  \/ \E r \in Rounds : RoundEnd(r) \/ SpawnDo(r) \/ \E t \in SubTasks : SpawnCall(r, t)
  \/ \E t \in SubTasks :
       \/ TaskBegin(t) \/ TaskIterate(t) \/ TaskLoopEnds(t)
       \/ TaskLock(t) \/ TaskPublish(t) \/ TaskGivesUp(t)

SaSpec == SaInit /\ [][SaNext]_saVars

\* What each goroutine is about to do; that a loop goes round again is not needed.
TaskGoes(t) == TaskBegin(t) \/ TaskLoopEnds(t) \/ TaskLock(t) \/ TaskPublish(t) \/ TaskGivesUp(t)
SpawnGoes == \E r \in Rounds : SpawnDo(r)

SaFairSpec ==
  /\ SaSpec
  /\ \A t \in SubTasks : WF_saVars(TaskGoes(t))
  /\ WF_saVars(SpawnGoes)

-----------------------------------------------------------------------------
SaTypeOK ==
  /\ round \in [Rounds -> {"idle", "running", "spawning"}]
  /\ wants \in [Rounds -> SubTasks \cup {NoTask}] /\ smLock \in SubTasks \cup {NoTask}
  /\ task \in [SubTasks -> {"idle", "spawned", "looping", "ending", "publishing", "over"}]
  /\ status \in [SubTasks -> {"", "running", "completed", "failed", "canceled"}]
  /\ spawnedBy \in [SubTasks -> Rounds] /\ iteration \in [SubTasks -> 0..MaxIterations]
  /\ inbound \in Seq(SubTasks \cup {User}) /\ Len(inbound) <= InboundSize
  /\ users \in 0..MaxUsers /\ busClosed \in BOOLEAN /\ runCancelled \in BOOLEAN
  /\ ended \in Seq(SubTasks) /\ announced \in Seq(SubTasks)

\* The agent hears of its tasks in the order in which they ended, each at most once,
\* although their goroutines compete for the lock and some results are lost.
AnnouncedInOrder ==
  \A i, k \in DOMAIN announced :
    i < k => /\ announced[i] # announced[k]
             /\ \E a, b \in DOMAIN ended : a < b /\ ended[a] = announced[i] /\ ended[b] = announced[k]

\* A round that spawns a task goes on, also when it is the agent loop's, tasks hold
\* the lock, and the bus they wait for is full of messages only that loop would take.
SpawnReturns == \A r \in Rounds : (round[r] = "spawning") ~> (round[r] # "spawning")
=============================================================================
