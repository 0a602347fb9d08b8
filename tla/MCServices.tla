--------------------------- MODULE MCServices ---------------------------
(* Small instances of services with liveness properties.  They share no     *)
(* state, so that a behaviour of this module is a behaviour of one of them, *)
(* chosen by part in the initial state.                                     *)
EXTENDS MediaStore, CronService, Subagents

VARIABLES part, kind, running, contextEnded, stopPc, stopTodo, acceptor, listening, loopAt,
  table, closed, left, silent, count, sendPc, owed, visited, stable, taken, attempt, heard

OwnPaths == [r \in Refs |-> IF r = "r1" THEN "p1" ELSE IF r = "r2" THEN "p2" ELSE "p3"]
TwoInA == [r \in Refs |-> IF r = "r3" THEN "sB" ELSE "sA"]
OnceThenEvery == <<[kind |-> "at", time |-> 2], [kind |-> "every", time |-> 1]>>

MediaVars == <<files, store, refs, scopeToRefs, scopes, refToScope, expired, toRemove, cleaner,
  stopped, kept>>

CronVars == <<nowMS, service, jobs, jobsFile, batch, cur, copies, cli, used, faults, runs,
  lapsed>>

SubVars == <<round, wants, smLock, task, status, spawnedBy, iteration, inbound, users,
  busClosed, runCancelled, ended, announced>>

Sockets == INSTANCE SocketServers WITH
  ServerKinds <- {"pico", "maixcam"}, Clients <- {"c1"}, Listeners <- {"c1"}, Leaving <- {"c1"},
  Limit <- 1, SendRetries <- 1
SocketsVars == <<kind, running, contextEnded, stopPc, stopTodo, acceptor, listening, loopAt,
  table, closed, left, silent, count, sendPc, owed, visited, stable, taken, attempt, heard>>

ButMedia == <<part, CronVars, SubVars, SocketsVars>>
ButCron == <<part, MediaVars, SubVars, SocketsVars>>
ButSub == <<part, MediaVars, CronVars, SocketsVars>>
ButSockets == <<part, MediaVars, CronVars, SubVars>>

AllVars == <<part, MediaVars, CronVars, SubVars, SocketsVars>>

SInit ==
  /\ part \in {"media", "cron", "subagents", "sockets"}
  /\ Init /\ CronInit /\ SaInit /\ Sockets!SvInit

SNext ==
  \/ part = "media" /\ Next /\ UNCHANGED ButMedia
  \/ part = "cron" /\ CronNext /\ UNCHANGED ButCron
  \/ part = "subagents" /\ SaNext /\ UNCHANGED ButSub
  \/ part = "sockets" /\ Sockets!SvNext /\ UNCHANGED ButSockets

SSpec ==
  /\ SInit /\ [][SNext]_AllVars
  /\ \A r \in Refs : WF_AllVars(part = "media" /\ Age(r) /\ UNCHANGED ButMedia)
  /\ WF_AllVars(part = "media" /\ Clean /\ UNCHANGED ButMedia)
  /\ WF_AllVars(part = "media" /\ CleanerEnds /\ UNCHANGED ButMedia)
  /\ \A d \in Deleters : WF_AllVars(part = "media" /\ (\E p \in Paths : Remove(d, p)) /\ UNCHANGED ButMedia)
  /\ WF_AllVars(part = "cron" /\ Loop /\ UNCHANGED ButCron)
  /\ \A t \in SubTasks : WF_AllVars(part = "subagents" /\ TaskGoes(t) /\ UNCHANGED ButSub)
  /\ WF_AllVars(part = "subagents" /\ SpawnGoes /\ UNCHANGED ButSub)
  /\ WF_AllVars(part = "sockets" /\ Sockets!Writing /\ UNCHANGED ButSockets)
  /\ WF_AllVars(part = "sockets" /\ Sockets!Loop("c1") /\ UNCHANGED ButSockets)

ConnectionsEnd == Sockets!ConnectionsEnd
=============================================================================
