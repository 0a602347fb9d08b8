---------------------------- MODULE CronService ----------------------------
(***************************************************************************)
(* pkg/cron/service.go with its callers: the cron tool of the agents        *)
(* (pkg/tools/cron.go), the gateway that starts and stops the service, and  *)
(* the cron commands of the command line, each a process of its own that    *)
(* loads jobs.json, changes its copy and saves it.                          *)
(*                                                                          *)
(* A job is its id, numbered in the order of creation (jobs run in that     *)
(* order), with a schedule that never changes; what changes is whether it   *)
(* is enabled and when it runs next.  Texts, names and statuses are left    *)
(* out.  A save is atomic (fileutil.WriteFileAtomic) and may fail.          *)
(***************************************************************************)
EXTENDS Naturals, FiniteSets

CONSTANTS
  JobIds,   \* ids generateID may return, in the order of creation
  Schedule, \* Schedule[j]: [kind |-> "at" or "every", time |-> instant or period]
  Kept,     \* one-time jobs whose DeleteAfterRun is false (an edited jobs.json)
  Initial,  \* jobs in jobs.json when the model begins
  MaxTime,  \* bound on the clock
  MaxFaults \* bound on failing saves, crashes and commands of the command line

ASSUME CronAssumption ==
  /\ JobIds \subseteq Nat \ {0}
  /\ Schedule \in [JobIds -> [kind : {"at", "every"}, time : Nat]]
  /\ Initial \subseteq JobIds /\ Kept \subseteq Initial
  /\ MaxTime \in Nat /\ MaxFaults \in Nat

Never == 0     \* NextRunAtMS == nil; the clock starts at 1
NoJob == 0     \* no job is being executed
Job == [enabled : BOOLEAN, next : Nat]
IsStore(s) == /\ s = [j \in DOMAIN s |-> s[j]]
              /\ DOMAIN s \subseteq JobIds /\ \A j \in DOMAIN s : s[j] \in Job
Closed == [jobs |-> [j \in {} |-> [enabled |-> TRUE, next |-> Never]], open |-> FALSE]

VARIABLES
  nowMS,    \* the clock
  service,  \* the gateway: "down", "loaded", "running", "stopped"
  jobs,     \* cs.store.Jobs: the jobs in memory
  jobsFile, \* jobs.json
  batch,    \* dueJobIDs of the checkJobs call under way, without those done
  cur,      \* the job of executeJobByID under way, or NoJob
  copies,   \* copies[j]: AddJob's result that CronTool.addJob is about to update
  cli,      \* the copy of jobs.json a cron command has loaded
  used,     \* ids that have been generated
  faults,   \* failing saves, crashes and commands so far
  runs,     \* history: runs[j]: how often the one-time job j was handed to onJob
  lapsed    \* history: jobs for which computeNextRun has returned nil

cronVars == <<nowMS, service, jobs, jobsFile, batch, cur, copies, cli, used, faults, runs, lapsed>>

NoJobs == [j \in {} |-> [enabled |-> TRUE, next |-> Never]]
WithJob(store, j, job) == [k \in DOMAIN store \cup {j} |-> IF k = j THEN job ELSE store[k]]
Without(store, j) == [k \in DOMAIN store \ {j} |-> store[k]]

OneTime(j) == Schedule[j].kind = "at"

\* computeNextRun: a one-time job only in the future, a period only if positive.
ComputeNext(j, t) ==
  CASE Schedule[j].kind = "at" /\ Schedule[j].time > t -> Schedule[j].time
    [] Schedule[j].kind = "every" /\ Schedule[j].time > 0 -> t + Schedule[j].time
    [] OTHER -> Never

NewJob(j) == [enabled |-> TRUE, next |-> ComputeNext(j, nowMS)]
Switched(j, on) == [enabled |-> on, next |-> IF on THEN ComputeNext(j, nowMS) ELSE Never]
Due(j) == /\ j \in DOMAIN jobs
          /\ jobs[j].enabled /\ jobs[j].next # Never /\ jobs[j].next <= nowMS

\* saveStoreUnsafe: the file becomes the store, or stays as it was.
SaveStore(store) ==
  \/ jobsFile' = store /\ UNCHANGED faults
  \/ faults < MaxFaults /\ faults' = faults + 1 /\ UNCHANGED jobsFile

CronInit ==
  /\ nowMS = 1
  /\ service = "down"
  /\ jobs = NoJobs
  /\ jobsFile = [j \in Initial |-> NewJob(j)]
  /\ batch = {} /\ cur = NoJob
  /\ copies = NoJobs
  /\ cli = Closed
  /\ used = Initial
  /\ faults = 0
  /\ runs = [j \in JobIds |-> 0]
  /\ lapsed = {}

-----------------------------------------------------------------------------
Tick ==
  /\ nowMS < MaxTime
  /\ nowMS' = nowMS + 1
  /\ UNCHANGED <<service, jobs, jobsFile, batch, cur, copies, cli, used, faults, runs,
                 lapsed>>

\* NewCronService: the store is loaded when the gateway is set up.
Load ==
  /\ service = "down"
  /\ service' = "loaded"
  /\ jobs' = jobsFile
  /\ UNCHANGED <<nowMS, jobsFile, batch, cur, copies, cli, used, faults, runs, lapsed>>

Recomputed(store) ==
  [j \in DOMAIN store |-> IF store[j].enabled
                          THEN [store[j] EXCEPT !.next = ComputeNext(j, nowMS)]
                          ELSE store[j]]

\* StartCron: load again, recompute every next run, save; a failing save ends it.
StartCron ==
  /\ service = "loaded"
  /\ jobs' = Recomputed(jobsFile)
  /\ lapsed' = lapsed \cup {j \in DOMAIN jobsFile : jobsFile[j].enabled /\ ComputeNext(j, nowMS) = Never}
  /\ \/ jobsFile' = jobs' /\ service' = "running" /\ UNCHANGED faults
     \/ /\ faults < MaxFaults /\ faults' = faults + 1
        /\ service' = "stopped" /\ UNCHANGED jobsFile
  /\ UNCHANGED <<nowMS, batch, cur, copies, cli, used, runs>>

StopCron ==
  /\ service = "running"
  /\ service' = "stopped"
  /\ UNCHANGED <<nowMS, jobs, jobsFile, batch, cur, copies, cli, used, faults, runs, lapsed>>

\* The process dies: what was in memory is gone.
GatewayDies ==
  /\ service # "down" /\ faults < MaxFaults
  /\ faults' = faults + 1
  /\ service' = "down"
  /\ jobs' = NoJobs /\ batch' = {} /\ cur' = NoJob /\ copies' = NoJobs
  /\ UNCHANGED <<nowMS, jobsFile, cli, used, runs, lapsed>>

-----------------------------------------------------------------------------
\* checkJobs: due jobs lose their next run, which is saved, before any is executed.
CheckJobs ==
  /\ service = "running" /\ batch = {}
  /\ batch' = {j \in DOMAIN jobs : Due(j)}
  /\ jobs' = [j \in DOMAIN jobs |-> IF Due(j) THEN [jobs[j] EXCEPT !.next = Never]
                                              ELSE jobs[j]]
  /\ SaveStore(jobs')
  /\ UNCHANGED <<nowMS, service, cur, copies, cli, used, runs, lapsed>>

NextDue == CHOOSE j \in batch : \A k \in batch : j <= k

\* executeJobByID: a copy of the job is handed to onJob without the lock,
\* whatever has become of the job but its removal.
JobBegin ==
  /\ batch # {} /\ cur = NoJob
  /\ IF NextDue \in DOMAIN jobs
     THEN /\ cur' = NextDue
          /\ runs' = IF OneTime(NextDue) THEN [runs EXCEPT ![NextDue] = @ + 1] ELSE runs
          /\ UNCHANGED batch
     ELSE batch' = batch \ {NextDue} /\ UNCHANGED <<cur, runs>>
  /\ UNCHANGED <<nowMS, service, jobs, jobsFile, copies, cli, used, faults, lapsed>>

Finished(j) ==
  IF OneTime(j)
  THEN IF j \in Kept THEN WithJob(jobs, j, [enabled |-> FALSE, next |-> Never])
       ELSE Without(jobs, j)
  ELSE [jobs EXCEPT ![j].next = ComputeNext(j, nowMS)]

\* Mutant of JobEnd: it writes the job it executed, not the job it finds.
JobEndBlind ==
  /\ cur # NoJob
  /\ jobs' = WithJob(jobs, cur, [enabled |-> TRUE, next |-> ComputeNext(cur, nowMS)])
  /\ SaveStore(jobs')
  /\ batch' = batch \ {cur} /\ cur' = NoJob
  /\ UNCHANGED <<nowMS, service, copies, cli, used, runs, lapsed>>

\* Mutant of JobEnd: only successful runs are scheduled again.
JobEndUnscheduled ==
  /\ cur # NoJob
  /\ SaveStore(jobs) /\ UNCHANGED jobs
  /\ batch' = batch \ {cur} /\ cur' = NoJob
  /\ UNCHANGED <<nowMS, service, copies, cli, used, runs, lapsed>>

\* Mutant of JobEnd: the loop stays with the job.
JobEndStuck == JobEndBlind /\ FALSE

\* executeJobByID after onJob: the job is looked up again, under the lock.
JobEnd ==
  /\ cur # NoJob
  /\ IF cur \in DOMAIN jobs
     THEN /\ jobs' = Finished(cur)
          /\ SaveStore(jobs')
          /\ lapsed' = IF ~OneTime(cur) /\ ComputeNext(cur, nowMS) = Never
                     THEN lapsed \cup {cur} ELSE lapsed
     ELSE UNCHANGED <<jobs, jobsFile, faults, lapsed>>
  /\ batch' = batch \ {cur} /\ cur' = NoJob
  /\ UNCHANGED <<nowMS, service, copies, cli, used, runs>>

-----------------------------------------------------------------------------
Serving == service \in {"running", "stopped"}
Computed(j) == IF ComputeNext(j, nowMS) = Never THEN lapsed \cup {j} ELSE lapsed

\* AddJob by the cron tool.  A failing save is reported as an error, but the job
\* stays in memory.  With a command, addJob goes on to update its copy.
AddJob(j) ==
  /\ Serving /\ j \in JobIds \ used /\ \A k \in JobIds \ used : j <= k
  /\ used' = used \cup {j}
  /\ jobs' = WithJob(jobs, j, NewJob(j))
  /\ lapsed' = Computed(j)
  /\ SaveStore(jobs')
  /\ \/ UNCHANGED copies
     \/ jobsFile' = jobs' /\ copies' = WithJob(copies, j, NewJob(j))
  /\ UNCHANGED <<nowMS, service, batch, cur, cli, runs>>

\* Mutant of UpdateJob: a job that is not found is added.
UpdateOrAddJob(j) ==
  /\ j \in DOMAIN copies
  /\ copies' = Without(copies, j)
  /\ jobs' = WithJob(jobs, j, copies[j])
  /\ SaveStore(jobs')
  /\ UNCHANGED <<nowMS, service, batch, cur, cli, used, runs, lapsed>>

\* UpdateJob: the whole job is replaced by the caller's copy.
UpdateJob(j) ==
  /\ j \in DOMAIN copies
  /\ copies' = Without(copies, j)
  /\ IF j \in DOMAIN jobs
     THEN /\ jobs' = [jobs EXCEPT ![j] = copies[j]]
          /\ SaveStore(jobs')
      ELSE UNCHANGED <<jobs, jobsFile, faults>>
  /\ UNCHANGED <<nowMS, service, batch, cur, cli, used, runs, lapsed>>

RemoveJob(j) ==
  /\ Serving /\ j \in DOMAIN jobs
  /\ jobs' = Without(jobs, j)
  /\ SaveStore(jobs')
  /\ UNCHANGED <<nowMS, service, batch, cur, copies, cli, used, runs,
                 lapsed>>

EnableJob(j, on) ==
  /\ Serving /\ j \in DOMAIN jobs
  /\ jobs' = WithJob(jobs, j, Switched(j, on))
  /\ lapsed' = IF on THEN Computed(j) ELSE lapsed
  /\ SaveStore(jobs')
  /\ UNCHANGED <<nowMS, service, batch, cur, copies, cli, used, runs>>

-----------------------------------------------------------------------------
\* A cron command of the command line loads the file ...
CliLoad ==
  /\ ~cli.open /\ faults < MaxFaults
  /\ faults' = faults + 1
  /\ cli' = [jobs |-> jobsFile, open |-> TRUE]
  /\ UNCHANGED <<nowMS, service, jobs, jobsFile, batch, cur, copies, used,
                 runs, lapsed>>

\* ... and saves its copy with one job added, removed, enabled or disabled.
CliWrite(store) ==
  /\ cli.open /\ cli' = Closed
  /\ SaveStore(store)
  /\ UNCHANGED <<nowMS, service, jobs, batch, cur, copies, runs, lapsed>>

CliAdd(j) ==
  /\ j \in JobIds \ used /\ \A k \in JobIds \ used : j <= k
  /\ ~OneTime(j) /\ Schedule[j].time > 0
  /\ used' = used \cup {j}
  /\ CliWrite(WithJob(cli.jobs, j, NewJob(j)))

CliRemove(j) == j \in DOMAIN cli.jobs /\ CliWrite(Without(cli.jobs, j)) /\ UNCHANGED used

CliEnable(j, on) ==
  j \in DOMAIN cli.jobs /\ CliWrite(WithJob(cli.jobs, j, Switched(j, on))) /\ UNCHANGED used

-----------------------------------------------------------------------------
Loop == CheckJobs \/ JobBegin \/ JobEnd

CronNext ==
  \/ Tick \/ Load \/ StartCron \/ StopCron \/ GatewayDies
  \/ CheckJobs \/ JobBegin \/ JobEnd
  \/ CliLoad
  \/ \E j \in JobIds :
       \/ AddJob(j) \/ UpdateJob(j) \/ RemoveJob(j) \/ CliAdd(j) \/ CliRemove(j)
       \/ \E on \in BOOLEAN : EnableJob(j, on) \/ CliEnable(j, on)

CronSpec == CronInit /\ [][CronNext]_cronVars

\* The loop's goroutine goes on: its ticker fires, and a job's command or round ends.
CronFairSpec == CronSpec /\ WF_cronVars(Loop)

-----------------------------------------------------------------------------
\* The variables keep their types, and a running job belongs to the batch.
CronTypeOK ==
  /\ nowMS \in Nat
  /\ service \in {"down", "loaded", "running", "stopped"}
  /\ IsStore(jobs) /\ IsStore(jobsFile) /\ IsStore(copies)
  /\ cli = [jobs |-> cli.jobs, open |-> cli.open]
  /\ IsStore(cli.jobs) /\ cli.open \in BOOLEAN
  /\ batch \in SUBSET JobIds /\ cur \in batch \cup {NoJob}
  /\ used \in SUBSET JobIds /\ lapsed \in SUBSET JobIds
  /\ faults \in Nat
  /\ runs \in [JobIds -> Nat]

\* A one-time job is handed to the agent at most once, over restarts, failing saves,
\* cron commands, and updates with a copy from before the job was claimed.
OneTimeRunsOnce == \A j \in JobIds : runs[j] <= 1

\* No enabled job is forgotten by a running service: it has a next run, is in the
\* batch under way, or computeNextRun has found none for it.
EnabledIsScheduled ==
  service = "running" =>
    \A j \in DOMAIN jobs :
      jobs[j].enabled /\ jobs[j].next = Never => j \in batch \cup lapsed

\* Both: no job runs once too often, none is left out.
JobsKept == OneTimeRunsOnce /\ EnabledIsScheduled

\* From where a removed job can come back.  A process that serves does not take it
\* into memory again, although a run of it or an update of it may still be under way;
\* the file gets it only from a process that holds it, which may be a cron command
\* with an old copy or a gateway that has not heard of the removal; so a job that has
\* left memory, the file and the copies is gone.  What a failed save leaves in the
\* file is back after a restart.
JobAbsent(j) == j \notin DOMAIN jobs \cup DOMAIN jobsFile \cup DOMAIN cli.jobs
RemovedStep ==
  \A j \in used :
    /\ Serving /\ Serving' /\ j \notin DOMAIN jobs => j \notin DOMAIN jobs'
    /\ j \in DOMAIN jobsFile' => j \in DOMAIN jobsFile \cup DOMAIN jobs \cup DOMAIN cli.jobs
    /\ JobAbsent(j) => JobAbsent(j)'

ReturnsOnlyFromStore == [][RemovedStep]_cronVars

\* What the repository's README says of every job of the cron commands ("Jobs are
\* stored ... and processed automatically"): a save drops none it has not seen.
SavesKnowTheirJobs ==
  [][\A j \in DOMAIN jobsFile \ DOMAIN jobsFile' :
       j \in DOMAIN jobs \cup DOMAIN cli.jobs]_cronVars

\* A due job of a running service is executed, unless it is removed, disabled or
\* enabled again (which schedules it anew, or not at all when its one time has
\* passed), or the service ends.
Waiting(j) == service = "running" /\ (Due(j) \/ (j \in batch /\ cur # j))
Resolved(j) ==
  \/ cur = j \/ service # "running" \/ j \notin DOMAIN jobs
  \/ ~jobs[j].enabled \/ jobs[j].next > nowMS \/ j \in lapsed
DueJobRuns == \A j \in JobIds : Waiting(j) ~> Resolved(j)

=============================================================================
