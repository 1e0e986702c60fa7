------------------------------ MODULE Scheduler ------------------------------
(***************************************************************************)
(* management/commands/runapscheduler.py: the process that runs scheduled  *)
(* backups.  Its main thread turns due jobs into tasks of a thread pool;   *)
(* one of the jobs refreshes the others from the configurations.           *)
(*                                                                         *)
(* APScheduler is not part of the repository: its job store, its main loop *)
(* and its pool are modelled from how the command uses them.               *)
(***************************************************************************)
EXTENDS Integers, FiniteSets

CONSTANTS
  Config,     \* the rows of PiholeConfig
  Schedule,   \* the triggers backup_frequency, backup_time and backup_day give
  Default,    \* the one a row has when the environment asks for none
  Workers,    \* threads of the pool
  MaxEdits,   \* bound on the changes of the configurations
  MaxFaults,  \* bound on the deaths of the process and the errors of its queries
  NoJob, Refresh

ASSUME SchedulerAssumption ==
  /\ Workers \in Nat \ {0}
  /\ MaxEdits \in Nat
  /\ MaxFaults \in Nat
  /\ Default \in Schedule
  /\ NoJob \notin Schedule
  /\ Refresh \notin Config

VARIABLES
  active,     \* PiholeConfig.is_active; FALSE also for a deleted row
  schedule,   \* the trigger a row asks for
  up,         \* the process runs
  jobs,       \* the job store: the trigger of each backup job
  due,        \* the jobs whose next_run_time has come
  task,       \* what the thread that runs a job does next
  todo,       \* the rows the refresh has read and not yet scheduled
  lock,       \* _backup_locks
  edits, faults

configVars == <<active, schedule, edits>>
vars == <<configVars, up, jobs, due, task, todo, lock, faults>>

Job == Config \cup {Refresh}

Stage == {"none", "queued", "lookup", "acquire", "backup", "query", "adding"}

Running == {j \in Job : task[j] \notin {"none", "queued"}}

Become(j, stage) == task' = [task EXCEPT ![j] = stage]

Init ==
  /\ active \in [Config -> BOOLEAN]
  /\ schedule = [c \in Config |-> Default]
  /\ up = FALSE
  /\ jobs = [c \in Config |-> NoJob]
  /\ due = {}
  /\ task = [j \in Job |-> "none"]
  /\ todo = {}
  /\ lock = [c \in Config |-> FALSE]
  /\ edits = 0
  /\ faults = 0

\* The discovery at the next start, or the admin, changes a configuration.
Edit(c) ==
  /\ edits < MaxEdits
  /\ edits' = edits + 1
  /\ \E a \in BOOLEAN, s \in Schedule :
       /\ active' = [active EXCEPT ![c] = a]
       /\ schedule' = [schedule EXCEPT ![c] = s]
  /\ UNCHANGED <<up, jobs, due, task, todo, lock, faults>>

\* The rows a query of the active configurations returns, as they are now.
ActiveRows == {[config |-> c, schedule |-> schedule[c]] : c \in {d \in Config : active[d]}}

-----------------------------------------------------------------------------
(* The process and its main thread.                                        *)

\* Command.handle.  On a scheduler that has not started, remove_all_jobs forgets
\* the jobs added since, not the stored ones: those of inactive rows remain.
\* add_job computes the next run from now, so what was due before is not.
Start ==
  /\ ~up
  /\ up' = TRUE
  /\ jobs' = [c \in Config |-> IF active[c] THEN schedule[c] ELSE jobs[c]]
  /\ due' = due \ ({c \in Config : active[c]} \cup {Refresh})
  /\ UNCHANGED <<configVars, task, todo, lock, faults>>

\* The process dies, and with it its threads, its locks and its queue.
Die ==
  /\ up
  /\ faults < MaxFaults
  /\ faults' = faults + 1
  /\ up' = FALSE
  /\ task' = [j \in Job |-> "none"]
  /\ todo' = {}
  /\ lock' = [c \in Config |-> FALSE]
  /\ UNCHANGED <<configVars, jobs, due>>

FireTime(j) ==
  /\ j \in Config => jobs[j] # NoJob
  /\ due' = due \cup {j}
  /\ UNCHANGED <<configVars, up, jobs, task, todo, lock, faults>>

\* coalesce merges the runs that were missed into one.
Submit(j) ==
  /\ up
  /\ j \in due
  /\ task[j] = "none"
  /\ due' = due \ {j}
  /\ Become(j, "queued")
  /\ UNCHANGED <<configVars, up, jobs, todo, lock, faults>>

\* max_instances=1: the last run of the job has not ended.
Skip(j) ==
  /\ up
  /\ j \in due
  /\ task[j] # "none"
  /\ due' = due \ {j}
  /\ UNCHANGED <<configVars, up, jobs, task, todo, lock, faults>>

\* A run that waits for a thread longer than its misfire_grace_time (the default of a
\* second for the refresh, five minutes for a backup) is dropped when its turn comes.
\* Only a pool whose threads are all busy makes a run wait.
Misfire(j) ==
  /\ up
  /\ j \in due
  /\ Cardinality(Running) >= Workers
  /\ due' = due \ {j}
  /\ UNCHANGED <<configVars, up, jobs, task, todo, lock, faults>>

Begin(j) ==
  /\ task[j] = "queued"
  /\ Cardinality(Running) < Workers
  /\ Become(j, IF j = Refresh THEN "query" ELSE "lookup")
  /\ UNCHANGED <<configVars, up, jobs, due, todo, lock, faults>>

-----------------------------------------------------------------------------
(* run_backup_job_for_config.                                              *)

\* Mutant: the row is looked up by its id alone.
LookupById(c) ==
  /\ task[c] = "lookup"
  /\ Become(c, "acquire")
  /\ UNCHANGED <<configVars, up, jobs, due, todo, lock, faults>>

Lookup(c) ==
  /\ task[c] = "lookup"
  /\ Become(c, IF active[c] THEN "acquire" ELSE "none")
  /\ UNCHANGED <<configVars, up, jobs, due, todo, lock, faults>>

\* Only DoesNotExist is caught: another error of the database ends the run.
LookupFails(c) ==
  /\ task[c] = "lookup"
  /\ faults < MaxFaults
  /\ faults' = faults + 1
  /\ Become(c, "none")
  /\ UNCHANGED <<configVars, up, jobs, due, todo, lock>>

Acquire(c) ==
  /\ task[c] = "acquire"
  /\ IF lock[c] THEN Become(c, "none") ELSE Become(c, "backup")
  /\ lock' = [lock EXCEPT ![c] = TRUE]
  /\ UNCHANGED <<configVars, up, jobs, due, todo, faults>>

\* Mutant: the lock is released after a success, not in the finally clause.
EndBackupOnSuccess(c) ==
  /\ task[c] = "backup"
  /\ Become(c, "none")
  /\ lock' = [lock EXCEPT ![c] = FALSE] \/ UNCHANGED lock
  /\ UNCHANGED <<configVars, up, jobs, due, todo, faults>>

\* create_backup returned or raised.
EndBackup(c) ==
  /\ task[c] = "backup"
  /\ Become(c, "none")
  /\ lock' = [lock EXCEPT ![c] = FALSE]
  /\ UNCHANGED <<configVars, up, jobs, due, todo, faults>>

-----------------------------------------------------------------------------
(* refresh_backup_schedules.                                               *)

\* Mutant: the loop is given the ids of the rows, not the rows.
QueryIds ==
  /\ task[Refresh] = "query"
  /\ todo' = {r.config : r \in ActiveRows}
  /\ Become(Refresh, "adding")
  /\ UNCHANGED <<configVars, up, jobs, due, lock, faults>>

\* Mutant: the query does not ask for is_active.
QueryAllRows ==
  /\ task[Refresh] = "query"
  /\ todo' = {[config |-> c, schedule |-> schedule[c]] : c \in Config}
  /\ Become(Refresh, "adding")
  /\ UNCHANGED <<configVars, up, jobs, due, lock, faults>>

\* Mutant: the refresh removes the jobs before it adds them again.
QueryAndRemove ==
  /\ task[Refresh] = "query"
  /\ todo' = ActiveRows
  /\ jobs' = [c \in Config |-> NoJob]
  /\ due' = due \ Config
  /\ Become(Refresh, "adding")
  /\ UNCHANGED <<configVars, up, lock, faults>>

Query ==
  /\ task[Refresh] = "query"
  /\ todo' = ActiveRows
  /\ Become(Refresh, "adding")
  /\ UNCHANGED <<configVars, up, jobs, due, lock, faults>>

\* Mutant: a job that exists already is not replaced.
AddMissingJob(r) ==
  /\ task[Refresh] = "adding"
  /\ r \in todo
  /\ todo' = todo \ {r}
  /\ IF jobs[r.config] = NoJob
       THEN /\ jobs' = [jobs EXCEPT ![r.config] = r.schedule]
            /\ due' = due \ {r.config}
       ELSE UNCHANGED <<jobs, due>>
  /\ UNCHANGED <<configVars, up, task, lock, faults>>

\* replace_existing: the row as it was read gives the trigger, and the next run is
\* computed from now, whether or not a run was due.
AddJob(r) ==
  /\ task[Refresh] = "adding"
  /\ r \in todo
  /\ todo' = todo \ {r}
  /\ jobs' = [jobs EXCEPT ![r.config] = r.schedule]
  /\ due' = due \ {r.config}
  /\ UNCHANGED <<configVars, up, task, lock, faults>>

RefreshDone ==
  /\ task[Refresh] = "adding"
  /\ todo = {}
  /\ Become(Refresh, "none")
  /\ UNCHANGED <<configVars, up, jobs, due, todo, lock, faults>>

\* The pool logs what the job raises; the other rows wait for the next refresh.
RefreshFails ==
  /\ task[Refresh] \in {"query", "adding"}
  /\ faults < MaxFaults
  /\ faults' = faults + 1
  /\ todo' = {}
  /\ Become(Refresh, "none")
  /\ UNCHANGED <<configVars, up, jobs, due, lock>>

-----------------------------------------------------------------------------

BackupTask(c) == Lookup(c) \/ LookupFails(c) \/ Acquire(c) \/ EndBackup(c)

RefreshTask == Query \/ (\E r \in todo : AddJob(r)) \/ RefreshDone \/ RefreshFails

Next ==
  \/ \E c \in Config : Edit(c) \/ BackupTask(c)
  \/ \E j \in Job : FireTime(j) \/ Submit(j) \/ Skip(j) \/ Misfire(j) \/ Begin(j)
  \/ Start \/ Die \/ RefreshTask

Spec == Init /\ [][Next]_vars

\* The monitor restarts the process, time passes, threads run, and calls to the
\* Pi-hole time out.  Two races are lost sometimes, not always: a refresh that
\* replaces a job just when it is due, and a run that finds no free thread.
Fairness ==
  /\ WF_vars(Start)
  /\ \A j \in Job : WF_vars(FireTime(j)) /\ SF_vars(Submit(j)) /\ SF_vars(Begin(j))
  /\ \A c \in Config : WF_vars(BackupTask(c))
  /\ WF_vars(RefreshTask)

FairSpec == Spec /\ Fairness

-----------------------------------------------------------------------------
\* Each variable holds values of its kind.
TypeOK ==
  /\ active \in [Config -> BOOLEAN]
  /\ schedule \in [Config -> Schedule]
  /\ up \in BOOLEAN
  /\ jobs \in [Config -> Schedule \cup {NoJob}]
  /\ due \subseteq Job
  /\ task \in [Job -> Stage]
  /\ todo \subseteq [config : Config, schedule : Schedule]
  /\ lock \in [Config -> BOOLEAN]
  /\ edits \in 0 .. MaxEdits
  /\ faults \in 0 .. MaxFaults

\* A lock is held exactly as long as the backup it was taken for: no run leaves one
\* behind, and none of a configuration ever finds it taken, whatever the refresh does
\* to the job of a backup that runs.  (max_instances does that work; the lock is a
\* second line.)
LocksAreOfBackups == \A c \in Config : lock[c] <=> task[c] = "backup"

\* The jobs agree with the rows as long as nobody changes a row, whatever dies between
\* two restarts and however many refreshes fail half way: each active configuration has
\* the job of its schedule, and no other has one.
UntouchedRowsHaveTheirJobs ==
  edits = 0 /\ up =>
    \A c \in Config : jobs[c] = IF active[c] THEN schedule[c] ELSE NoJob

\* A run that is due is made.  It is not submitted only when the last run of the job has
\* not ended (max_instances), at a restart (the process re-adds the jobs of active rows
\* and so computes their next run from now, within the grace time of misfires too), when
\* no thread of the pool is free, and at the moment a refresh replaces the job.  A run
\* that was submitted reaches its backup unless the row is no longer active when it is
\* looked up, the database fails that query, or the process dies: a lock that is taken
\* never stops it.
DueRunsAreMade ==
  [][\A c \in Config :
       /\ c \in due \ due' =>
            \/ task[c] = "none" /\ task'[c] = "queued"
            \/ task[c] # "none"
            \/ ~up /\ up'
            \/ Cardinality(Running) >= Workers
            \/ \E r \in todo \ todo' : r.config = c
       /\ task[c] \in {"queued", "lookup", "acquire"} /\ task'[c] = "none" =>
            \/ task[c] = "lookup" /\ (~active[c] \/ faults' > faults)
            \/ ~up']_vars

\* What an operator sets reaches the job store, whatever dies or fails meanwhile:
\* the job of a configuration that stays active ends up with its schedule.
ScheduleIsFollowed ==
  \A c \in Config, s \in Schedule :
    <>[](active[c] /\ schedule[c] = s) => <>[](jobs[c] = s)

\* A configuration that stays active is backed up again and again: no lock stays
\* held, no job is lost, and no refresh starves it.
BackupsKeepComing ==
  \A c \in Config : <>[]active[c] => []<>(task[c] = "backup")

\* README.md:72 "Scheduled backups stop": a configuration that stays inactive is
\* left alone, although nothing removes its job from the store.
InactiveIsLeftAlone ==
  \A c \in Config : <>[](~active[c]) => <>[](task[c] # "backup")
=============================================================================
