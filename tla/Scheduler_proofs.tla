-------------------------- MODULE Scheduler_proofs --------------------------
(***************************************************************************)
(* Theorems about Scheduler, for any set of configurations and schedules   *)
(* and any number of workers, edits and faults: its types, that a lock is  *)
(* held by the backup that runs and by nothing else, and that the job      *)
(* store agrees with rows nobody changes.                                  *)
(***************************************************************************)
EXTENDS Scheduler, TLAPS

\* Threads run the code of their job, and end with the process.
TasksFitTheirJobs ==
  /\ task[Refresh] \in {"none", "queued", "query", "adding"}
  /\ \A c \in Config : task[c] \in {"none", "queued", "lookup", "acquire", "backup"}
  /\ ~up => \A j \in Job : task[j] = "none"
  /\ task[Refresh] # "adding" => todo = {}

(***************************************************************************)
(* While no row was changed, what the refresh has read is still true, and  *)
(* no inactive row was ever given a job.                                   *)
(***************************************************************************)
UntouchedRowsAreKnown ==
  edits = 0 =>
    /\ todo \subseteq ActiveRows
    /\ \A c \in Config : ~active[c] => jobs[c] = NoJob

SInv ==
  /\ TypeOK
  /\ TasksFitTheirJobs
  /\ LocksAreOfBackups
  /\ UntouchedRowsAreKnown
  /\ UntouchedRowsHaveTheirJobs

-----------------------------------------------------------------------------
(* Types.                                                                  *)

\* A query returns rows, and only those that are active.
LEMMA QueriedRows ==
  ASSUME TypeOK
  PROVE  /\ ActiveRows \subseteq [config : Config, schedule : Schedule]
         /\ \A r \in ActiveRows : active[r.config] /\ r.schedule = schedule[r.config]
  BY DEF TypeOK, ActiveRows

LEMMA TypeInit ==
  ASSUME Init
  PROVE  TypeOK
  <1>1. edits \in 0 .. MaxEdits /\ faults \in 0 .. MaxFaults
    BY SchedulerAssumption DEF Init
  <1>2. schedule \in [Config -> Schedule]
    BY SchedulerAssumption DEF Init
  <1> QED
    BY <1>1, <1>2 DEF Init, TypeOK, Stage

LEMMA TypeStep ==
  ASSUME TypeOK, [Next]_vars
  PROVE  TypeOK'
  <1> USE DEF TypeOK
  <1>1. ASSUME NEW c \in Config, Edit(c)
        PROVE  TypeOK'
    BY <1>1, SchedulerAssumption DEF Edit
  <1>2. ASSUME NEW c \in Config, BackupTask(c)
        PROVE  TypeOK'
    <2>1. faults' \in 0 .. MaxFaults
      BY <1>2, SchedulerAssumption DEF BackupTask, Lookup, LookupFails, Acquire, EndBackup
    <2> QED
      BY <1>2, <2>1 DEF BackupTask, Lookup, LookupFails, Acquire, EndBackup, Become, Stage,
                        configVars, Job
  <1>3. ASSUME NEW j \in Job, FireTime(j) \/ Submit(j) \/ Skip(j) \/ Begin(j)
        PROVE  TypeOK'
    BY <1>3 DEF FireTime, Submit, Skip, Begin, Become, Stage, configVars
  <1>4. CASE Start
    BY <1>4 DEF Start, configVars
  <1>5. CASE Die
    <2>1. faults' \in 0 .. MaxFaults
      BY <1>5, SchedulerAssumption DEF Die
    <2> QED
      BY <1>5, <2>1 DEF Die, configVars, Stage
  <1>6. ASSUME NEW j \in Job, Misfire(j)
        PROVE  TypeOK'
    BY <1>6 DEF Misfire, configVars
  <1>7. CASE RefreshTask
    <2>1. CASE Query
      BY <2>1, QueriedRows DEF Query, Become, Stage, configVars
    <2>2. ASSUME NEW r \in todo, AddJob(r)
          PROVE  TypeOK'
      BY <2>2 DEF AddJob, configVars
    <2>3. CASE RefreshDone
      BY <2>3 DEF RefreshDone, Become, Stage, configVars
    <2>4. CASE RefreshFails
      <3>1. faults' \in 0 .. MaxFaults
        BY <2>4, SchedulerAssumption DEF RefreshFails
      <3> QED
        BY <2>4, <3>1 DEF RefreshFails, Become, Stage, configVars
    <2> QED
      BY <1>7, <2>1, <2>2, <2>3, <2>4 DEF RefreshTask
  <1>8. CASE UNCHANGED vars
    BY <1>8 DEF vars, configVars
  <1> QED
    BY <1>1, <1>2, <1>3, <1>4, <1>5, <1>6, <1>7, <1>8 DEF Next

-----------------------------------------------------------------------------
(* The threads and their locks.                                            *)

LEMMA ThreadsInit ==
  ASSUME Init
  PROVE  TasksFitTheirJobs /\ LocksAreOfBackups
  BY DEF Init, TasksFitTheirJobs, LocksAreOfBackups, Job

LEMMA ThreadsStep ==
  ASSUME TypeOK, TasksFitTheirJobs, LocksAreOfBackups, [Next]_vars
  PROVE  TasksFitTheirJobs' /\ LocksAreOfBackups'
  <1> USE SchedulerAssumption DEF TypeOK, TasksFitTheirJobs, LocksAreOfBackups, Job
  <1>1. CASE UNCHANGED <<task, lock, up, todo>>
    BY <1>1
  <1>2. ASSUME NEW c \in Config, Lookup(c) \/ LookupFails(c)
        PROVE  TasksFitTheirJobs' /\ LocksAreOfBackups'
    BY <1>2 DEF Lookup, LookupFails, Become
  <1>3. ASSUME NEW c \in Config, Acquire(c)
        PROVE  TasksFitTheirJobs' /\ LocksAreOfBackups'
    <2>1. ~lock[c] /\ Become(c, "backup") /\ lock' = [lock EXCEPT ![c] = TRUE]
      BY <1>3 DEF Acquire
    <2> QED
      BY <1>3, <2>1 DEF Acquire, Become
  <1>4. ASSUME NEW c \in Config, EndBackup(c)
        PROVE  TasksFitTheirJobs' /\ LocksAreOfBackups'
    BY <1>4 DEF EndBackup, Become
  <1>5. ASSUME NEW j \in Job, Submit(j) \/ Begin(j)
        PROVE  TasksFitTheirJobs' /\ LocksAreOfBackups'
    BY <1>5 DEF Submit, Begin, Become
  <1>6. CASE Die
    BY <1>6 DEF Die
  <1>7. CASE Start
    BY <1>7 DEF Start
  <1>8. CASE Query \/ RefreshDone \/ RefreshFails
    BY <1>8 DEF Query, RefreshDone, RefreshFails, Become
  <1>9. ASSUME NEW r \in todo, AddJob(r)
        PROVE  TasksFitTheirJobs' /\ LocksAreOfBackups'
    BY <1>9 DEF AddJob
  <1>10. CASE \/ \E c \in Config : Edit(c)
              \/ \E j \in Job : FireTime(j) \/ Skip(j) \/ Misfire(j)
              \/ UNCHANGED vars
    BY <1>1, <1>10 DEF Edit, FireTime, Skip, Misfire, vars
  <1> QED
    BY <1>2, <1>3, <1>4, <1>5, <1>6, <1>7, <1>8, <1>9, <1>10
    DEF Next, BackupTask, RefreshTask

-----------------------------------------------------------------------------
(* The job store.                                                          *)

LEMMA StoreInit ==
  ASSUME Init
  PROVE  UntouchedRowsAreKnown /\ UntouchedRowsHaveTheirJobs
  BY DEF Init, UntouchedRowsAreKnown, UntouchedRowsHaveTheirJobs

LEMMA StoreStep ==
  ASSUME TypeOK, UntouchedRowsAreKnown, UntouchedRowsHaveTheirJobs, [Next]_vars
  PROVE  UntouchedRowsAreKnown' /\ UntouchedRowsHaveTheirJobs'
  <1> USE DEF TypeOK, UntouchedRowsAreKnown, UntouchedRowsHaveTheirJobs
  <1>1. ASSUME NEW c \in Config, Edit(c)
        PROVE  edits' # 0
    BY <1>1 DEF Edit
  <1>2. CASE UNCHANGED <<configVars, up, jobs, todo>>
    BY <1>2 DEF configVars, ActiveRows
  <1>3. CASE Start
    BY <1>3 DEF Start, configVars, ActiveRows
  <1>4. CASE Die
    BY <1>4 DEF Die, configVars
  <1>5. CASE Query
    BY <1>5 DEF Query, configVars, ActiveRows
  <1>6. ASSUME NEW r \in todo, AddJob(r)
        PROVE  UntouchedRowsAreKnown' /\ UntouchedRowsHaveTheirJobs'
    <2>1. /\ UNCHANGED <<active, schedule, edits, up, ActiveRows>>
          /\ todo' \subseteq todo
          /\ jobs' = [jobs EXCEPT ![r.config] = r.schedule]
          /\ r.config \in Config
      BY <1>6 DEF AddJob, configVars, ActiveRows
    <2>2. edits = 0 => active[r.config] /\ r.schedule = schedule[r.config]
      BY QueriedRows
    <2> QED
      BY <2>1, <2>2
  <1>7. CASE RefreshDone \/ RefreshFails
    BY <1>7 DEF RefreshDone, RefreshFails, configVars, ActiveRows
  <1>8. ASSUME NEW c \in Config, BackupTask(c)
        PROVE  UNCHANGED <<configVars, up, jobs, todo>>
    BY <1>8 DEF BackupTask, Lookup, LookupFails, Acquire, EndBackup
  <1>9. ASSUME NEW j \in Job, FireTime(j) \/ Submit(j) \/ Skip(j) \/ Misfire(j) \/ Begin(j)
        PROVE  UNCHANGED <<configVars, up, jobs, todo>>
    BY <1>9 DEF FireTime, Submit, Skip, Misfire, Begin
  <1>10. CASE UNCHANGED vars
    BY <1>2, <1>10 DEF vars
  <1> QED
    BY <1>1, <1>2, <1>3, <1>4, <1>5, <1>6, <1>7, <1>8, <1>9, <1>10 DEF Next, RefreshTask

-----------------------------------------------------------------------------
(* What is due.                                                            *)

\* DueRunsAreMade, of one step.
RunsAreMade ==
  \A c \in Config :
    /\ c \in due \ due' =>
         \/ task[c] = "none" /\ task'[c] = "queued"
         \/ task[c] # "none"
         \/ ~up /\ up'
         \/ Cardinality(Running) >= Workers
         \/ \E r \in todo \ todo' : r.config = c
    /\ task[c] \in {"queued", "lookup", "acquire"} /\ task'[c] = "none" =>
         \/ task[c] = "lookup" /\ (~active[c] \/ faults' > faults)
         \/ ~up'

LEMMA RunsStep ==
  ASSUME TypeOK, TasksFitTheirJobs, LocksAreOfBackups, [Next]_vars
  PROVE  RunsAreMade
  <1> USE SchedulerAssumption DEF TypeOK, RunsAreMade, Job
  <1>1. CASE UNCHANGED <<due, task>>
    BY <1>1
  <1>2. ASSUME NEW c \in Config, Lookup(c) \/ LookupFails(c) \/ EndBackup(c)
        PROVE  RunsAreMade
    <2>1. LookupFails(c) => faults' > faults
      BY DEF LookupFails
    <2> QED
      BY <1>2, <2>1 DEF Lookup, LookupFails, EndBackup, Become
  <1>3. ASSUME NEW c \in Config, Acquire(c)
        PROVE  RunsAreMade
    <2>1. Become(c, "backup") /\ UNCHANGED due
      BY <1>3 DEF Acquire, LocksAreOfBackups
    <2> QED
      BY <2>1 DEF Become
  <1>4. ASSUME NEW j \in Job, Submit(j)
        PROVE  RunsAreMade
    BY <1>4 DEF Submit, Become
  <1>5. ASSUME NEW j \in Job, FireTime(j) \/ Skip(j)
        PROVE  RunsAreMade
    BY <1>5 DEF FireTime, Skip
  <1>6. ASSUME NEW j \in Job, Begin(j)
        PROVE  RunsAreMade
    BY <1>6 DEF Begin, Become
  <1>7. CASE Start
    BY <1>7 DEF Start
  <1>8. CASE Die
    BY <1>8 DEF Die
  <1>9. ASSUME NEW j \in Job, Misfire(j)
        PROVE  RunsAreMade
    BY <1>9 DEF Misfire
  <1>10. CASE Query \/ RefreshDone \/ RefreshFails
    BY <1>10 DEF Query, RefreshDone, RefreshFails, Become
  <1>11. ASSUME NEW r \in todo, AddJob(r)
        PROVE  RunsAreMade
    BY <1>11 DEF AddJob
  <1>12. CASE (\E c \in Config : Edit(c)) \/ UNCHANGED vars
    BY <1>1, <1>12 DEF Edit, vars
  <1> QED
    BY <1>2, <1>3, <1>4, <1>5, <1>6, <1>7, <1>8, <1>9, <1>10, <1>11, <1>12
    DEF Next, BackupTask, RefreshTask

-----------------------------------------------------------------------------

LEMMA SInvariance == Spec => []SInv
  <1>1. Init => SInv
    BY TypeInit, ThreadsInit, StoreInit DEF SInv
  <1>2. SInv /\ [Next]_vars => SInv'
    BY TypeStep, ThreadsStep, StoreStep DEF SInv
  <1> QED
    BY <1>1, <1>2, PTL DEF Spec

\* Every variable of the scheduler keeps its type.
THEOREM SchedulerTypes == Spec => []TypeOK
  BY SInvariance, PTL DEF SInv

\* A lock is held by the backup that runs and by nothing else: no death of the process
\* and no refresh leaves one behind, and no run ever finds it taken.
THEOREM LocksFollowBackups == Spec => []LocksAreOfBackups
  BY SInvariance, PTL DEF SInv

\* As long as nobody changes a row, no death, restart or failed refresh makes the job
\* store disagree with the rows.
THEOREM JobsMatchRows == Spec => []UntouchedRowsHaveTheirJobs
  BY SInvariance, PTL DEF SInv

\* A run that is due is submitted unless its last run has not ended, the process restarts,
\* the pool has no free thread or a refresh replaces the job; and one that was submitted
\* reaches its backup unless its row is inactive or its query fails when it is looked up,
\* or the process dies: never because of a lock or half a job store left behind.
THEOREM DueRuns == Spec => DueRunsAreMade
  <1>1. SInv /\ [Next]_vars => [RunsAreMade]_vars
    BY RunsStep DEF SInv
  <1> QED
    BY <1>1, SInvariance, PTL DEF Spec, DueRunsAreMade, RunsAreMade
=============================================================================
