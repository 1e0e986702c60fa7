# A TLA+ model of Checkpoint for Pi-hole

Checkpoint stores the Teleporter exports of one or more Pi-holes in a directory and
a SQLite database, on request and on a schedule, prunes them, and imports them
back.  This directory holds TLA+ modules that model that program, TLC
configurations that check them, and TLAPS proofs of what matters most.

    tlc -config BackupSystem_core.cfg MCBackupSystem
    tlapm BackupSystem_proofs.tla

`PROJECT.json` lists the components, the runs, the source lines each definition
stands for, the mutants, the hazards, the findings and the theorems.

## 1. Inventory

| Part | Code | State | Operations | Model |
|---|---|---|---|---|
| Backup service | `services/backup_service.py`, `checksum.py` | files of BACKUP_DIR, BackupRecord rows, two fields of PiholeConfig | `create_backup`, `delete_backup_file_and_record`, `_safe_cleanup` | `BackupService` over `BackupStore` |
| Retention | `services/retention_service.py` | the same | `enforce_all`, `enforce_retention` | `RetentionService` |
| Restore, download | `services/restore_service.py`, `views.download_backup` | reads the same | `restore_backup`, `download_backup` | `RestoreService` |
| Views | `views.py` | none of their own | requests in gunicorn threads, two worker processes | `StartBackup`, `StartDelete`, `StartRead` |
| Scheduler | `management/commands/runapscheduler.py` | job store (database), `_backup_locks`, pool of threads | start, backup jobs, refresh, retention job | `Scheduler`; the jobs' work is in `BackupSystem` |
| Discovery | `services/discovery_service.py`, `discover_instances` | PiholeConfig rows | mark, create, reactivate or update, check connections | `DiscoveryService` |
| Container | `entrypoint.sh` | PIDs, PID file, restart count | start, monitor, cleanup | `Container` |
| Secret key | `config/settings.py` | key file | `get_or_create_secret_key` | `Container` |
| Pi-hole client | `services/pihole_client.py` | session id | authenticate, `_request_with_reauth`, test, download, upload | `PiholeClient`, promise in `PiholeCall` |
| Credentials | `services/credential_service.py` | environment | `get_credentials`, `is_configured` | their outcomes, in `PiholeClient` and `DiscoveryService` |
| Notifications | `services/notifications/` | two singletons, their locks, the queue of a pool | `safe_send_notification`, `_send_to_provider`, `_shutdown` | `NotificationService` |
| Metrics | `services/metrics_service.py` | none, reads the tables | `build_registry` | `MetricsService` over `BackupSystem` |
| Admin | `admin.py` | PiholeConfig rows | save a form, delete a row | `SaveForm`, `DeleteRow` of `DiscoveryService` |
| Login, templates, migrations | | | | not modelled |

How they interact.  Three kinds of processes share the database and the backup
directory and nothing else: two gunicorn workers, the scheduler process with its pool
of ten threads, and at each start the discovery command.  SQLite is in autocommit
mode (no `ATOMIC_REQUESTS`, no `transaction.atomic` in the services), so a thread can
be overtaken between any two statements and between any two calls on the file
system; that is the grain of the model: one action for each statement or call.

What is hard:

- a backup is a file and a row, and no transaction spans both: every failure or
  crash between two statements leaves one without the other;
- the exception handler of `create_backup` takes exceptions raised after the point
  where the backup was already recorded;
- requests, the retention job and readers work on records they read earlier;
- deletions fail and are retried, or are not;
- the scheduler's jobs are replaced by a job that itself runs in the scheduler;
- discovery writes rows an operator edits or deletes and backups stamp, and can die half
  way through;
- a request to a Pi-hole is sent a second time after a 401, sessions expire at any moment,
  and a lost answer says nothing about what was done;
- notices wait in a queue of the process that made them, behind singletons that several
  jobs reach for first;
- a scrape asks six questions of tables that change between them;
- the monitor works in a subshell with variables of its own, and may be killed between
  any two of its commands; what a container wrote outlives it.

What makes each part correct:

- backups: what was announced as a success stays until somebody decides to delete it;
  every lost file, orphaned file and duplicate row has a known cause; a row goes only
  after its file; the newest `max_backups` survive; only complete recorded backups are
  delivered; retention converges wherever a configuration stays active;
- scheduler: the job store comes to what the configurations say; an active configuration
  is backed up again and again; an inactive one is left alone;
- discovery: a run that ends leaves each row as the environment asks, repairs what
  an earlier one left half done, and announces exactly the losses it found; it never loses
  the time of a backup;
- client: an operation is performed at most once, a refused password was not performed and
  a download that returns was, a lost session is invisible;
- notifications: one pool; each notice once to each provider; an orderly end drops none;
- metrics: each gauge was true at some moment of the scrape;
- container: never two schedulers; one that dies comes back; none is left when the
  container was told to stop.

## 2. Modules

    BackupStore                     tables, files, threads, the environment's faults
      BackupService                 create_backup, delete_backup_file_and_record
        RetentionService            enforce_all
        RestoreService              restore_backup, download_backup
          BackupSystem              the threads together; properties; INSTANCE BackupCatalog
            BackupInvariant         the inductive invariants IInv and RowInv
              MCBackupSystem        small instances for TLC
              BackupSystem_proofs   TypeOK and IInv are inductive, what follows, the refinement
                BackupRows_proofs   RowInv is inductive beside them, and what follows
            MetricsService          a scrape beside the threads
              MCMetricsService
              MetricsService_proofs a scrape reports what was true
    BackupCatalog                   abstract: Publish, Condemn, Withdraw
    PiholeCall                      abstract: Begin, Perform, Forge, Return
    NoticeOutbox                    abstract: HandOver, Send, End, Lose
    PiholeClient, MCPiholeClient    pihole_client; INSTANCE PiholeCall
      PiholeClient_proofs           the refinement, and that expiry is hidden
    NotificationService, MCNotificationService      INSTANCE NoticeOutbox
      NotificationService_proofs    one pool, nothing dropped or sent twice, the refinement
    Scheduler, MCScheduler          runapscheduler
      Scheduler_proofs              types, locks, the job store, and what forgets a due run
    DiscoveryService, MCDiscoveryService
      DiscoveryService_proofs       a run reconciles, announces and keeps the times of backups
    Container, MCContainer          entrypoint.sh and the secret key
      Container_proofs              one scheduler, and none left by cleanup

**The backup system.**  `pc[t]` is the statement a thread executes next and is named
after it: `download, open, write, checksum, insert_success, save_success,
notify_success` are the try block of `create_backup`; `cleanup, insert_failed,
save_error, notify_failed` its handler; `exists, unlink, delete` the shared deletion;
`prune` and the labels around it the retention loop; `find_file, verify, read, send`
the readers.  A thread's locals are in `attempt`, `victim`, `sweep` and `reading`.
The web threads run requests, the scheduler threads backups and the retention job
(`WebRequest`, `SchedulerJob`).  File names are numbers: the uuid suffix makes every attempt's
name a new one, which the mutant `StartBackupWithoutUuid` takes away.  A file's content
is `absent`, `partial`, `whole` or `damaged`, and a checksum is the content it was computed from, so
comparing checksums is comparing contents.

The environment fails through `Strike(kind)`: any statement of the try block may
raise, so may the handler's own statements, `unlink()`, the deletions of rows and the
upload; a process may die between any two steps (`Crash` forgets the locals and keeps files
and tables; a process that dies with several threads is several such steps in a row);
bytes may rot.  `SwitchActive` is the admin's form or the discovery, which switch a configuration off
and on at any time: the scheduler's backups and `enforce_all` take active configurations
only, while a manual backup asks for nothing.  `struck` remembers the kinds that happened, so
that a property can name the only excuse it admits.  `doomed` remembers
whose deletion was decided and by whom.

**The scheduler.**  APScheduler is not part of the repository; its main loop, job store
and pool are modelled from the options the command gives it.  `due` holds the jobs
whose fire time has come, `task[j]` the stage of the thread that runs a job.
`coalesce` makes `due` a set, `max_instances=1` is `Skip`, a `misfire_grace_time` that runs out
(a second for the refresh, five minutes for a backup) is `Misfire`, which needs a pool whose threads
are all busy, and `replace_existing` in `AddJob` computes
the next run from now.  `remove_all_jobs()` before `start()` clears only the jobs
that wait to be added, so stored jobs of inactive rows stay; the lookup of the row
in each run makes up for it.  That lookup catches `DoesNotExist` alone, so any other error of
the database ends the run (`LookupFails`).  A backup's work is one step, `EndBackup`: its inside
is `BackupSystem`.

**Discovery.**  One step per `save()`.  `read` is the row as the loop's query returned
it, `row` as it is: a full save (`--force`) writes the former.  `env` is what the
variables of the current process say of each prefix.  The command runs at each start,
before gunicorn, or by hand beside it; an operator's form, opened at any time, is saved at any
later one with everything it showed but the read-only fields.  `author` travels with a row
and says who last decided `is_active`.  `backed_up` says that the row has the time of its
newest backup, which `Backup` saves between any two steps.  `DeleteRow` is the deletion of a configuration in
the admin: a later save with `update_fields` of that row raises and ends the run (`SaveFails`), while a full
save would insert it again.

**The client.**  Each caller makes a client object of its own, so a call is the unit:
`test_connection`, `download_teleporter_backup` or `upload_teleporter_backup`.  `pc[c]` is its
place in `_request_with_reauth`; `wire` and `answer` hold the one request under way, since
`requests` is synchronous.  `Expire`, `GiveNoSession` (an answer of `/api/auth` without a sid) and
`ChangePassword` are the Pi-hole's, `Intercept` (an error, a page, JSON, or a 401 of a proxy), `Lose` and
`TimeOut` the network's, `Kill` gunicorn's, whose workers may live 30 seconds while a request may
take 120.  `setbacks` counts the sessions a call lost.  `PiholeCall` is what the services may
assume: the operation was performed at most once, a download that returned was performed,
a call that reports a refused password never will be, and any other exception says nothing.  A test or an
upload that returned was performed too, unless somebody else answered it: both return
`response.json()` of whatever came with 200, and only a download is looked at
(`_validate_zip_content`).  `forged` holds the calls whose request a proxy answered with JSON.
A proxy that answers 401 has not passed the request on, and none sends an archive of its own.
In `BackupService` that exception is the fault `download`, in `RestoreService` the
fault `send`.

**Notifications.**  One process with several threads that have a notice to send.
`CheckService, LockService, RecheckService, NewService` are the double-checked
`get_notification_service`, `NextProvider, LockExecutor, RecheckExecutor, NewExecutor, Submit` the
loop over the providers with the double-checked property `executor`.  The second check and the
assignment are two steps, so that it is the locks that keep a second thread out.  A service or a pool
is named by the thread that made it, so a second one can exist in the model.  `environment` says
which providers are configured, and `todo[t]` which the loop of a thread has not come to: their order is
abstracted, a loop takes any that is left.  The settings singleton has no variable: its lock is taken
only under `_service_lock`.  `Exit` begins an orderly end (the interpreter then refuses
`submit()` and waits for the pool), `Shutdown` completes it with the `atexit` hook, `Kill` is
a SIGTERM of the scheduler, which installs no handler, or a SIGKILL.  `NoticeOutbox` is what that
promises a caller whose hand-over was in time: `pending` are the calls in a queue or in a thread's hands,
`sent` those that were made, `delivered` those that got there, and an orderly end waits for the first to
be empty.

**Metrics.**  `MetricsService` adds one scrape to all the threads of `BackupSystem`; each query
is a step.  `seen` collects, at every step of the others, what the gauges would say then.

**The container.**  `main` is the line the main shell is at, `monitor` the line of the
subshell.  `started` and `watched` are the `SCHEDULER_PID` of each: the subshell
inherits the first and assigns only its own, which is why cleanup goes through `pidfile`.
The fork of a scheduler and the write of the file are two steps (`Fork`, `WriteNewPid`);
a fork and the assignment of `$!` are one.  Sleeping is abstracted, so the monitor may look at
any moment and `restart_count` is what remains of the back-off.  The first
process of a container ignores signals it has no trap for, so `Signal` needs the trap of
line 79.  `Killed` ends the container anywhere, `PrepareFails` is `set -e`, and both keep
the files.  A scheduler or gunicorn may die at any time, without limit.

## 3. Runs

| Run | Bounds | Shows |
|---|---|---|
| core | 1 configuration, 2 request threads and 1 scheduler thread, 2 attempts, `max_backups` 1, one fault of any kind | `TypeOK`, `AnnouncedBackupIsKept`, `NoSilentLoss`, `OrphansExplained`, `OneRowPerAttempt`, `NoticeMatchesOutcome`, `FileGoesBeforeRow` |
| retention | 1 request thread, 1 scheduler thread, 3 attempts, `max_backups` 2, one fault (`RetentionFaults`: a write or insertion of an attempt, an unlink, a row deletion, a query of the loop, a crash), a configuration switched off and on at will, fair | `NewestAreKept`, `ImplementsCatalog`, `RetentionConverges` |
| readers | 1 request thread, 1 scheduler thread and a scrape, 1 attempt, age limit, one fault of four kinds | `DeliveredIsComplete`, `GaugesAreOfTheScrape` |
| client | 1 call, 3 failures, any number of expired sessions, fair | `TypeOK`, `ExpiryIsTransparent`, `ImplementsCall`, `CallsEnd` |
| notifications | 2 threads, 2 providers in any configuration, 2 workers, 2 kinds of notice of which one is wanted, fair | `TypeOK`, `OnePool`, `NothingIsDropped`, `ReceivedOnce`, `ImplementsOutbox`, `CallersReturn`, `PoolKeepsGoing` |
| scheduler | 2 configurations, 2 schedules, 2 pool threads, 1 edit, 1 fault, fair | `TypeOK`, `LocksAreOfBackups`, `UntouchedRowsHaveTheirJobs`, `DueRunsAreMade`, `ScheduleIsFollowed`, `BackupsKeepComing`, `InactiveIsLeftAlone` |
| container | 3 process ids, 2 restarts, 2 failed or killed starts, any number of deaths, fair | `TypeOK`, `OneScheduler`, `CleanupReachesTheScheduler`, `SchedulerComesBack` |
| discovery | 1 prefix, 5 runs with any environment, 2 admin forms or deletions, 1 crash | `TypeOK`, `RunReconciles`, `LossIsAnnounced`, `BackupTimeIsKept` |
| cleanup, refused, operator, key | the smallest instance that shows it | a statement of the code or its documents that the code does not keep (section 6) |

Why the bounds are enough.  Two threads are needed for a race and three for a race that
a job joins; `max_backups` of 1 makes the second attempt exceed it, and 3 attempts
against 2 let retention's query grow stale while a newer backup appears.  Every property
of the backup system is about one name or two rows, and each fault sets its
own flag, so a second fault only weakens what is asserted.  The run `retention` takes a failed
`write` for every statement before the first insertion (`core` and the theorems fail each
of them) and no rotting bytes, which no thread of that instance reads.  In the scheduler, two
configurations with two pool threads let the refresh starve behind backups.
In discovery, a variable must come, go and come back and a further run
must find what a crash left, so four runs are the least and five are used; the passes treat
each row by itself, so one prefix shows what can happen to any (4 runs of two
prefixes, 5.0 million states, hold too).  In the container three process ids are one more
than the scheduler and the one it replaces, and two restarts let the count be reset or
run out; the code's bound of 10 only makes the same paths longer.  Calls of the client share nothing but the password, so one call
shows what can happen to any (two calls with one failure, 332,000 states, hold too); three
failures are one more than the two requests of a call, and a session may expire without limit,
counted up to the two that a call can notice.  Two threads make every race for
a lock, and two providers let the second hand-over fall after the end of the process has begun, or
find the pool made by the other thread.  In the readers run one attempt is enough: its row appears,
is read and is deleted, by a user and by the age limit, between any two queries of a scrape or
statements of a restore.  Symmetry is used for request threads and
only where no property is temporal in more than one step.  Deadlock is checked in every
run whose system goes on for ever (retention and the scheduler's jobs always come
again); the runs that stop when a bound is used up say `CHECK_DEADLOCK FALSE`.

Every property of a passing run has a mutant: a definition changed as a plausible bug
would change it (a dropped uuid, a notification inside the try block, an off-by-one in the
slice, a lock released on success only, a scheduler forked in a further subshell, a status read after it was assigned), which
TLC refutes under the run's own configuration.

## 4. Fairness

`BackupSystem.FairSpec`: each thread that runs takes its next step (the operating
system schedules it; calls to the Pi-hole have timeouts), and the daily retention
job comes again and again.  Faults are finite: a disk that refuses every `unlink()` for
ever converges to nothing.

`Scheduler.FairSpec`: the process is started again when it is down (the monitor of
`entrypoint.sh` and the restart policy), time passes, threads take their steps.
`Submit` and `Begin` are strongly fair: a refresh may replace a job just when it is
due, or a run find no free thread in its time of grace, sometimes but not each time.  Without that
assumption the run refutes `BackupsKeepComing` and `ScheduleIsFollowed`.  The first of
the two is a property of the code: `replace_existing` stores a next run computed from
now, so a refresh between the fire time of a job and the main loop's next tick drops
that run.  One run can be lost this way, and it takes that coincidence each time to lose all.

`PiholeClient.FairSpec`: the client's thread takes its next step, which includes the timeout of a
request that is not answered; a Pi-hole that has a request serves it.  No failure of the network is
excluded.

`NotificationService.FairSpec`: threads that have begun a hand-over go on, those of the pool take and
send (a request has a timeout of ten seconds), and an end that can complete does.  Nothing
says that a process ends or that a lock is given to the thread that waits longest: with
one hand-over for each thread it is not needed.

`Container.FairSpec`: both shells take their next step, sleeps end, and Docker starts a
container that ended without an operator (`restart: unless-stopped`).  Nothing is assumed
of the deaths; signals have no limit, failed commands and kills of the whole container do.

## 5. Proofs

For all sets of configurations and threads and all bounds, from `StoreAssumption`
(bounds are naturals, `Config` is finite, `None` is not a configuration):

- `TypeCorrect`: `Spec => []TypeOK` (the steps come first in `BackupSystem_proofs`);
- `AnnouncedIsKept`: `Spec => []AnnouncedBackupIsKept`;
- `NothingIsLostSilently`: `Spec => []NoSilentLoss`;
- `RowsOutliveFiles`: `Spec => FileGoesBeforeRow`;
- `OneRowForAnAttempt`: `Spec => []OneRowPerAttempt`;
- `OrphansAreExplained`: `Spec => []OrphansExplained`;
- `NoticesMatch`: `Spec => []NoticeMatchesOutcome`;
- `CompleteDelivery`: `Spec => []DeliveredIsComplete`;
- `NewestSurvive`: `Spec => []NewestAreKept`;
- `Refinement`: if `"save_success" \notin Faults`, then `Spec => ImplementsCatalog`.

and, for a scrape beside all that (`MetricsService`, whose specification is `MSpec`):

- `GaugesWereTrue`: `MSpec => []GaugesAreOfTheScrape`.

and, from `SchedulerAssumption` (bounds are naturals, a pool has a thread, the default schedule is one,
`NoJob` is none, the refresh is not a configuration), for any number of configurations:

- `SchedulerTypes`: `Spec => []TypeOK` of the scheduler;
- `LocksFollowBackups`: `Spec => []LocksAreOfBackups`;
- `JobsMatchRows`: `Spec => []UntouchedRowsHaveTheirJobs`;
- `DueRuns`: `Spec => DueRunsAreMade`.

and, from `ContainerAssumption` (bounds are naturals, `NoPid` is not a process id):

- `ContainerTypes`: `Spec => []TypeOK` of the container;
- `NeverTwoSchedulers`: `Spec => []OneScheduler`;
- `CleanupLeavesNone`: `Spec => []CleanupReachesTheScheduler`.

and, from `ClientAssumption` (the bound of failures is a natural), for any number of calls:

- `ClientTypes`: `Spec => []TypeOK` of the client;
- `ClientKeepsPromise`: `Spec => ImplementsCall`;
- `ClientHidesExpiry`: `Spec => []ExpiryIsTransparent`.

and, from `NotificationAssumption` (a pool has a thread, `NotifyOn` is a set of events, `"none"` is not a
thread), for any number of callers and providers:

- `NoticeTypes`: `Spec => []TypeOK` of the notifications;
- `OnePoolOnly`: `Spec => []OnePool`;
- `NoNoticeDropped`: `Spec => []NothingIsDropped`;
- `NoticeReceivedOnce`: `Spec => []ReceivedOnce`;
- `NoticesOutbox`: `Spec => ImplementsOutbox`.

and, from `DiscoveryAssumption` (bounds are naturals), for any set of prefixes:

- `DiscoveryTypes`: `Spec => []TypeOK` of the discovery;
- `ReconciledAtTheEnd`: `Spec => []RunReconciles`;
- `LossesAnnounced`: `Spec => []LossIsAnnounced`;
- `NoBackupTimeIsLost`: `Spec => BackupTimeIsKept`.

The argument.  None of these is inductive: an announced backup could lose its file
to the cleanup of another attempt, to a deletion nobody decided, or to its own handler.
`IInv` (in `BackupInvariant`) says why not.  An attempt owns its name as long as it
runs (`AttemptsOwnNames`), and until its row is inserted no row, and no copy of a row in
anybody's hands, names that file (`UnrecordedIsPrivate`), so `cleanup` cannot touch
the file of another attempt.  Whatever a thread deletes or queues for deletion is in `doomed`
(`DeletionsAreDoomed`), rows and files correspond one to one (`RowsNameTheirFile`,
`OneSuccessPerName`), and a recorded attempt reaches `cleanup` only through a failed
save (`RecordedIsCleanedOnlyAfterSave`).  `FileIsGoneAtDelete` gives
`FileGoesBeforeRow`.  `AnnouncementIsTrue` follows a name from the insertion of its
row to the announcement and beyond.  Each part has one step per action.  The refinement maps
`available` to the recorded backups with a file and `condemned` to the successful rows of
`doomed`; a crash, a fault or a step of a reader stutters, `InsertSuccess` publishes, the decision
to delete condemns, `Unlink` and the deletion of a row whose file is gone withdraw.  The
hypothesis on `save_success` is necessary: that fault unlinks an available backup
nobody condemned, which is the finding of run cleanup.

`RowInv` is inductive beside `IInv` (`BackupRows_proofs`).  An attempt that comes to its handler has no
row yet, or its save failed (`HandlerInsertsFirst`), which gives one row for an attempt.  A file
without a row belongs to the attempt that holds its name, and where that attempt is about to forget the
name the file has a row or is gone, unless its cleanup failed (`FilesHaveOwners`); an attempt that dies
leaves its name without an outcome for ever.  Names under way or still to come have no outcome
(`OutcomesAreOpen`), so the end of an attempt sets the first and only one, with its notice.  No recorded
name has a partial file (`PartialIsUnrecorded`), so what a reader opens is whole or damaged
(`ReadersHoldRows`).  A row condemned by its number had `max_backups` newer ones when the query ran, and
`Recorded` only grows (`CountedHaveNewer`): that is why a stale query cannot take one of the newest.

That `build_registry` writes nothing is how its actions are written (`UNCHANGED vars`), not
a result; it makes everything above hold beside a scrape.  For the scrape, `GInv` of `MetricsService_proofs` says of each query that was made that its answer is in
`seen`, the history of what the tables said.  That needs an answer to exist: every set of ids has a greatest
(`IdsAreKeys`), which an insertion keeps because its id is greater than all before it.  The delicate
part is the row that is chosen by one query and fetched by another: an id is never given twice, so a row
found missing stays missing (`MissingStaysMissing`), and what was fetched is the row that was
chosen or was deleted in between.

In the scheduler, `SInv` of `Scheduler_proofs` has three parts.  A thread runs only the code of its job, and
a process that is down has no threads (`TasksFitTheirJobs`); a lock is held exactly while the stage of its
configuration is `backup` (`LocksAreOfBackups`), for `max_instances=1` keeps a second run away and the
death of the process takes the lock with the thread.  As long as no row was changed, the rows the refresh
has read are the ones it would read now, and no inactive row has a job (`UntouchedRowsAreKnown`): with
it a refresh that fails half way, or dies and starts again, leaves a store that is still right.
`DueRunsAreMade` follows step by step: a due run leaves `due` for the pool or in one of the listed ways, and a
run that reaches its lock finds it free.

In the container (`IInv` of `Container_proofs`), the live scheduler is always the one
somebody knows: the main shell until it has written the file (`MainKnows`), then the file
(`FileKnows`), except between a fork of the monitor and its write, when only the
monitor does (`MonitorKnows`).  A fork needs a dead predecessor, so two never run; cleanup stops the
monitor before it reads the file, so what it reads is right unless it stopped the
monitor in that gap (`missed`).  `CountIsBounded` makes the type of the restart count inductive.

In the client, the invariant of the refinement says where a performed operation can be:
`times` is 1 only once the request was served with a valid session, and from then on its answer is
`done`, lost or replaced, and never 401; so the branch that sends again is taken only while
`times` is 0, and the branch that reports a refused password comes only before a request
was performed.  JSON that answers a request is a proxy's, and so the call is `forged`.  `SessionInv` of the same module counts for the other theorem: a call that
nothing fell upon has lost a session for every 401 it has met and for every session it
misses, so the second 401 means two.

In the notifications, only the holder of a lock is between its second check and the release
(`LocksExclude`), so one service and one pool are made and every thread was given them (`OneService`,
`OnePoolWorks`).  A call is in exactly one place: to come, in the queue once, being sent, or tried once
(`CallsAreInOnePlace`), and a caller goes past a provider only by handing its call over
(`CallersHandOver`).  `EndIsOrderly` says that an ended process has neither callers under way nor calls
left.  The refinement of `NoticeOutbox` rests on the same facts: `Submit` hands over a call that was
neither pending nor sent, `Take` stutters, `SendToProvider` sends one, `Shutdown` ends with nothing pending,
and everything callers do on the way to the pool stutters.

In the discovery, what the loop has read differs from the row in the time of a backup only, as long as
no form was saved during a run (`ReadIsCurrent`); the prefixes that are not `Outstanding` are `Settled`
(`WorkIsDone`).  What earlier runs and crashes leave is anything but an incoherent row: a row
discovery decided upon is active exactly if it is not `removed` (`DecisionsCohere`), which is why
reactivation may go by the status alone, and why the two fields have to be saved together.
`LossesAreTold` counts the one loss that is saved and not yet announced.  For `BackupTimeIsKept` it is
`RowsAreKnown` that matters: what was read as missing is still missing when it is created, so no new row
replaces one that has a time.

Only model-checked: the liveness properties (`RetentionConverges`, `CallsEnd`, `CallersReturn`,
`PoolKeepsGoing`, `ScheduleIsFollowed`, `BackupsKeepComing`, `InactiveIsLeftAlone`,
`SchedulerComesBack`), since fairness and ENABLED are beyond the proof system here.  Every invariant and
action property of a passing run, and every refinement, is proved.

## 6. What the code does not keep

- **cleanup**: when the save of the configuration fails after the row of a backup was inserted,
  the handler deletes that backup's file and leaves its row.
- **refused**: the deletion a user asked for and that failed is not retried, although the
  answer says so; only what retention selects is.
- **operator**: an instance an operator deactivated is activated again when its variable goes and
  comes back, which a comment of the discovery says it spares: a row that was marked removed does not tell
  that it was inactive before.
- **key**: the key file is created and written by two calls; a start that ends between them
  leaves an empty file, and every later start reads an empty key.

Three more have no run.  The handler for `HTTPError` (`discovery_service.py:227`) is dead code, for it is an
`OSError` and line 223 takes it: a Pi-hole that answers 403 or 500 is `unreachable` and announced as
lost, where `docs/adr/0009-backup-failure-notifications.md:52` speaks of an unreachable Pi-hole (`StatusOf`).
The docstring of `run_retention_job` (`runapscheduler.py:66`) says "for all configs", and `enforce_all`
takes active ones: what a configuration that stays inactive collects, by manual backups or from before, is never
pruned, and `RetentionConverges` asserts nothing of it.  `test_connection` and
`upload_teleporter_backup` (`pihole_client.py:126` and `176`) return any JSON that came with 200, although
`_validate_zip_content` knows that a proxy may send such a thing: a connection may be reported as
good, or a restore as successful, that never reached the Pi-hole (`Forge` in `PiholeCall`).

Some exceptions are part of the properties instead.  `NoticeMatchesOutcome`: if the
handler's own statements raise, the failure is announced to nobody.  `RunReconciles`: an
admin form that shows `removed` and is saved while `check_connections` works on
the reactivated row deactivates it; the check then replaces `removed` by the
outcome of the connection, and no later run activates the row again.  At a start
this cannot happen, since discovery runs before gunicorn; beside the web server it can.
`DueRunsAreMade`: a run that comes while the last one of its job has not ended, a restart, a refresh at the moment
a job is due, and a pool without a free thread each forget a run; and a run that was submitted ends at its
lookup when the row is inactive or the query fails, or with the process.
`BackupTimeIsKept`: a run with `--force` writes the whole row as it read it, and so may lose
the time of a backup that ended between its query and its save.  `GaugesAreOfTheScrape`: a row that is
deleted between the query that chose it and the one that fetches it makes the gauges of a configuration say "no
backup", although it may have others.  `NothingIsDropped`: a notice whose hand-over comes after
the interpreter began to end is refused, and the exception is swallowed; a killed process
takes its queue with it.  `CleanupReachesTheScheduler`: a monitor killed between its fork and its write leaves a
scheduler that is in no file; it ends without its SIGTERM when the container ends, a
moment later.

## 7. Not modelled, and why

- The cascade of a configuration deleted in the admin, and a record deleted there: rows go and
  files stay, for nothing lists BACKUP_DIR.  (What such a deletion does to a discovery run is modelled.)
- Two discovery commands at once; two edits of one environment while a process runs.
- Login, the middleware that asks for it and the rate limit: a session flag and counters that Django
  and a library keep.  The dashboard, settings and health views read and render.
- The text a provider sends, and which status each takes for success: sending is one step with any
  outcome.  `reload_notification_settings` is called by tests only; `validate_config` and
  `test_connection` of the providers have no caller.
- `is_scheduler_running`, which scans /proc; the gauges taken from one row of a configuration.
- The containment check of `resolve_backup_path` (paths are the ones the service wrote);
  wording, formats and logging.
- In `entrypoint.sh` the small window between `&` and `$!`, and `uv run` as a process beside
  the one it runs.

Time is abstracted to "older than the age limit or not", the order of ids being the order of
creation.  The seven-day purge of failed rows may take any of them at any time.  What a crash
leaves in BACKUP_DIR stays there (`OrphansExplained` says which attempts can leave a file).

## 8. Plan

Done in this order: `BackupStore`, `BackupService`, `RetentionService`,
`RestoreService`, `BackupSystem` with `BackupCatalog`, its invariants and proofs;
`Scheduler`; `DiscoveryService`; `Container` and its proofs; `PiholeClient` with `PiholeCall`
and their proofs; `NotificationService`; `MetricsService`; the admin's part in `DiscoveryService`; the
proofs of `RowInv`, and those about `NotificationService`, `DiscoveryService`, `MetricsService`
and `Scheduler`; `NoticeOutbox`.

Next: a composition of `Scheduler` and `Container` in place of the fairness assumed of `Start`.
