---------------------------- MODULE BackupSystem ----------------------------
(***************************************************************************)
(* The core of the application: backups are created, deleted, pruned,      *)
(* restored and downloaded by threads of two processes that share one      *)
(* database and one directory, and any of them can stop at any statement.  *)
(***************************************************************************)
EXTENDS RetentionService, RestoreService

vars == <<pc, tableVars, fileVars, createVars, deleteVars, sweep, readVars,
          doomed, faultVars>>

Init == StoreInit /\ ServiceInit /\ RetentionInit /\ RestoreInit

\* The views look the record up before they call a service.
WebRequest(t) ==
  \/ \E c \in Config : StartBackup(t, c) /\ UNCHANGED <<sweep, readVars>>
  \/ \E r \in records : StartDelete(t, r) /\ UNCHANGED <<sweep, readVars>>
  \/ \E r \in records, to \in Target : StartRead(t, r, to) /\ UNCHANGED sweep

\* A scheduled backup looks its configuration up, and is skipped if it is inactive.
SchedulerJob(t) ==
  \/ \E c \in Config :
       row[c].is_active /\ StartBackup(t, c) /\ UNCHANGED <<sweep, readVars>>
  \/ StartRetention(t) /\ UNCHANGED readVars

Step(t) ==
  \/ CreateStep(t) /\ UNCHANGED <<sweep, readVars>>
  \/ DeleteStep(t) /\ UNCHANGED <<sweep, readVars>>
  \/ RetentionStep(t) /\ UNCHANGED readVars
  \/ ReadStep(t) /\ UNCHANGED sweep

\* The process of a thread dies: its locals are gone, the tables and the files
\* stay as the last statement left them, and it is started again.
Crash(t) ==
  /\ ~Idle(t)
  /\ Strike("crash")
  /\ Goto(t, "idle")
  /\ attempt' = [attempt EXCEPT ![t] = NoAttempt]
  /\ victim' = [victim EXCEPT ![t] = NoVictim]
  /\ sweep' = [sweep EXCEPT ![t] = NoSweep]
  /\ reading' = [reading EXCEPT ![t] = NoReading]
  /\ UNCHANGED <<lastName, outcome, notices, refused, delivered, doomed>>
  /\ UNCHANGED <<tableVars, fileVars>>

Next ==
  \/ \E t \in Web : WebRequest(t)
  \/ \E t \in Sched : SchedulerJob(t)
  \/ \E t \in Thread : Step(t) \/ Crash(t)
  \/ \E n \in Name :
       Damage(n) /\ UNCHANGED <<createVars, deleteVars, sweep, readVars>>
  \/ \E c \in Config :
       SwitchActive(c) /\ UNCHANGED <<createVars, deleteVars, sweep, readVars>>

Spec == Init /\ [][Next]_vars

\* A thread that runs is scheduled, and the daily retention job keeps coming.
Fairness ==
  /\ \A t \in Thread : WF_vars(Step(t))
  /\ \A t \in Sched : WF_vars(StartRetention(t) /\ UNCHANGED readVars)

FairSpec == Spec /\ Fairness

-----------------------------------------------------------------------------
Label == {"idle"} \cup TryBlock \cup
  {"notify_success", "cleanup", "insert_failed", "save_error", "notify_failed",
   "exists", "unlink", "delete", "enforce", "prune", "select_age",
   "purge_failed", "find_file", "verify", "read", "send"}

\* Each variable holds values of its kind.
TypeOK ==
  /\ pc \in [Thread -> Label]
  /\ records \in SUBSET BackupRecord
  /\ lastId \in Nat
  /\ row \in [Config -> [is_active : BOOLEAN, last_successful_backup : BOOLEAN,
                         last_backup_error : BOOLEAN]]
  /\ files \in [Name -> Content]
  /\ doomed \in SUBSET Doomed
  /\ struck \in SUBSET Faults
  /\ faults \in 0 .. MaxFaults
  /\ attempt \in [Thread -> Attempt]
  /\ lastName \in 0 .. MaxAttempts
  /\ outcome \in [Name -> {"open", "success", "failure"}]
  /\ notices \in SUBSET Notice
  /\ victim \in [Thread -> Doomed]
  /\ refused \in SUBSET BackupRecord
  /\ sweep \in [Thread -> Sweep]
  /\ reading \in [Thread -> Reading]
  /\ delivered \in SUBSET Reading

IsDoomed(r) == \E d \in doomed : d.rec = r

\* Every backup that was ever recorded: its row is there, or was given up.
Recorded ==
  {r \in records : r.status = "success"} \cup
  {r \in {d.rec : d \in doomed} : r.status = "success"}

\* A backup the user was told had succeeded is on the disk, with its row, until
\* somebody decides to delete it - whatever fails or crashes in between, and
\* whoever else is creating, pruning or restoring (create_backup sends the
\* notification last, and only a deletion unlinks a recorded file after it).
AnnouncedBackupIsKept ==
  \A n \in Name :
    [filename |-> n, event |-> "backup_success"] \in notices =>
      \E r \in Recorded : r.filename = n /\ (IsDoomed(r) \/ OnDisk(r))

\* A row of a successful backup whose file is gone is being deleted, or its
\* deletion was interrupted; the only other way is a failed save of the
\* configuration after the row was inserted.
NoSilentLoss ==
  \A r \in records :
    r.status = "success" /\ ~OnDisk(r) =>
      IsDoomed(r) \/ "save_success" \in struck

\* A file no row names belongs to an attempt under way, or to one that died before it
\* had an outcome, or to one that failed and could not remove it: an attempt that
\* succeeded, and a deletion, never leave one behind.
OrphansExplained ==
  \A n \in Name :
    files[n] # "absent" =>
      \/ \E r \in records : r.file_path = n
      \/ \E t \in Thread : attempt[t].filename = n
      \/ outcome[n] = "open" /\ "crash" \in struck
      \/ outcome[n] = "failure" /\ "cleanup" \in struck

\* One attempt leaves one row, a success or a failure, unless the save of the
\* configuration fails between the two.
OneRowPerAttempt ==
  \A r, s \in records :
    r.filename = s.filename => r = s \/ "save_success" \in struck

\* An attempt that ended is announced by the notification of its outcome and by
\* no other, unless the exception handler itself failed.
NoticeMatchesOutcome ==
  \A n \in Name :
    LET said(e) == [filename |-> n, event |-> e] \in notices IN
    /\ said("backup_success") <=> outcome[n] = "success"
    /\ said("backup_failed") => outcome[n] = "failure"
    /\ outcome[n] = "failure" => \/ said("backup_failed")
                                 \/ struck \cap {"insert_failed", "save_error"} # {}

\* Whatever users create and delete while the retention loop works on a query that
\* grows stale, the newest max_backups backups of a configuration survive, except
\* those a user deleted or the age limit gave up.
NewestAreKept ==
  MaxBackups > 0 =>
    \A r \in Recorded :
      \/ Cardinality(NewerThan(r, Recorded)) >= MaxBackups
      \/ \E d \in doomed : d.rec = r /\ d.why # "count"
      \/ r \in records /\ (OnDisk(r) \/ "save_success" \in struck)

\* A Pi-hole imports, and a browser receives, a complete backup that was recorded
\* as a success, never a file still being written, unless its bytes rotted.
DeliveredIsComplete ==
  \A d \in delivered :
    /\ d.rec.status = "success"
    /\ d.content = "whole" \/ "damage" \in struck

\* A row goes only after the file it names (ADR-0011, bug 10): no step removes
\* the row of a backup whose file is still on the disk.
FileGoesBeforeRow ==
  [][\A r \in records : r \notin records' => ~OnDisk(r)]_vars

-----------------------------------------------------------------------------
(* The catalogue of backups that these threads implement together.         *)

Available == {r \in records : r.status = "success" /\ OnDisk(r)}

Condemned == {r \in {d.rec : d \in doomed} : r.status = "success"}

Catalog == INSTANCE BackupCatalog
             WITH available <- Available, condemned <- Condemned

\* As long as saving the configuration row does not fail, every behaviour of the
\* application is one of the catalogue.
ImplementsCatalog == Catalog!Spec

\* The retention job catches up with a configuration that stays active: whatever it
\* failed to delete, whatever was interrupted, and whatever was backed up while the
\* configuration was inactive, it retries until max_backups is respected
\* (retention_service.py: "If deletion failed, it will be retried next run").  An
\* inactive configuration, which takes manual backups, is never pruned: enforce_all
\* asks for is_active.
RetentionConverges ==
  \A c \in Config :
    <>[]row[c].is_active =>
      <>[](MaxBackups > 0 => Cardinality(Succeeded(c)) <= MaxBackups)

-----------------------------------------------------------------------------
(* What the comments and documents say, and the code does not do.          *)

\* backup_service.py:167 "Clean up partial file": what the handler of a failed
\* attempt unlinks is never the file of a backup that was recorded.
CleanupSparesRecordedFiles ==
  [][\A t \in Thread, r \in records :
       pc[t] = "cleanup" /\ r.status = "success" /\ OnDisk(r) => OnDisk(r)']_vars

\* views.py:200 "Backup file could not be deleted; it will be retried": the record
\* a user was told this about eventually goes.
RefusedDeleteIsRetried ==
  \A n \in Name :
    (\E r \in refused : r.filename = n) ~> ~ (\E r \in records : r.filename = n)
=============================================================================
