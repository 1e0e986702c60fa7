--------------------------- MODULE BackupService ---------------------------
(***************************************************************************)
(* services/backup_service.py: create_backup and the deletion every caller *)
(* shares, delete_backup_file_and_record, with the two views that run them *)
(* in a request thread.  A scheduler thread creates backups too.           *)
(***************************************************************************)
EXTENDS BackupStore

VARIABLES
  attempt,   \* the locals of a thread's create_backup
  lastName,  \* names given so far
  outcome,   \* history: how each attempt ended for its caller
  notices,   \* history: the notifications handed to the service
  victim,    \* the record a thread deletes, and for whom
  refused    \* history: records whose deletion the view answered with 500

createVars == <<attempt, lastName, outcome, notices>>
deleteVars == <<victim, refused>>

Attempt == [config : Config \cup {None}, filename : Name \cup {NoName},
            checksum : Content]

NoAttempt == [config |-> None, filename |-> NoName, checksum |-> "absent"]

NoVictim == [rec |-> NoRecord, why |-> "user"]

Event == {"backup_success", "backup_failed", "restore_success", "restore_failed"}

Notice == [filename : Name \cup {NoName}, event : Event]

ServiceInit ==
  /\ attempt = [t \in Thread |-> NoAttempt]
  /\ lastName = 0
  /\ outcome = [n \in Name |-> "open"]
  /\ notices = {}
  /\ victim = [t \in Thread |-> NoVictim]
  /\ refused = {}

-----------------------------------------------------------------------------
(* create_backup, statement by statement.                                  *)

Notify(filename, event) ==
  notices' = notices \cup {[filename |-> filename, event |-> event]}

\* Return to the caller, or raise to it.
EndAttempt(t, result) ==
  /\ outcome' = [outcome EXCEPT ![attempt[t].filename] = result]
  /\ attempt' = [attempt EXCEPT ![t] = NoAttempt]
  /\ Goto(t, "idle")

\* Mutant: names made of the configuration and the second only, without a uuid.
StartBackupWithoutUuid(t, c) ==
  /\ "backup" \in Requests
  /\ Idle(t)
  /\ lastName < MaxAttempts
  /\ lastName' = lastName + 1
  /\ attempt' = [attempt EXCEPT ![t] = [config |-> c, filename |-> 1,
                                        checksum |-> "absent"]]
  /\ Goto(t, "download")
  /\ NoFault
  /\ UNCHANGED <<outcome, notices, doomed>>
  /\ UNCHANGED <<tableVars, fileVars, deleteVars>>

\* A manual backup takes no lock and does not ask whether the configuration is
\* active; a scheduled one runs in a thread of the scheduler, which has looked.
StartBackup(t, c) ==
  /\ "backup" \in Requests
  /\ Idle(t)
  /\ lastName < MaxAttempts
  /\ lastName' = lastName + 1
  /\ attempt' = [attempt EXCEPT ![t] = [config |-> c, filename |-> lastName + 1,
                                        checksum |-> "absent"]]
  /\ Goto(t, "download")
  /\ NoFault
  /\ UNCHANGED <<outcome, notices, doomed>>
  /\ UNCHANGED <<tableVars, fileVars, deleteVars>>

Download(t) ==
  /\ pc[t] = "download"
  /\ Goto(t, "open")
  /\ NoFault
  /\ UNCHANGED <<tableVars, fileVars, createVars, deleteVars, doomed>>

\* with open(filepath, "wb") creates the file empty.
OpenFile(t) ==
  /\ pc[t] = "open"
  /\ files' = [files EXCEPT ![attempt[t].filename] = "partial"]
  /\ Goto(t, "write")
  /\ NoFault
  /\ UNCHANGED <<tableVars, createVars, deleteVars, doomed>>

WriteFile(t) ==
  /\ pc[t] = "write"
  /\ files' = [files EXCEPT ![attempt[t].filename] = "whole"]
  /\ Goto(t, "checksum")
  /\ NoFault
  /\ UNCHANGED <<tableVars, createVars, deleteVars, doomed>>

\* The checksum is that of the file read back, not of the bytes received.
Checksum(t) ==
  /\ pc[t] = "checksum"
  /\ attempt' = [attempt EXCEPT ![t].checksum = files[attempt[t].filename]]
  /\ Goto(t, "insert_success")
  /\ NoFault
  /\ UNCHANGED <<lastName, outcome, notices, doomed>>
  /\ UNCHANGED <<tableVars, fileVars, deleteVars>>

\* Mutant: the success is announced before the configuration is saved.
InsertSuccessAndNotify(t) ==
  /\ pc[t] = "insert_success"
  /\ LET a == attempt[t] IN
       Insert(a.config, a.filename, a.filename, a.checksum, "success")
  /\ Notify(attempt[t].filename, "backup_success")
  /\ Goto(t, "save_success")
  /\ NoFault
  /\ UNCHANGED <<fileVars, attempt, lastName, outcome, deleteVars, doomed>>

InsertSuccess(t) ==
  /\ pc[t] = "insert_success"
  /\ LET a == attempt[t] IN
       Insert(a.config, a.filename, a.filename, a.checksum, "success")
  /\ Goto(t, "save_success")
  /\ NoFault
  /\ UNCHANGED <<fileVars, createVars, deleteVars, doomed>>

SaveSuccess(t) ==
  /\ pc[t] = "save_success"
  /\ row' = [row EXCEPT ![attempt[t].config] =
               [@ EXCEPT !.last_successful_backup = TRUE, !.last_backup_error = FALSE]]
  /\ Goto(t, "notify_success")
  /\ NoFault
  /\ UNCHANGED <<records, lastId, doomed>>
  /\ UNCHANGED <<fileVars, createVars, deleteVars>>

\* safe_send_notification swallows its exceptions: nothing fails from here on.
NotifySuccess(t) ==
  /\ pc[t] = "notify_success"
  /\ Notify(attempt[t].filename, "backup_success")
  /\ EndAttempt(t, "success")
  /\ NoFault
  /\ UNCHANGED <<lastName, doomed>>
  /\ UNCHANGED <<tableVars, fileVars, deleteVars>>

\* Mutant: the notification is sent inside the try block and may raise.
TryBlockWithNotify ==
  {"download", "open", "write", "checksum", "insert_success", "save_success",
   "notify_success"}

\* Whatever statement of the try block raises, the one handler takes over.
TryBlock ==
  {"download", "open", "write", "checksum", "insert_success", "save_success"}

\* Mutant: the handler does not remove the file it had opened.
AttemptFailsWithoutCleanup(t) ==
  /\ pc[t] \in TryBlock
  /\ Strike(pc[t])
  /\ Goto(t, "insert_failed")
  /\ UNCHANGED <<tableVars, fileVars, createVars, deleteVars, doomed>>

\* Mutant: a short write goes unnoticed.
AttemptFailsExceptWrite(t) ==
  /\ pc[t] \in TryBlock
  /\ Strike(pc[t])
  /\ Goto(t, IF pc[t] = "write" THEN "checksum" ELSE "cleanup")
  /\ UNCHANGED <<tableVars, fileVars, createVars, deleteVars, doomed>>

AttemptFails(t) ==
  /\ pc[t] \in TryBlock
  /\ Strike(pc[t])
  /\ Goto(t, "cleanup")
  /\ UNCHANGED <<tableVars, fileVars, createVars, deleteVars, doomed>>

\* _safe_cleanup; exists() and unlink() are one step, since a file that goes
\* between them raises an OSError that is swallowed: the outcome is the same.
Cleanup(t) ==
  /\ pc[t] = "cleanup"
  /\ \/ NoFault /\ files' = [files EXCEPT ![attempt[t].filename] = "absent"]
     \/ Strike("cleanup") /\ UNCHANGED files
  /\ Goto(t, "insert_failed")
  /\ UNCHANGED <<tableVars, createVars, deleteVars, doomed>>

\* Mutant: a status that is not one of BackupRecord.STATUS_CHOICES.
InsertFailedAsError(t) ==
  /\ pc[t] = "insert_failed"
  /\ Insert(attempt[t].config, attempt[t].filename, NoName, "absent", "error")
  /\ Goto(t, "save_error")
  /\ NoFault
  /\ UNCHANGED <<fileVars, createVars, deleteVars, doomed>>

InsertFailed(t) ==
  /\ pc[t] = "insert_failed"
  /\ Insert(attempt[t].config, attempt[t].filename, NoName, "absent", "failed")
  /\ Goto(t, "save_error")
  /\ NoFault
  /\ UNCHANGED <<fileVars, createVars, deleteVars, doomed>>

SaveError(t) ==
  /\ pc[t] = "save_error"
  /\ row' = [row EXCEPT ![attempt[t].config].last_backup_error = TRUE]
  /\ Goto(t, "notify_failed")
  /\ NoFault
  /\ UNCHANGED <<records, lastId, doomed>>
  /\ UNCHANGED <<fileVars, createVars, deleteVars>>

NotifyFailed(t) ==
  /\ pc[t] = "notify_failed"
  /\ Notify(attempt[t].filename, "backup_failed")
  /\ EndAttempt(t, "failure")
  /\ NoFault
  /\ UNCHANGED <<lastName, doomed>>
  /\ UNCHANGED <<tableVars, fileVars, deleteVars>>

\* Nothing catches an exception that the handler itself raises.
HandlerFails(t) ==
  /\ pc[t] \in {"insert_failed", "save_error"}
  /\ Strike(pc[t])
  /\ EndAttempt(t, "failure")
  /\ UNCHANGED <<lastName, notices, doomed>>
  /\ UNCHANGED <<tableVars, fileVars, deleteVars>>

CreateStep(t) ==
  \/ Download(t) \/ OpenFile(t) \/ WriteFile(t) \/ Checksum(t)
  \/ InsertSuccess(t) \/ SaveSuccess(t) \/ NotifySuccess(t)
  \/ AttemptFails(t) \/ Cleanup(t) \/ InsertFailed(t) \/ SaveError(t)
  \/ NotifyFailed(t) \/ HandlerFails(t)

-----------------------------------------------------------------------------
(* delete_backup_file_and_record.                                          *)

\* The delete view reads the record, then calls the service with that copy.
StartDelete(t, r) ==
  /\ "delete" \in Requests
  /\ Idle(t)
  /\ victim' = [victim EXCEPT ![t] = [rec |-> r, why |-> "user"]]
  /\ doomed' = doomed \cup {[rec |-> r, why |-> "user"]}
  /\ Goto(t, "exists")
  /\ NoFault
  /\ UNCHANGED refused
  /\ UNCHANGED <<tableVars, fileVars, createVars>>

\* Back in the view, or in the retention loop that took the record.
EndDelete(t) ==
  /\ Goto(t, IF victim[t].why = "user" THEN "idle" ELSE "prune")
  /\ victim' = [victim EXCEPT ![t] = NoVictim]

\* Mutant: a record whose file is missing is left alone.
CheckExistsOrGiveUp(t) ==
  /\ pc[t] = "exists"
  /\ IF OnDisk(victim[t].rec) THEN Goto(t, "unlink") /\ UNCHANGED victim
                              ELSE EndDelete(t)
  /\ NoFault
  /\ UNCHANGED refused
  /\ UNCHANGED <<tableVars, fileVars, createVars, doomed>>

CheckExists(t) ==
  /\ pc[t] = "exists"
  /\ Goto(t, IF OnDisk(victim[t].rec) THEN "unlink" ELSE "delete")
  /\ NoFault
  /\ UNCHANGED <<tableVars, fileVars, createVars, deleteVars, doomed>>

Unlink(t) ==
  /\ pc[t] = "unlink"
  /\ OnDisk(victim[t].rec)
  /\ files' = [files EXCEPT ![victim[t].rec.file_path] = "absent"]
  /\ Goto(t, "delete")
  /\ NoFault
  /\ UNCHANGED <<tableVars, createVars, deleteVars, doomed>>

\* Mutant: the record is deleted although its file could not be.
UnlinkFailsAndGoesOn(t) ==
  /\ pc[t] = "unlink"
  /\ \/ ~OnDisk(victim[t].rec) /\ NoFault
     \/ OnDisk(victim[t].rec) /\ Strike("unlink")
  /\ Goto(t, "delete")
  /\ UNCHANGED <<tableVars, fileVars, createVars, deleteVars, doomed>>

\* Any OSError keeps the record and returns False: also the FileNotFoundError
\* of a thread that another one overtook since exists().
UnlinkFails(t) ==
  /\ pc[t] = "unlink"
  /\ \/ ~OnDisk(victim[t].rec) /\ NoFault
     \/ OnDisk(victim[t].rec) /\ Strike("unlink")
  /\ refused' = IF victim[t].why = "user"
                THEN refused \cup {victim[t].rec} ELSE refused
  /\ EndDelete(t)
  /\ UNCHANGED <<tableVars, fileVars, createVars, doomed>>

\* Deleting a row that is gone already affects no row and raises nothing.
DeleteRow(t) ==
  /\ pc[t] = "delete"
  /\ records' = records \ {victim[t].rec}
  /\ EndDelete(t)
  /\ NoFault
  /\ UNCHANGED <<lastId, row, refused, doomed>>
  /\ UNCHANGED <<fileVars, createVars>>

\* The view answers with the error.
DeleteRowFails(t) ==
  /\ pc[t] = "delete"
  /\ victim[t].why = "user"
  /\ Strike("delete")
  /\ EndDelete(t)
  /\ UNCHANGED <<refused, doomed>>
  /\ UNCHANGED <<tableVars, fileVars, createVars>>

DeleteStep(t) ==
  \/ CheckExists(t) \/ Unlink(t) \/ UnlinkFails(t)
  \/ DeleteRow(t) \/ DeleteRowFails(t)
=============================================================================
