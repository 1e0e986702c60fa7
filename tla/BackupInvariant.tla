-------------------------- MODULE BackupInvariant --------------------------
(***************************************************************************)
(* The inductive invariants behind the theorems about BackupSystem: IInv,  *)
(* and RowInv, which is inductive beside it.  BackupSystem_proofs and      *)
(* BackupRows_proofs prove that they are.                                  *)
(***************************************************************************)
EXTENDS BackupSystem

Creating == TryBlock \cup
  {"notify_success", "cleanup", "insert_failed", "save_error", "notify_failed"}

\* Every row that any thread can still hold a copy of a decision about.
Known == records \cup {d.rec : d \in doomed}

\* An attempt has a name of its own as long as it runs.
AttemptsOwnNames ==
  /\ \A t \in Thread :
       /\ pc[t] \in Creating <=> attempt[t].filename # NoName
       /\ attempt[t].filename # NoName => attempt[t].config \in Config
       /\ attempt[t].filename <= lastName
  /\ \A t, u \in Thread :
       attempt[t].filename = attempt[u].filename /\ t # u
         => attempt[t].filename = NoName

RowsNameTheirFile ==
  \A r \in Known :
    /\ r.filename \in 1 .. lastName
    /\ r.config \in Config
    /\ r.file_path = IF r.status = "success" THEN r.filename ELSE NoName

OneSuccessPerName ==
  \A r, s \in Recorded : r.filename = s.filename => r = s

\* Until its row is inserted, nobody else knows the file of an attempt.
UnrecordedIsPrivate ==
  \A t \in Thread :
    /\ pc[t] \in TryBlock \ {"save_success"} =>
         \A r \in Known : r.filename # attempt[t].filename
    /\ pc[t] \in {"checksum", "insert_success"} =>
         files[attempt[t].filename] # "absent"

\* What a thread is deleting, or is about to, was condemned by a decision.
DeletionsAreDoomed ==
  \A t \in Thread :
    /\ pc[t] \in {"exists", "unlink", "delete"} => victim[t] \in doomed
    /\ \A r \in sweep[t].todo : [rec |-> r, why |-> sweep[t].why] \in doomed

FileIsGoneAtDelete ==
  \A t \in Thread : pc[t] = "delete" => ~OnDisk(victim[t].rec)

\* A recorded attempt reaches the handler only through the save that follows.
RecordedIsCleanedOnlyAfterSave ==
  \A t \in Thread, r \in Recorded :
    pc[t] = "cleanup" /\ r.filename = attempt[t].filename
      => "save_success" \in struck

Kept(n) ==
  \E r \in Recorded : r.filename = n /\ (IsDoomed(r) \/ OnDisk(r))

\* From the insertion of its row to the announcement, and after it.
AnnouncementIsTrue ==
  /\ \A t \in Thread :
       pc[t] \in {"save_success", "notify_success"} => Kept(attempt[t].filename)
  /\ \A n \in Name :
       [filename |-> n, event |-> "backup_success"] \in notices =>
         /\ Kept(n)
         /\ \A t \in Thread : attempt[t].filename # n

IInv ==
  /\ TypeOK
  /\ AttemptsOwnNames
  /\ RowsNameTheirFile
  /\ OneSuccessPerName
  /\ UnrecordedIsPrivate
  /\ DeletionsAreDoomed
  /\ FileIsGoneAtDelete
  /\ RecordedIsCleanedOnlyAfterSave
  /\ NoSilentLoss
  /\ AnnouncementIsTrue

-----------------------------------------------------------------------------
(* RowInv: what rows, files, outcomes and readers say of each attempt.     *)


\* Until the handler inserts its row, no row names the attempt, unless the save of
\* the configuration failed after the row of the success.
HandlerInsertsFirst ==
  \A t \in Thread :
    pc[t] \in {"cleanup", "insert_failed"} =>
      "save_success" \in struck \/ \A r \in Known : r.filename # attempt[t].filename

NamesARow(n) == \E r \in records : r.file_path = n

\* A file is named by its row, or its attempt is still under way.
FilesHaveOwners ==
  /\ OrphansExplained
  /\ \A t \in Thread :
       LET n == attempt[t].filename IN
       /\ pc[t] \in {"save_success", "notify_success"} =>
            files[n] = "absent" \/ NamesARow(n)
       /\ pc[t] \in {"insert_failed", "save_error", "notify_failed"} =>
            files[n] = "absent" \/ "cleanup" \in struck

\* An attempt that is under way, or has not begun, has no outcome yet.
OutcomesAreOpen ==
  \A n \in Name :
    n > lastName \/ (\E t \in Thread : attempt[t].filename = n) => outcome[n] = "open"

\* A file that is not whole belongs to no success and to no attempt that wrote it.
PartialIsUnrecorded ==
  \A n \in Name :
    /\ files[n] = "damaged" => "damage" \in struck
    /\ files[n] = "partial" =>
         /\ \A r \in Recorded : r.filename # n
         /\ \A t \in Thread : attempt[t].filename = n =>
              pc[t] \notin {"checksum", "insert_success", "save_success", "notify_success"}

\* A reader works on a row that was in the table, and holds a whole file or none.
ReadersHoldRows ==
  \A t \in Thread :
    LET d == reading[t] IN
    /\ pc[t] \in {"find_file", "verify", "read", "send"} =>
         /\ d.rec.file_path = IF d.rec.status = "success" THEN d.rec.filename ELSE NoName
         /\ d.rec.status = "success" => d.rec \in Recorded
    /\ pc[t] \in {"verify", "read", "send"} => d.rec.status = "success"
    /\ pc[t] = "send" => d.content = "whole" \/ "damage" \in struck

\* What was condemned by its number had max_backups newer successes, and they stay
\* on record.
CountedHaveNewer ==
  /\ IsFiniteSet(Known)
  /\ \A d \in doomed :
       d.why = "count" => Cardinality(NewerThan(d.rec, Recorded)) >= MaxBackups

RowInv ==
  /\ HandlerInsertsFirst
  /\ OneRowPerAttempt
  /\ FilesHaveOwners
  /\ OutcomesAreOpen
  /\ NoticeMatchesOutcome
  /\ PartialIsUnrecorded
  /\ ReadersHoldRows
  /\ DeliveredIsComplete
  /\ CountedHaveNewer
=============================================================================
