---------------------------- MODULE BackupStore ----------------------------
(***************************************************************************)
(* What the services of the application share: the two SQLite tables, the  *)
(* backup directory, and the threads that run requests and jobs.           *)
(*                                                                         *)
(* SQLite runs in autocommit mode (the settings name no ATOMIC_REQUESTS),  *)
(* so each statement is one atomic step and a thread can be interrupted    *)
(* between any two of them.  So is each call on the file system.           *)
(***************************************************************************)
EXTENDS Integers, FiniteSets

CONSTANTS
  Config,       \* the rows of PiholeConfig
  Web,          \* request threads of gunicorn
  Sched,        \* worker threads of the scheduler process
  Requests,     \* the requests users send, the jobs that fall due, and "switch"
  MaxAttempts,  \* bound on the calls of create_backup
  MaxBackups,   \* PiholeConfig.max_backups; 0 keeps every backup
  AgeLimit,     \* PiholeConfig.max_age_days > 0
  Faults,       \* the steps at which the environment may fail
  MaxFaults,    \* bound on the failures of one behaviour
  None          \* no configuration

ASSUME StoreAssumption ==
  /\ MaxAttempts \in Nat
  /\ MaxBackups \in Nat
  /\ MaxFaults \in Nat
  /\ AgeLimit \in BOOLEAN
  /\ IsFiniteSet(Config)
  /\ None \notin Config

VARIABLES
  pc,        \* the statement each thread executes next
  records,   \* the table of BackupRecord
  lastId,    \* AUTOINCREMENT: ids are never given twice and order created_at
  row,       \* what a PiholeConfig row says: is it active, and of its backups
  files,     \* the content of each file of BACKUP_DIR
  doomed,    \* history: the records whose deletion was decided, and why
  struck,    \* history: the steps at which the environment failed
  faults     \* how often it failed

fileVars == <<files>>
tableVars == <<records, lastId, row>>
faultVars == <<struck, faults>>

Thread == Web \cup Sched

\* The uuid suffix makes each attempt's file name a new one.
Name == 1 .. MaxAttempts
NoName == 0

\* open() truncates, so a file is partial until the write has ended; damaged
\* stands for every content that differs from the one that was written.
Content == {"absent", "partial", "whole", "damaged"}

BackupRecord ==
  [id : Nat, config : Config \cup {None}, filename : Name \cup {NoName},
   file_path : Name \cup {NoName}, checksum : Content,
   status : {"success", "failed"}]

NoRecord ==
  [id |-> 0, config |-> None, filename |-> NoName, file_path |-> NoName,
   checksum |-> "absent", status |-> "failed"]

Why == {"user", "count", "age"}

Doomed == [rec : BackupRecord, why : Why]

Idle(t) == pc[t] = "idle"

Goto(t, label) == pc' = [pc EXCEPT ![t] = label]

\* resolve_backup_path(r) exists: BACKUP_DIR holds the file the record names.
OnDisk(r) == r.file_path # NoName /\ files[r.file_path] # "absent"

Insert(config, filename, file_path, checksum, status) ==
  /\ records' = records \cup
       {[id |-> lastId + 1, config |-> config, filename |-> filename,
         file_path |-> file_path, checksum |-> checksum, status |-> status]}
  /\ lastId' = lastId + 1
  /\ UNCHANGED row

Succeeded(c) == {r \in records : r.config = c /\ r.status = "success"}

NewerThan(r, S) == {s \in S : s.config = r.config /\ s.id > r.id}

\* Mutant: one backup too few survives.
ExcessByOne(c) ==
  {r \in Succeeded(c) :
     MaxBackups > 0 /\ Cardinality(NewerThan(r, Succeeded(c))) >= MaxBackups - 1}

\* order_by("-created_at")[max_backups:], skipped when max_backups is 0.
Excess(c) ==
  {r \in Succeeded(c) :
     MaxBackups > 0 /\ Cardinality(NewerThan(r, Succeeded(c))) >= MaxBackups}

\* A failure of the environment: an exception raised by the statement named.
Strike(kind) ==
  /\ kind \in Faults
  /\ faults < MaxFaults
  /\ faults' = faults + 1
  /\ struck' = struck \cup {kind}

NoFault == UNCHANGED faultVars

StoreInit ==
  /\ pc = [t \in Thread |-> "idle"]
  /\ records = {}
  /\ lastId = 0
  /\ row = [c \in Config |-> [is_active |-> TRUE, last_successful_backup |-> FALSE,
                              last_backup_error |-> FALSE]]
  /\ files = [n \in Name |-> "absent"]
  /\ doomed = {}
  /\ struck = {}
  /\ faults = 0

\* Bytes of a stored file rot on the disk.
Damage(n) ==
  /\ files[n] = "whole"
  /\ Strike("damage")
  /\ files' = [files EXCEPT ![n] = "damaged"]
  /\ UNCHANGED <<pc, doomed>>
  /\ UNCHANGED tableVars

\* The admin's form and the discovery switch a configuration off and on again.
SwitchActive(c) ==
  /\ "switch" \in Requests
  /\ row' = [row EXCEPT ![c].is_active = ~@]
  /\ NoFault
  /\ UNCHANGED <<pc, records, lastId, doomed>>
  /\ UNCHANGED fileVars
=============================================================================
