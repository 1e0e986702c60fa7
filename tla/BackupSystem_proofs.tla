------------------------ MODULE BackupSystem_proofs ------------------------
(***************************************************************************)
(* What holds of BackupSystem for every set of configurations, threads and *)
(* faults, and for every bound: its types, the parts of IInv, and that it  *)
(* implements BackupCatalog when the save of a configuration never fails.  *)
(***************************************************************************)
EXTENDS BackupInvariant, TLAPS

-----------------------------------------------------------------------------
(* Types.                                                                  *)

\* The values of idle threads have their types.
LEMMA IdleValues ==
  /\ NoRecord \in BackupRecord
  /\ NoAttempt \in Attempt
  /\ NoVictim \in Doomed
  /\ NoSweep \in Sweep
  /\ NoReading \in Reading
<1>1. NoRecord \in BackupRecord
  BY DEF NoRecord, BackupRecord, Content
<1> QED
  BY <1>1 DEF NoAttempt, Attempt, NoVictim, Doomed, Why, NoSweep, Sweep,
              NoReading, Reading, Target, Content

\* The initial state has its types.
LEMMA TypeInit ==
  ASSUME StoreAssumption, Init
  PROVE  TypeOK
<1> USE IdleValues DEF Init, TypeOK
<1>1. /\ pc \in [Thread -> Label]
      /\ records \in SUBSET BackupRecord
      /\ lastId \in Nat
      /\ row \in [Config -> [is_active : BOOLEAN, last_successful_backup : BOOLEAN,
                             last_backup_error : BOOLEAN]]
      /\ files \in [Name -> Content]
      /\ doomed \in SUBSET Doomed
      /\ struck \in SUBSET Faults
      /\ faults \in 0 .. MaxFaults
  BY DEF StoreInit, Label, Content, StoreAssumption
<1>2. /\ attempt \in [Thread -> Attempt]
      /\ lastName \in 0 .. MaxAttempts
      /\ outcome \in [Name -> {"open", "success", "failure"}]
      /\ notices \in SUBSET Notice
      /\ victim \in [Thread -> Doomed]
      /\ refused \in SUBSET BackupRecord
  BY DEF ServiceInit, StoreAssumption
<1> QED
  BY <1>1, <1>2 DEF RetentionInit, RestoreInit


\* The steps of create_backup keep the types: a running attempt has a name and
\* a configuration, so the cells it assigns exist.
LEMMA TypeCreate ==
  ASSUME StoreAssumption, TypeOK, AttemptsOwnNames, NEW t \in Thread, CreateStep(t)
  PROVE  /\ pc' \in [Thread -> Label]
         /\ records' \in SUBSET BackupRecord
         /\ lastId' \in Nat
         /\ row' \in [Config -> [is_active : BOOLEAN, last_successful_backup : BOOLEAN, last_backup_error : BOOLEAN]]
         /\ files' \in [Name -> Content]
         /\ doomed' \in SUBSET Doomed
         /\ struck' \in SUBSET Faults
         /\ faults' \in 0 .. MaxFaults
         /\ attempt' \in [Thread -> Attempt]
         /\ lastName' \in 0 .. MaxAttempts
         /\ outcome' \in [Name -> {"open", "success", "failure"}]
         /\ notices' \in SUBSET Notice
         /\ victim' \in [Thread -> Doomed]
         /\ refused' \in SUBSET BackupRecord
<1> USE DEF TypeOK, Goto, NoFault, Strike, faultVars, tableVars, fileVars, createVars, deleteVars
<1>0. pc[t] \in Creating => attempt[t].filename \in Name /\ attempt[t].config \in Config
  BY DEF AttemptsOwnNames, Name, NoName, Attempt
<1> USE DEF Creating, TryBlock, Label
<1>1. CASE Download(t) \/ AttemptFails(t)
  BY <1>1 DEF Download, AttemptFails
<1>2. CASE OpenFile(t) \/ WriteFile(t) \/ Cleanup(t)
  BY <1>2 DEF OpenFile, WriteFile, Cleanup, Content
<1>3. CASE Checksum(t)
  <2>1. files[attempt[t].filename] \in Content
    BY <1>0, <1>3 DEF Checksum
  <2>2. attempt' \in [Thread -> Attempt]
    BY <1>3, <2>1 DEF Checksum, Attempt
  <2> QED BY <1>3, <2>2 DEF Checksum
<1>4. CASE InsertSuccess(t) \/ InsertFailed(t)
  <2>1. attempt[t] \in Attempt
    BY DEF TypeOK
  <2>2. [id |-> lastId + 1, config |-> attempt[t].config, filename |-> attempt[t].filename,
         file_path |-> attempt[t].filename, checksum |-> attempt[t].checksum,
         status |-> "success"] \in BackupRecord
    BY <2>1 DEF Attempt, BackupRecord
  <2>3. [id |-> lastId + 1, config |-> attempt[t].config, filename |-> attempt[t].filename,
         file_path |-> NoName, checksum |-> "absent", status |-> "failed"] \in BackupRecord
    BY <2>1 DEF Attempt, BackupRecord, Content
  <2>4. records' \in SUBSET BackupRecord /\ lastId' \in Nat
    BY <1>4, <2>2, <2>3 DEF InsertSuccess, InsertFailed, Insert
  <2> QED BY <1>4, <2>4 DEF InsertSuccess, InsertFailed, Insert
<1>5. CASE SaveSuccess(t) \/ SaveError(t)
  <2>1. row' \in [Config -> [is_active : BOOLEAN, last_successful_backup : BOOLEAN, last_backup_error : BOOLEAN]]
    <3>1. CASE SaveSuccess(t)
      BY <3>1 DEF SaveSuccess
    <3>2. CASE SaveError(t)
      BY <3>2 DEF SaveError
    <3> QED BY <1>5, <3>1, <3>2
  <2> QED BY <1>5, <2>1 DEF SaveSuccess, SaveError
<1>6. ASSUME NEW result \in {"success", "failure"}, EndAttempt(t, result)
      PROVE  /\ outcome' \in [Name -> {"open", "success", "failure"}]
             /\ attempt' \in [Thread -> Attempt]
             /\ pc' \in [Thread -> Label]
  <2>1. NoAttempt \in Attempt
    BY DEF NoAttempt, Attempt, Content
  <2> QED BY <1>6, <2>1 DEF EndAttempt
<1>7. ASSUME NEW event \in Event, Notify(attempt[t].filename, event)
      PROVE  notices' \in SUBSET Notice
  BY <1>7 DEF Notify, Notice, Attempt
<1>8. CASE NotifySuccess(t)
  <2>1. EndAttempt(t, "success") /\ Notify(attempt[t].filename, "backup_success")
    BY <1>8 DEF NotifySuccess
  <2>2. "backup_success" \in Event
    BY DEF Event
  <2> QED BY <1>6, <1>7, <1>8, <2>1, <2>2 DEF NotifySuccess
<1>9. CASE NotifyFailed(t)
  <2>1. EndAttempt(t, "failure") /\ Notify(attempt[t].filename, "backup_failed")
    BY <1>9 DEF NotifyFailed
  <2>2. "backup_failed" \in Event
    BY DEF Event
  <2> QED BY <1>6, <1>7, <1>9, <2>1, <2>2 DEF NotifyFailed
<1>10. CASE HandlerFails(t)
  <2>1. EndAttempt(t, "failure")
    BY <1>10 DEF HandlerFails
  <2> QED BY <1>6, <1>10, <2>1 DEF HandlerFails
<1> QED
  BY <1>1, <1>2, <1>3, <1>4, <1>5, <1>8, <1>9, <1>10 DEF CreateStep

\* The steps of a deletion keep the types.
LEMMA TypeDelete ==
  ASSUME StoreAssumption, TypeOK, NEW t \in Thread, DeleteStep(t)
  PROVE  /\ pc' \in [Thread -> Label]
         /\ records' \in SUBSET BackupRecord
         /\ files' \in [Name -> Content]
         /\ struck' \in SUBSET Faults
         /\ faults' \in 0 .. MaxFaults
         /\ victim' \in [Thread -> Doomed]
         /\ refused' \in SUBSET BackupRecord
         /\ UNCHANGED <<lastId, row, doomed, attempt, lastName, outcome, notices>>
<1> USE DEF TypeOK, Goto, NoFault, Strike, faultVars, tableVars, fileVars, createVars, deleteVars
<1>0. victim[t].rec \in BackupRecord
  BY DEF Doomed
<1>1. ASSUME EndDelete(t)
      PROVE  pc' \in [Thread -> Label] /\ victim' \in [Thread -> Doomed]
  BY <1>1, IdleValues DEF EndDelete, Label
<1>2. CASE CheckExists(t)
  BY <1>2 DEF CheckExists, Label
<1>3. CASE Unlink(t)
  BY <1>3 DEF Unlink, Label, Content
<1>4. CASE UnlinkFails(t)
  BY <1>0, <1>1, <1>4 DEF UnlinkFails
<1>5. CASE DeleteRow(t)
  BY <1>1, <1>5 DEF DeleteRow
<1>6. CASE DeleteRowFails(t)
  BY <1>1, <1>6 DEF DeleteRowFails
<1> QED
  BY <1>2, <1>3, <1>4, <1>5, <1>6 DEF DeleteStep

\* The steps of the retention job keep the types.
LEMMA TypeRetention ==
  ASSUME StoreAssumption, TypeOK, NEW t \in Thread, RetentionStep(t)
  PROVE  /\ pc' \in [Thread -> Label]
         /\ records' \in SUBSET BackupRecord
         /\ doomed' \in SUBSET Doomed
         /\ struck' \in SUBSET Faults
         /\ faults' \in 0 .. MaxFaults
         /\ victim' \in [Thread -> Doomed]
         /\ sweep' \in [Thread -> Sweep]
         /\ UNCHANGED <<lastId, row, files, attempt, lastName, outcome, notices, refused>>
<1> USE DEF TypeOK, Goto, NoFault, Strike, faultVars, tableVars, fileVars, createVars, deleteVars
<1>0. /\ sweep[t] \in Sweep
      /\ sweep[t].left \in SUBSET Config
      /\ sweep[t].config \in Config \cup {None}
      /\ sweep[t].todo \in SUBSET BackupRecord
      /\ sweep[t].why \in Why
  BY DEF Sweep
<1>1. ASSUME NEW selected \in SUBSET records, NEW why \in Why, Select(t, selected, why)
      PROVE  doomed' \in SUBSET Doomed
  BY <1>1 DEF Select, Doomed
<1>2. CASE \E c \in Config : SelectByCount(t, c)
  <2> PICK c \in Config : SelectByCount(t, c)
    BY <1>2
  <2>1. Excess(c) \in SUBSET records
    BY DEF Excess, Succeeded
  <2>2. doomed' \in SUBSET Doomed
    BY <1>1, <2>1 DEF SelectByCount, Why
  <2>3. [left |-> sweep[t].left \ {c}, config |-> c, todo |-> Excess(c), why |-> "count"]
          \in Sweep
    BY <1>0, <2>1 DEF Sweep, Why
  <2>4. sweep' \in [Thread -> Sweep]
    BY <2>3 DEF SelectByCount
  <2> QED BY <2>2, <2>4 DEF SelectByCount, Label
<1>3. CASE \E c \in Config : SkipConfig(t, c)
  <2> PICK c \in Config : SkipConfig(t, c)
    BY <1>3
  <2>1. sweep' = [sweep EXCEPT ![t] = [sweep[t] EXCEPT !.left = @ \ {c}]]
    BY DEF SkipConfig
  <2>2. [sweep[t] EXCEPT !.left = @ \ {c}] \in Sweep
    BY <1>0 DEF Sweep
  <2>3. sweep' \in [Thread -> Sweep]
    BY <2>1, <2>2
  <2> QED BY <2>3 DEF SkipConfig
<1>4. CASE EndRetention(t)
  BY <1>4, IdleValues DEF EndRetention, Label
<1>5. CASE PruneNext(t)
  <2> PICK r \in sweep[t].todo :
         /\ victim' = [victim EXCEPT ![t] = [rec |-> r, why |-> sweep[t].why]]
         /\ sweep' = [sweep EXCEPT ![t] = [sweep[t] EXCEPT !.todo = @ \ {r}]]
    BY <1>5 DEF PruneNext
  <2>1. [sweep[t] EXCEPT !.todo = @ \ {r}] \in Sweep
    BY <1>0 DEF Sweep
  <2>2. [rec |-> r, why |-> sweep[t].why] \in Doomed
    BY <1>0 DEF Doomed
  <2>3. sweep' \in [Thread -> Sweep] /\ victim' \in [Thread -> Doomed]
    BY <2>1, <2>2
  <2> QED BY <1>5, <2>3 DEF PruneNext, Label
<1>6. CASE PruneDone(t)
  BY <1>6 DEF PruneDone, Label
<1>7. CASE SelectByAge(t)
  <2> PICK cutoff \in 0 .. lastId :
         /\ Select(t, Aged(sweep[t].config, cutoff), "age")
         /\ sweep' = [sweep EXCEPT ![t] =
                        [sweep[t] EXCEPT !.todo = Aged(sweep[t].config, cutoff), !.why = "age"]]
    BY <1>7 DEF SelectByAge
  <2>1. Aged(sweep[t].config, cutoff) \in SUBSET records
    BY DEF Aged, Succeeded
  <2>2. doomed' \in SUBSET Doomed
    BY <1>1, <2>1 DEF Why
  <2>3. [sweep[t] EXCEPT !.todo = Aged(sweep[t].config, cutoff), !.why = "age"] \in Sweep
    BY <1>0, <2>1 DEF Sweep, Why
  <2>4. sweep' \in [Thread -> Sweep]
    BY <2>3
  <2> QED BY <1>7, <2>2, <2>4 DEF SelectByAge, Label
<1>8. CASE PurgeFailed(t)
  BY <1>8 DEF PurgeFailed, Label
<1>9. CASE EnforceFails(t)
  BY <1>9, IdleValues DEF EnforceFails, Label
<1> QED
  BY <1>2, <1>3, <1>4, <1>5, <1>6, <1>7, <1>8, <1>9 DEF RetentionStep

\* The steps of a restore or a download keep the types.
LEMMA TypeRead ==
  ASSUME StoreAssumption, TypeOK, NEW t \in Thread, ReadStep(t)
  PROVE  /\ pc' \in [Thread -> Label]
         /\ struck' \in SUBSET Faults
         /\ faults' \in 0 .. MaxFaults
         /\ notices' \in SUBSET Notice
         /\ reading' \in [Thread -> Reading]
         /\ delivered' \in SUBSET Reading
         /\ UNCHANGED <<records, lastId, row, files, doomed, attempt, lastName, outcome,
                        victim, refused>>
<1> USE DEF TypeOK, Goto, NoFault, Strike, faultVars, tableVars, fileVars, createVars, deleteVars, readVars
<1>0. reading[t] \in Reading /\ reading[t].rec \in BackupRecord
  BY DEF Reading
<1>1. ASSUME NEW event \in Event, EndRead(t, event)
      PROVE  /\ pc' \in [Thread -> Label]
             /\ reading' \in [Thread -> Reading]
             /\ notices' \in SUBSET Notice
  <2>1. pc' \in [Thread -> Label] /\ reading' \in [Thread -> Reading]
    BY <1>1, IdleValues DEF EndRead, Label
  <2>2. [filename |-> reading[t].rec.filename, event |-> event] \in Notice
    BY <1>0 DEF Notice, BackupRecord
  <2>3. notices' \in SUBSET Notice
    BY <1>1, <2>2 DEF EndRead, Notify
  <2> QED BY <2>1, <2>3
<1>2. "restore_success" \in Event /\ "restore_failed" \in Event
  BY DEF Event
<1>3. CASE FindFile(t) \/ Verify(t)
  BY <1>3 DEF FindFile, Verify, Label
<1>4. CASE ReadFile(t)
  <2>1. files[reading[t].rec.file_path] \in Content
    BY <1>0, <1>4 DEF ReadFile, OnDisk, BackupRecord
  <2>2. reading' = [reading EXCEPT ![t] =
                      [reading[t] EXCEPT !.content = files[reading[t].rec.file_path]]]
    BY <1>4 DEF ReadFile
  <2>3. [reading[t] EXCEPT !.content = files[reading[t].rec.file_path]] \in Reading
    BY <1>0, <2>1 DEF Reading
  <2>4. reading' \in [Thread -> Reading]
    BY <2>2, <2>3
  <2> QED BY <1>4, <2>4 DEF ReadFile, Label
<1>5. CASE ReadRefused(t)
  BY <1>1, <1>2, <1>5 DEF ReadRefused
<1>6. CASE Send(t)
  BY <1>0, <1>1, <1>2, <1>6 DEF Send, Deliver
<1>7. CASE SendFails(t)
  BY <1>0, <1>1, <1>2, <1>7 DEF SendFails, Deliver
<1> QED
  BY <1>3, <1>4, <1>5, <1>6, <1>7 DEF ReadStep

\* The requests and the jobs that start keep the types.
LEMMA TypeStart ==
  ASSUME StoreAssumption, TypeOK, NEW t \in Thread, WebRequest(t) \/ SchedulerJob(t)
  PROVE  TypeOK'
<1> USE DEF TypeOK, Goto, NoFault, faultVars, tableVars, fileVars, createVars, deleteVars, readVars, Label, TryBlock
<1>1. ASSUME NEW c \in Config, StartBackup(t, c), UNCHANGED <<sweep, readVars>>
      PROVE  TypeOK'
  <2>1. [config |-> c, filename |-> lastName + 1, checksum |-> "absent"] \in Attempt
    BY <1>1 DEF StartBackup, Attempt, Content, Name, StoreAssumption
  <2>2. attempt' \in [Thread -> Attempt]
    BY <1>1, <2>1 DEF StartBackup
  <2>3. lastName' \in 0 .. MaxAttempts
    BY <1>1 DEF StartBackup, StoreAssumption
  <2> QED BY <1>1, <2>2, <2>3 DEF StartBackup
<1>2. ASSUME NEW r \in records, StartDelete(t, r), UNCHANGED <<sweep, readVars>>
      PROVE  TypeOK'
  <2>1. [rec |-> r, why |-> "user"] \in Doomed
    BY DEF Doomed, Why
  <2>2. victim' \in [Thread -> Doomed] /\ doomed' \in SUBSET Doomed
    BY <1>2, <2>1 DEF StartDelete
  <2> QED BY <1>2, <2>2 DEF StartDelete
<1>3. ASSUME NEW r \in records, NEW to \in Target, StartRead(t, r, to), UNCHANGED sweep
      PROVE  TypeOK'
  <2>1. [rec |-> r, to |-> to, content |-> "absent"] \in Reading
    BY DEF Reading, Content
  <2>2. reading' \in [Thread -> Reading]
    BY <1>3, <2>1 DEF StartRead
  <2> QED BY <1>3, <2>2 DEF StartRead
<1>4. ASSUME StartRetention(t), UNCHANGED readVars
      PROVE  TypeOK'
  <2>1. [NoSweep EXCEPT !.left = {c \in Config : row[c].is_active}] \in Sweep
    BY IdleValues DEF Sweep
  <2>2. sweep' \in [Thread -> Sweep]
    BY <1>4, <2>1 DEF StartRetention
  <2> QED BY <1>4, <2>2 DEF StartRetention
<1> QED
  BY <1>1, <1>2, <1>3, <1>4 DEF WebRequest, SchedulerJob

\* Type correctness is preserved by every step.
LEMMA TypeStep ==
  ASSUME StoreAssumption, TypeOK, AttemptsOwnNames, [Next]_vars
  PROVE  TypeOK'
<1> USE DEF tableVars, fileVars, createVars, deleteVars, readVars, faultVars
<1>1. ASSUME NEW t \in Thread, CreateStep(t), UNCHANGED <<sweep, readVars>>
      PROVE  TypeOK'
  BY <1>1, TypeCreate DEF TypeOK
<1>2. ASSUME NEW t \in Thread, DeleteStep(t), UNCHANGED <<sweep, readVars>>
      PROVE  TypeOK'
  BY <1>2, TypeDelete DEF TypeOK
<1>3. ASSUME NEW t \in Thread, RetentionStep(t), UNCHANGED readVars
      PROVE  TypeOK'
  BY <1>3, TypeRetention DEF TypeOK
<1>4. ASSUME NEW t \in Thread, ReadStep(t), UNCHANGED sweep
      PROVE  TypeOK'
  BY <1>4, TypeRead DEF TypeOK
<1>5. ASSUME NEW t \in Thread, Crash(t)
      PROVE  TypeOK'
  BY <1>5, IdleValues DEF Crash, TypeOK, Goto, Label, Strike
<1>6. ASSUME NEW n \in Name, Damage(n), UNCHANGED <<createVars, deleteVars, sweep, readVars>>
      PROVE  TypeOK'
  BY <1>6 DEF Damage, TypeOK, Content, Strike
<1>7. CASE UNCHANGED vars
  BY <1>7 DEF vars, TypeOK
<1>8. ASSUME NEW c \in Config, SwitchActive(c),
             UNCHANGED <<createVars, deleteVars, sweep, readVars>>
      PROVE  TypeOK'
  <2>1. row' \in [Config -> [is_active : BOOLEAN, last_successful_backup : BOOLEAN,
                             last_backup_error : BOOLEAN]]
    BY <1>8 DEF SwitchActive, TypeOK
  <2> QED BY <1>8, <2>1 DEF SwitchActive, TypeOK, NoFault
<1> QED
  BY <1>1, <1>2, <1>3, <1>4, <1>5, <1>6, <1>7, <1>8, TypeStart DEF Next, Step, Thread

-----------------------------------------------------------------------------
(* IInv.                                                                   *)

\* The steps that are none of create_backup's leave its locals alone, and move
\* their thread between places outside create_backup.
LEMMA OtherStepsLeaveAttempts ==
  ASSUME TypeOK, NEW t \in Thread,
         DeleteStep(t) \/ RetentionStep(t) \/ ReadStep(t)
  PROVE  /\ UNCHANGED <<attempt, lastName>>
         /\ pc[t] \notin Creating
         /\ \E label \in Label \ Creating : pc' = [pc EXCEPT ![t] = label]
<1> USE DEF Creating, TryBlock, Label, Goto, createVars, TypeOK
<1>1. CASE DeleteStep(t)
  BY <1>1 DEF DeleteStep, CheckExists, Unlink, UnlinkFails, DeleteRow, DeleteRowFails, EndDelete
<1>2. CASE RetentionStep(t)
  <2>1. ASSUME NEW c \in Config, SelectByCount(t, c) \/ SkipConfig(t, c)
        PROVE  /\ UNCHANGED <<attempt, lastName>>
               /\ pc[t] \notin Creating
               /\ \E label \in Label \ Creating : pc' = [pc EXCEPT ![t] = label]
    BY <2>1 DEF SelectByCount, SkipConfig
  <2>2. CASE EndRetention(t) \/ PruneNext(t) \/ PruneDone(t)
    BY <2>2 DEF EndRetention, PruneNext, PruneDone
  <2>3. CASE SelectByAge(t) \/ PurgeFailed(t) \/ EnforceFails(t)
    BY <2>3 DEF SelectByAge, PurgeFailed, EnforceFails
  <2> QED BY <1>2, <2>1, <2>2, <2>3 DEF RetentionStep
<1>3. CASE ReadStep(t)
  BY <1>3 DEF ReadStep, FindFile, Verify, ReadFile, ReadRefused, Send, SendFails, EndRead
<1> QED BY <1>1, <1>2, <1>3

\* A running attempt has a name no other attempt has.
LEMMA AttemptsStep ==
  ASSUME IInv, [Next]_vars
  PROVE  AttemptsOwnNames'
<1> USE DEF IInv, TypeOK, AttemptsOwnNames, Creating, TryBlock
<1>1. ASSUME NEW t \in Thread, CreateStep(t)
      PROVE  AttemptsOwnNames'
  <2> USE DEF Goto, createVars
  <2>1. CASE Download(t) \/ OpenFile(t) \/ WriteFile(t) \/ InsertSuccess(t)
             \/ SaveSuccess(t) \/ Cleanup(t) \/ InsertFailed(t) \/ SaveError(t)
             \/ AttemptFails(t)
    BY <2>1 DEF Download, OpenFile, WriteFile, InsertSuccess, SaveSuccess, Cleanup,
                InsertFailed, SaveError, AttemptFails
  <2>2. CASE Checksum(t)
    BY <2>2 DEF Checksum, Attempt
  <2>3. CASE NotifySuccess(t) \/ NotifyFailed(t) \/ HandlerFails(t)
    BY <2>3 DEF NotifySuccess, NotifyFailed, HandlerFails, EndAttempt, NoAttempt, NoName
  <2> QED BY <1>1, <2>1, <2>2, <2>3 DEF CreateStep
<1>2. ASSUME NEW t \in Thread, DeleteStep(t) \/ RetentionStep(t) \/ ReadStep(t)
      PROVE  AttemptsOwnNames'
  BY <1>2, OtherStepsLeaveAttempts
<1>3. ASSUME NEW t \in Thread, WebRequest(t) \/ SchedulerJob(t)
      PROVE  AttemptsOwnNames'
  <2>1. ASSUME NEW c \in Config, StartBackup(t, c)
        PROVE  AttemptsOwnNames'
    BY <2>1 DEF StartBackup, Goto, Idle, Attempt, Name, NoName
  <2>2. ASSUME StartRetention(t) \/ (\E r \in records : StartDelete(t, r))
                 \/ (\E r \in records, to \in Target : StartRead(t, r, to))
        PROVE  AttemptsOwnNames'
    BY <2>2 DEF StartRetention, StartDelete, StartRead, Goto, Idle, createVars
  <2> QED BY <1>3, <2>1, <2>2 DEF WebRequest, SchedulerJob
<1>4. ASSUME NEW t \in Thread, Crash(t)
      PROVE  AttemptsOwnNames'
  BY <1>4 DEF Crash, Goto, NoAttempt, NoName
<1>5. CASE UNCHANGED vars \/ (\E n \in Name : Damage(n) /\ UNCHANGED createVars)
              \/ (\E c \in Config : SwitchActive(c) /\ UNCHANGED createVars)
  BY <1>5 DEF vars, createVars, Damage, SwitchActive
<1> QED BY <1>1, <1>2, <1>3, <1>4, <1>5 DEF Next, Step, Thread

\* Where rows come from: a row that is known after a step and was not before is
\* the one an attempt inserts, under the attempt's own name.
LEMMA NewRows ==
  ASSUME IInv, [Next]_vars, NEW r \in Known', r \notin Known
  PROVE  \E t \in Thread :
           \/ /\ InsertSuccess(t) /\ UNCHANGED <<attempt, lastName, files, doomed>>
              /\ r.status = "success" /\ r.filename = attempt[t].filename
              /\ r.config = attempt[t].config /\ r.file_path = attempt[t].filename
              /\ records' = records \cup {r}
           \/ /\ InsertFailed(t) /\ UNCHANGED <<attempt, lastName, files, doomed>>
              /\ r.status = "failed" /\ r.filename = attempt[t].filename
              /\ r.config = attempt[t].config /\ r.file_path = NoName
              /\ records' = records \cup {r}
<1> USE DEF IInv, TypeOK, Known, tableVars, createVars, fileVars, deleteVars, readVars
<1>1. ASSUME NEW t \in Thread, CreateStep(t), ~InsertSuccess(t), ~InsertFailed(t)
      PROVE  Known' = Known
  BY <1>1 DEF CreateStep, Download, OpenFile, WriteFile, Checksum, SaveSuccess, NotifySuccess,
              AttemptFails, Cleanup, SaveError, NotifyFailed, HandlerFails
<1>2. ASSUME NEW t \in Thread, DeleteStep(t)
      PROVE  Known' \subseteq Known
  BY <1>2 DEF DeleteStep, CheckExists, Unlink, UnlinkFails, DeleteRow, DeleteRowFails
<1>3. ASSUME NEW t \in Thread, RetentionStep(t)
      PROVE  Known' \subseteq Known
  <2>1. ASSUME NEW selected \in SUBSET records, NEW why, Select(t, selected, why),
               records' = records
        PROVE  Known' \subseteq Known
    BY <2>1 DEF Select
  <2>2. ASSUME NEW c \in Config, SelectByCount(t, c)
        PROVE  Known' \subseteq Known
    BY <2>1, <2>2 DEF SelectByCount, Excess, Succeeded
  <2>3. ASSUME NEW c \in Config, SkipConfig(t, c)
        PROVE  Known' \subseteq Known
    BY <2>3 DEF SkipConfig
  <2>4. CASE EndRetention(t) \/ PruneNext(t) \/ PruneDone(t) \/ PurgeFailed(t) \/ EnforceFails(t)
    BY <2>4 DEF EndRetention, PruneNext, PruneDone, PurgeFailed, EnforceFails
  <2>5. CASE SelectByAge(t)
    BY <2>1, <2>5 DEF SelectByAge, Aged, Succeeded
  <2> QED BY <1>3, <2>2, <2>3, <2>4, <2>5 DEF RetentionStep
<1>4. ASSUME NEW t \in Thread, ReadStep(t) \/ Crash(t)
      PROVE  Known' = Known
  BY <1>4 DEF ReadStep, FindFile, Verify, ReadFile, ReadRefused, Send, SendFails, Crash
<1>5. ASSUME NEW t \in Thread, WebRequest(t) \/ SchedulerJob(t)
      PROVE  Known' \subseteq Known
  BY <1>5 DEF WebRequest, SchedulerJob, StartBackup, StartDelete, StartRead, StartRetention
<1>6. ASSUME UNCHANGED vars \/ (\E n \in Name : Damage(n))
              \/ (\E c \in Config : SwitchActive(c))
      PROVE  Known' = Known
  BY <1>6 DEF vars, Damage, SwitchActive
<1>7. PICK t \in Thread : InsertSuccess(t) \/ InsertFailed(t)
  BY <1>1, <1>2, <1>3, <1>4, <1>5, <1>6 DEF Next, Step, Thread
<1> QED BY <1>7 DEF InsertSuccess, InsertFailed, Insert

\* A decision to delete is never taken back, and the row of a success goes only
\* after such a decision: a backup that was recorded stays on record.
LEMMA RecordedStays ==
  ASSUME IInv, [Next]_vars
  PROVE  /\ doomed \subseteq doomed'
         /\ Recorded \subseteq Recorded'
         /\ \A r \in records : r.status = "success" /\ r \notin records' => IsDoomed(r)
<1> USE DEF IInv, TypeOK, Recorded, IsDoomed, tableVars, createVars, fileVars, deleteVars, readVars
<1>1. /\ doomed \subseteq doomed'
      /\ \A r \in records : r.status = "success" /\ r \notin records' => IsDoomed(r)
  <2>1. ASSUME NEW t \in Thread, CreateStep(t)
        PROVE  doomed' = doomed /\ records \subseteq records'
    BY <2>1 DEF CreateStep, Download, OpenFile, WriteFile, Checksum, InsertSuccess, SaveSuccess,
                NotifySuccess, AttemptFails, Cleanup, InsertFailed, SaveError, NotifyFailed,
                HandlerFails, Insert
  <2>2. ASSUME NEW t \in Thread, DeleteStep(t)
        PROVE  doomed' = doomed /\ (records' = records
                 \/ (records' = records \ {victim[t].rec} /\ victim[t] \in doomed))
    BY <2>2 DEF DeleteStep, CheckExists, Unlink, UnlinkFails, DeleteRow, DeleteRowFails,
                DeletionsAreDoomed
  <2>3. ASSUME NEW t \in Thread, RetentionStep(t)
        PROVE  doomed \subseteq doomed'
                 /\ \A r \in records : r.status = "success" => r \in records'
    <3>1. ASSUME NEW c \in Config, SelectByCount(t, c) \/ SkipConfig(t, c)
          PROVE  doomed \subseteq doomed' /\ records' = records
      BY <3>1 DEF SelectByCount, SkipConfig, Select
    <3>2. CASE EndRetention(t) \/ PruneNext(t) \/ PruneDone(t) \/ EnforceFails(t)
      BY <3>2 DEF EndRetention, PruneNext, PruneDone, EnforceFails
    <3>3. CASE SelectByAge(t)
      BY <3>3 DEF SelectByAge, Select
    <3>4. CASE PurgeFailed(t)
      BY <3>4 DEF PurgeFailed
    <3> QED BY <2>3, <3>1, <3>2, <3>3, <3>4 DEF RetentionStep
  <2>4. ASSUME NEW t \in Thread, ReadStep(t) \/ Crash(t)
        PROVE  UNCHANGED <<records, doomed>>
    BY <2>4 DEF ReadStep, FindFile, Verify, ReadFile, ReadRefused, Send, SendFails, Crash
  <2>5. ASSUME NEW t \in Thread, WebRequest(t) \/ SchedulerJob(t)
        PROVE  doomed \subseteq doomed' /\ records' = records
    BY <2>5 DEF WebRequest, SchedulerJob, StartBackup, StartDelete, StartRead, StartRetention
  <2>6. ASSUME UNCHANGED vars \/ (\E n \in Name : Damage(n))
              \/ (\E c \in Config : SwitchActive(c))
        PROVE  UNCHANGED <<records, doomed>>
    BY <2>6 DEF vars, Damage, SwitchActive
  <2> QED BY <2>1, <2>2, <2>3, <2>4, <2>5, <2>6 DEF Next, Step, Thread
<1> QED BY <1>1

\* Where files appear and disappear: a running attempt writes its own file, and a
\* file goes by the deletion of a condemned row or by the cleanup of an attempt.
LEMMA FilesStep ==
  ASSUME IInv, [Next]_vars, NEW n \in Name
  PROVE  /\ files[n] = "absent" /\ files'[n] # "absent" =>
              \E t \in Thread : /\ pc[t] \in {"open", "write"}
                                /\ attempt[t].filename = n
         /\ files[n] # "absent" /\ files'[n] = "absent" =>
              \E t \in Thread :
                \/ /\ Unlink(t)
                   /\ victim[t] \in doomed
                   /\ victim[t].rec.file_path = n
                \/ /\ Cleanup(t)
                   /\ attempt[t].filename = n
<1> USE DEF IInv, TypeOK, tableVars, createVars, fileVars, deleteVars, readVars
<1>1. ASSUME NEW t \in Thread, CreateStep(t), ~OpenFile(t), ~WriteFile(t), ~Cleanup(t)
      PROVE  files' = files
  BY <1>1 DEF CreateStep, Download, Checksum, InsertSuccess, SaveSuccess, NotifySuccess,
              AttemptFails, InsertFailed, SaveError, NotifyFailed, HandlerFails
<1>2. ASSUME NEW t \in Thread, DeleteStep(t), ~Unlink(t)
      PROVE  files' = files
  BY <1>2 DEF DeleteStep, CheckExists, UnlinkFails, DeleteRow, DeleteRowFails
<1>3. ASSUME NEW t \in Thread, RetentionStep(t) \/ ReadStep(t) \/ Crash(t)
                                 \/ WebRequest(t) \/ SchedulerJob(t)
      PROVE  files' = files
  <2>1. CASE RetentionStep(t)
    BY <2>1 DEF RetentionStep, SelectByCount, SkipConfig, EndRetention, PruneNext, PruneDone,
                SelectByAge, PurgeFailed, EnforceFails
  <2>2. CASE ReadStep(t) \/ Crash(t)
    BY <2>2 DEF ReadStep, FindFile, Verify, ReadFile, ReadRefused, Send, SendFails, Crash
  <2>3. CASE WebRequest(t) \/ SchedulerJob(t)
    BY <2>3 DEF WebRequest, SchedulerJob, StartBackup, StartDelete, StartRead, StartRetention
  <2> QED BY <1>3, <2>1, <2>2, <2>3
<1>4. ASSUME NEW t \in Thread, OpenFile(t) \/ WriteFile(t)
      PROVE  /\ pc[t] \in {"open", "write"}
             /\ files'[attempt[t].filename] # "absent" \/ attempt[t].filename \notin Name
             /\ \A m \in Name : m # attempt[t].filename => files'[m] = files[m]
  BY <1>4 DEF OpenFile, WriteFile
<1>5. ASSUME NEW t \in Thread, Cleanup(t)
      PROVE  \A m \in Name : files'[m] = files[m] \/ (files'[m] = "absent" /\ m = attempt[t].filename)
  BY <1>5 DEF Cleanup
<1>6. ASSUME NEW t \in Thread, Unlink(t)
      PROVE  /\ victim[t] \in doomed
             /\ \A m \in Name : \/ files'[m] = files[m]
                                \/ files'[m] = "absent" /\ m = victim[t].rec.file_path
  BY <1>6 DEF Unlink, DeletionsAreDoomed
<1>7. ASSUME NEW m \in Name, Damage(m)
      PROVE  \A k \in Name : files'[k] = "absent" <=> files[k] = "absent"
  BY <1>7 DEF Damage
<1>8. CASE UNCHANGED vars \/ \E c \in Config : SwitchActive(c)
  BY <1>8 DEF vars, SwitchActive
<1> QED
  BY <1>1, <1>2, <1>3, <1>4, <1>5, <1>6, <1>7, <1>8 DEF Next, Step, Thread

\* The counter of names only grows.
LEMMA NamesGrow ==
  ASSUME IInv, [Next]_vars
  PROVE  lastName \in Nat /\ lastName' \in Nat /\ lastName <= lastName'
<1> USE DEF IInv, TypeOK, createVars
<1>1. lastName \in 0 .. MaxAttempts
  OBVIOUS
<1>2. ASSUME NEW t \in Thread, CreateStep(t)
      PROVE  lastName' = lastName
  BY <1>2 DEF CreateStep, Download, OpenFile, WriteFile, Checksum, InsertSuccess, SaveSuccess,
              NotifySuccess, AttemptFails, Cleanup, InsertFailed, SaveError, NotifyFailed,
              HandlerFails
<1>3. ASSUME NEW t \in Thread, DeleteStep(t) \/ RetentionStep(t) \/ ReadStep(t)
      PROVE  lastName' = lastName
  BY <1>3, OtherStepsLeaveAttempts
<1>4. ASSUME NEW t \in Thread, WebRequest(t) \/ SchedulerJob(t)
      PROVE  lastName' = lastName \/ lastName' = lastName + 1
  BY <1>4 DEF WebRequest, SchedulerJob, StartBackup, StartDelete, StartRead, StartRetention
<1>5. ASSUME (\E t \in Thread : Crash(t)) \/ (\E n \in Name : Damage(n) /\ UNCHANGED createVars)
              \/ (\E c \in Config : SwitchActive(c) /\ UNCHANGED createVars)
               \/ UNCHANGED vars
      PROVE  lastName' = lastName
  BY <1>5 DEF Crash, Damage, SwitchActive, vars
<1>6. lastName' = lastName \/ lastName' = lastName + 1
  BY <1>2, <1>3, <1>4, <1>5 DEF Next, Step, Thread
<1> QED BY <1>1, <1>6

\* A row names the file of its attempt, and only the row of a success names one.
LEMMA RowsStep ==
  ASSUME IInv, [Next]_vars
  PROVE  RowsNameTheirFile'
<1> SUFFICES ASSUME NEW r \in Known'
             PROVE  /\ r.filename \in 1 .. lastName'
                    /\ r.config \in Config
                    /\ r.file_path = IF r.status = "success" THEN r.filename ELSE NoName
  BY DEF RowsNameTheirFile
<1>1. CASE r \in Known
  BY <1>1, NamesGrow DEF IInv, RowsNameTheirFile
<1>2. CASE r \notin Known
  <2> PICK t \in Thread :
         /\ pc[t] \in Creating
         /\ UNCHANGED lastName
         /\ r.filename = attempt[t].filename
         /\ r.config = attempt[t].config
         /\ r.file_path = IF r.status = "success" THEN r.filename ELSE NoName
    BY <1>2, NewRows DEF InsertSuccess, InsertFailed, Creating, TryBlock
  <2> QED BY NamesGrow DEF IInv, AttemptsOwnNames, TypeOK, Attempt, Name, NoName
<1> QED BY <1>1, <1>2

\* No two successes share a file: the row that is inserted has a private name.
LEMMA OneSuccessStep ==
  ASSUME IInv, [Next]_vars
  PROVE  OneSuccessPerName'
<1> SUFFICES ASSUME NEW r \in Recorded', NEW s \in Recorded', r.filename = s.filename
             PROVE  r = s
  BY DEF OneSuccessPerName
<1>0. r \in Known' /\ s \in Known' /\ r.status = "success" /\ s.status = "success"
  BY DEF Recorded, Known
<1>1. \A q \in Known : q.status = "success" => q \in Recorded
  BY DEF Recorded, Known
<1>2. CASE r \in Known /\ s \in Known
  BY <1>0, <1>1, <1>2 DEF IInv, OneSuccessPerName
<1>3. ASSUME NEW x \in {r, s}, x \notin Known
      PROVE  \E t \in Thread :
               /\ pc[t] = "insert_success"
               /\ x.filename = attempt[t].filename
               /\ records' = records \cup {x}
               /\ doomed' = doomed
  BY <1>0, <1>3, NewRows DEF InsertSuccess
<1>4. \A t \in Thread : pc[t] = "insert_success" =>
        \A q \in Known : q.filename # attempt[t].filename
  BY DEF IInv, UnrecordedIsPrivate, TryBlock
<1>5. ASSUME NEW x \in {r, s}, NEW y \in {r, s}, x \notin Known
      PROVE  x = y
  <2> PICK t \in Thread : /\ pc[t] = "insert_success"
                          /\ x.filename = attempt[t].filename
                          /\ records' = records \cup {x}
                          /\ doomed' = doomed
    BY <1>3, <1>5
  <2>1. Known' = Known \cup {x}
    BY DEF Known
  <2>2. y \in Known => FALSE
    BY <1>4
  <2> QED BY <1>0, <2>1, <2>2
<1> QED BY <1>2, <1>5

\* What a step does to one thread: nothing, or it is the thread's own step.
LEMMA ThreadStep ==
  ASSUME IInv, [Next]_vars, NEW u \in Thread
  PROVE  \/ pc'[u] = pc[u] /\ attempt'[u] = attempt[u]
         \/ pc'[u] \notin Creating
         \/ CreateStep(u)
         \/ /\ pc'[u] = "download"
            /\ attempt'[u].filename = lastName + 1
            /\ lastName' = lastName + 1
            /\ UNCHANGED <<records, doomed, files, notices, struck>>
<1> USE DEF IInv, TypeOK
<1>1. ASSUME NEW t \in Thread, CreateStep(t), t # u
      PROVE  pc'[u] = pc[u] /\ attempt'[u] = attempt[u]
  BY <1>1 DEF CreateStep, Download, OpenFile, WriteFile, Checksum, InsertSuccess, SaveSuccess,
              NotifySuccess, AttemptFails, Cleanup, InsertFailed, SaveError, NotifyFailed,
              HandlerFails, Goto, EndAttempt, createVars
<1>2. ASSUME NEW t \in Thread, DeleteStep(t) \/ RetentionStep(t) \/ ReadStep(t)
      PROVE  (pc'[u] = pc[u] /\ attempt'[u] = attempt[u]) \/ pc'[u] \notin Creating
  <2> PICK label \in Label \ Creating : pc' = [pc EXCEPT ![t] = label] /\ attempt' = attempt
    BY <1>2, OtherStepsLeaveAttempts
  <2> QED OBVIOUS
<1>3. ASSUME NEW t \in Thread, NEW c \in Config, StartBackup(t, c), t = u
      PROVE  /\ pc'[u] = "download"
             /\ attempt'[u].filename = lastName + 1
             /\ lastName' = lastName + 1
             /\ UNCHANGED <<records, doomed, files, notices, struck>>
  BY <1>3 DEF StartBackup, Goto, tableVars, fileVars, NoFault, faultVars
<1>4. ASSUME NEW t \in Thread, NEW c \in Config, StartBackup(t, c), t # u
      PROVE  pc'[u] = pc[u] /\ attempt'[u] = attempt[u]
  BY <1>4 DEF StartBackup, Goto
<1>5. ASSUME NEW t \in Thread,
             StartRetention(t) \/ (\E r \in records : StartDelete(t, r))
               \/ (\E r \in records, to \in Target : StartRead(t, r, to))
      PROVE  (pc'[u] = pc[u] /\ attempt'[u] = attempt[u]) \/ pc'[u] \notin Creating
  BY <1>5 DEF StartRetention, StartDelete, StartRead, Goto, createVars, Creating, TryBlock
<1>6. ASSUME NEW t \in Thread, Crash(t)
      PROVE  (pc'[u] = pc[u] /\ attempt'[u] = attempt[u]) \/ pc'[u] \notin Creating
  BY <1>6 DEF Crash, Goto, Creating, TryBlock
<1>7. ASSUME UNCHANGED vars \/ (\E n \in Name : Damage(n) /\ UNCHANGED createVars)
              \/ (\E c \in Config : SwitchActive(c) /\ UNCHANGED createVars)
      PROVE  pc'[u] = pc[u] /\ attempt'[u] = attempt[u]
  BY <1>7 DEF vars, Damage, SwitchActive, createVars
<1> QED
  BY <1>1, <1>2, <1>3, <1>4, <1>5, <1>6, <1>7 DEF Next, Step, Thread, WebRequest, SchedulerJob
\* The name of an attempt whose row is not inserted yet stays private, and its
\* file, once written, stays.
LEMMA PrivateStep ==
  ASSUME IInv, [Next]_vars
  PROVE  UnrecordedIsPrivate'
<1> SUFFICES ASSUME NEW u \in Thread, pc'[u] \in TryBlock \ {"save_success"}
             PROVE  /\ \A r \in Known' : r.filename # attempt'[u].filename
                    /\ pc'[u] \in {"checksum", "insert_success"} =>
                         files'[attempt'[u].filename] # "absent"
  BY DEF UnrecordedIsPrivate, TryBlock
<1> USE DEF IInv
<1>1. CASE pc'[u] = pc[u] /\ attempt'[u] = attempt[u]
  <2>0. pc[u] \in Creating /\ attempt[u].filename \in Name
    BY <1>1 DEF TypeOK, AttemptsOwnNames, Creating, Attempt
  <2>1. \A r \in Known : r.filename # attempt[u].filename
    BY <1>1 DEF UnrecordedIsPrivate
  <2>2. ASSUME NEW r \in Known', r.filename = attempt[u].filename
        PROVE  FALSE
    <3>1. r \notin Known
      BY <2>1, <2>2
    <3>2. PICK t \in Thread : /\ r.filename = attempt[t].filename
                              /\ InsertSuccess(t) \/ InsertFailed(t)
      BY <3>1, NewRows
    <3>3. t = u
      BY <2>0, <2>2, <3>2 DEF AttemptsOwnNames, NoName, Name
    <3>4. pc'[u] \in {"save_success", "save_error"}
      BY <3>2, <3>3 DEF InsertSuccess, InsertFailed, Goto, TypeOK
    <3> QED BY <3>4 DEF TryBlock
  <2>3. ASSUME pc'[u] \in {"checksum", "insert_success"}, files'[attempt[u].filename] = "absent"
        PROVE  FALSE
    <3>1. files[attempt[u].filename] # "absent"
      BY <1>1, <2>3 DEF UnrecordedIsPrivate
    <3>2. PICK t \in Thread :
            \/ /\ victim[t] \in doomed
               /\ victim[t].rec.file_path = attempt[u].filename
            \/ /\ pc[t] = "cleanup"
               /\ attempt[t].filename = attempt[u].filename
      BY <2>0, <2>3, <3>1, FilesStep DEF Cleanup
    <3>3. CASE victim[t] \in doomed /\ victim[t].rec.file_path = attempt[u].filename
      <4>1. victim[t].rec \in Known
        BY <3>3 DEF Known
      <4>2. victim[t].rec.filename = attempt[u].filename
        BY <2>0, <3>3, <4>1 DEF RowsNameTheirFile, Name, NoName
      <4> QED BY <2>1, <4>1, <4>2
    <3>4. CASE pc[t] = "cleanup" /\ attempt[t].filename = attempt[u].filename
      <4>1. t = u
        BY <2>0, <3>4 DEF AttemptsOwnNames, NoName, Name
      <4> QED BY <1>1, <2>3, <3>4, <4>1
    <3> QED BY <3>2, <3>3, <3>4
  <2> QED BY <1>1, <2>2, <2>3
<1>2. CASE CreateStep(u)
  <2> USE DEF TypeOK, createVars, tableVars, fileVars, deleteVars, Goto
  <2>1. CASE Download(u) \/ OpenFile(u) \/ WriteFile(u) \/ Checksum(u)
    <3>1. /\ attempt'[u].filename = attempt[u].filename
          /\ Known' = Known
          /\ pc[u] \in TryBlock \ {"save_success"}
      BY <2>1 DEF Download, OpenFile, WriteFile, Checksum, Known, TryBlock, Attempt
    <3>2. attempt[u].filename \in Name
      BY <3>1 DEF AttemptsOwnNames, Creating, Attempt
    <3>3. pc'[u] \in {"checksum", "insert_success"} => files'[attempt[u].filename] # "absent"
      BY <2>1, <3>2 DEF Download, OpenFile, WriteFile, Checksum, UnrecordedIsPrivate
    <3> QED BY <3>1, <3>3 DEF UnrecordedIsPrivate
  <2>2. CASE AttemptFails(u) \/ InsertSuccess(u) \/ SaveSuccess(u) \/ NotifySuccess(u)
             \/ Cleanup(u) \/ InsertFailed(u) \/ SaveError(u) \/ NotifyFailed(u) \/ HandlerFails(u)
    BY <2>2 DEF AttemptFails, InsertSuccess, SaveSuccess, NotifySuccess, Cleanup, InsertFailed,
                SaveError, NotifyFailed, HandlerFails, EndAttempt, TryBlock
  <2> QED BY <1>2, <2>1, <2>2 DEF CreateStep
<1>3. CASE /\ pc'[u] = "download"
           /\ attempt'[u].filename = lastName + 1
           /\ UNCHANGED <<records, doomed, files, notices, struck>>
  <2>1. Known' = Known
    BY <1>3 DEF Known
  <2>2. lastName \in Nat
    BY NamesGrow
  <2> QED BY <1>3, <2>1, <2>2 DEF RowsNameTheirFile
<1> QED BY <1>1, <1>2, <1>3, ThreadStep DEF Creating

\* Only rows that were condemned are being deleted.
LEMMA DoomedStep ==
  ASSUME IInv, [Next]_vars
  PROVE  DeletionsAreDoomed'
<1> USE DEF IInv, TypeOK, DeletionsAreDoomed, Goto, createVars, deleteVars, readVars
<1>0. doomed \subseteq doomed'
  BY RecordedStays
<1>1. ASSUME NEW t \in Thread, CreateStep(t), UNCHANGED <<sweep, readVars>>
      PROVE  DeletionsAreDoomed'
  BY <1>0, <1>1 DEF CreateStep, Download, OpenFile, WriteFile, Checksum, InsertSuccess, SaveSuccess,
              NotifySuccess, AttemptFails, Cleanup, InsertFailed, SaveError, NotifyFailed,
              HandlerFails, EndAttempt
<1>2. ASSUME NEW t \in Thread, DeleteStep(t), UNCHANGED <<sweep, readVars>>
      PROVE  DeletionsAreDoomed'
  BY <1>0, <1>2 DEF DeleteStep, CheckExists, Unlink, UnlinkFails, DeleteRow, DeleteRowFails, EndDelete
<1>3. ASSUME NEW t \in Thread, RetentionStep(t)
      PROVE  DeletionsAreDoomed'
  <2>0. sweep[t] \in Sweep
    OBVIOUS
  <2>1. ASSUME NEW c \in Config, SelectByCount(t, c)
        PROVE  DeletionsAreDoomed'
    <3>1. \A r \in Excess(c) : [rec |-> r, why |-> "count"] \in doomed'
      BY <2>1 DEF SelectByCount, Select
    <3>2. sweep'[t].todo = Excess(c) /\ sweep'[t].why = "count"
      BY <2>1 DEF SelectByCount
    <3>3. /\ \A u \in Thread : u # t => sweep'[u] = sweep[u]
          /\ pc' = [pc EXCEPT ![t] = "prune"]
          /\ victim' = victim
      BY <2>1 DEF SelectByCount
    <3> QED BY <1>0, <3>1, <3>2, <3>3
  <2>2. ASSUME NEW c \in Config, SkipConfig(t, c)
        PROVE  DeletionsAreDoomed'
    BY <1>0, <2>0, <2>2 DEF SkipConfig, Sweep
  <2>3. CASE EndRetention(t) \/ PruneDone(t) \/ PurgeFailed(t) \/ EnforceFails(t)
    BY <1>0, <2>3 DEF EndRetention, PruneDone, PurgeFailed, EnforceFails, NoSweep
  <2>4. CASE PruneNext(t)
    <3> PICK r \in sweep[t].todo :
           /\ victim' = [victim EXCEPT ![t] = [rec |-> r, why |-> sweep[t].why]]
           /\ sweep' = [sweep EXCEPT ![t] = [sweep[t] EXCEPT !.todo = @ \ {r}]]
      BY <2>4 DEF PruneNext
    <3>1. doomed' = doomed /\ pc' = [pc EXCEPT ![t] = "exists"]
      BY <2>4 DEF PruneNext
    <3>2. victim'[t] \in doomed'
      BY <3>1
    <3>3. sweep'[t].todo \subseteq sweep[t].todo /\ sweep'[t].why = sweep[t].why
      BY <2>0 DEF Sweep
    <3> QED BY <3>1, <3>2, <3>3
  <2>5. CASE SelectByAge(t)
    <3> PICK cutoff \in 0 .. lastId :
           /\ Select(t, Aged(sweep[t].config, cutoff), "age")
           /\ sweep' = [sweep EXCEPT ![t] =
                          [sweep[t] EXCEPT !.todo = Aged(sweep[t].config, cutoff), !.why = "age"]]
      BY <2>5 DEF SelectByAge
    <3>1. \A r \in Aged(sweep[t].config, cutoff) : [rec |-> r, why |-> "age"] \in doomed'
      BY DEF Select
    <3>2. sweep'[t].todo = Aged(sweep[t].config, cutoff) /\ sweep'[t].why = "age"
      BY <2>0 DEF Sweep
    <3>3. \A u \in Thread : u # t => sweep'[u] = sweep[u]
      OBVIOUS
    <3>4. victim' = victim /\ pc' = [pc EXCEPT ![t] = "prune"]
      BY <2>5 DEF SelectByAge
    <3> QED BY <1>0, <3>1, <3>2, <3>3, <3>4
  <2> QED BY <1>3, <2>1, <2>2, <2>3, <2>4, <2>5 DEF RetentionStep
<1>4. ASSUME NEW t \in Thread, ReadStep(t), UNCHANGED sweep
      PROVE  DeletionsAreDoomed'
  BY <1>0, <1>4 DEF ReadStep, FindFile, Verify, ReadFile, ReadRefused, Send, SendFails, EndRead
<1>5. ASSUME NEW t \in Thread, WebRequest(t) \/ SchedulerJob(t)
      PROVE  DeletionsAreDoomed'
  BY <1>0, <1>5 DEF WebRequest, SchedulerJob, StartBackup, StartDelete, StartRead, StartRetention, NoSweep
<1>6. ASSUME NEW t \in Thread, Crash(t)
      PROVE  DeletionsAreDoomed'
  BY <1>0, <1>6 DEF Crash, NoSweep
<1>7. CASE UNCHANGED vars \/ (\E n \in Name : Damage(n) /\ UNCHANGED <<createVars, deleteVars, sweep, readVars>>)
              \/ (\E c \in Config : SwitchActive(c) /\ UNCHANGED <<createVars, deleteVars, sweep, readVars>>)
  BY <1>0, <1>7 DEF vars, Damage, SwitchActive
<1> QED BY <1>1, <1>2, <1>3, <1>4, <1>5, <1>6, <1>7 DEF Next, Step, Thread
\* A file that is gone stays gone: only the attempt that owns the name writes it,
\* and only before the row is inserted.
LEMMA LostStaysLost ==
  ASSUME IInv, [Next]_vars, NEW r \in Known, ~OnDisk(r)
  PROVE  ~OnDisk(r)'
<1> SUFFICES ASSUME r.file_path # NoName, files'[r.file_path] # "absent"
             PROVE  FALSE
  BY DEF OnDisk
<1>1. r.file_path = r.filename /\ r.filename \in 1 .. lastName
  BY DEF IInv, RowsNameTheirFile
<1>2. r.filename \in Name /\ files[r.filename] = "absent"
  BY <1>1, StoreAssumption DEF IInv, TypeOK, Name, OnDisk
<1>3. PICK t \in Thread : pc[t] \in {"open", "write"} /\ attempt[t].filename = r.filename
  BY <1>1, <1>2, FilesStep
<1> QED BY <1>3 DEF IInv, UnrecordedIsPrivate, TryBlock

\* How a thread comes to delete a row: it found no file, or it unlinked it.
LEMMA EnteringDelete ==
  ASSUME IInv, [Next]_vars, NEW u \in Thread, pc'[u] = "delete"
  PROVE  /\ victim'[u] = victim[u]
         /\ \/ pc[u] = "delete"
            \/ CheckExists(u) /\ ~OnDisk(victim[u].rec)
            \/ Unlink(u)
<1> USE DEF IInv, TypeOK, Goto, createVars, deleteVars, readVars
<1>1. ASSUME NEW t \in Thread, CreateStep(t)
      PROVE  victim'[u] = victim[u] /\ pc[u] = "delete"
  BY <1>1 DEF CreateStep, Download, OpenFile, WriteFile, Checksum, InsertSuccess, SaveSuccess,
              NotifySuccess, AttemptFails, Cleanup, InsertFailed, SaveError, NotifyFailed,
              HandlerFails, EndAttempt
<1>2. ASSUME NEW t \in Thread, DeleteStep(t)
      PROVE  /\ victim'[u] = victim[u]
             /\ \/ pc[u] = "delete"
                \/ CheckExists(u) /\ ~OnDisk(victim[u].rec)
                \/ Unlink(u)
  BY <1>2 DEF DeleteStep, CheckExists, Unlink, UnlinkFails, DeleteRow, DeleteRowFails, EndDelete
<1>3. ASSUME NEW t \in Thread, RetentionStep(t)
      PROVE  victim'[u] = victim[u] /\ pc[u] = "delete"
  BY <1>3 DEF RetentionStep, SelectByCount, SkipConfig, EndRetention, PruneNext, PruneDone,
              SelectByAge, PurgeFailed, EnforceFails
<1>4. ASSUME NEW t \in Thread, ReadStep(t) \/ Crash(t)
      PROVE  victim'[u] = victim[u] /\ pc[u] = "delete"
  BY <1>4 DEF ReadStep, FindFile, Verify, ReadFile, ReadRefused, Send, SendFails, EndRead, Crash
<1>5. ASSUME NEW t \in Thread, WebRequest(t) \/ SchedulerJob(t)
      PROVE  victim'[u] = victim[u] /\ pc[u] = "delete"
  BY <1>5 DEF WebRequest, SchedulerJob, StartBackup, StartDelete, StartRead, StartRetention
<1>6. CASE UNCHANGED vars \/ (\E n \in Name : Damage(n) /\ UNCHANGED deleteVars)
              \/ (\E c \in Config : SwitchActive(c) /\ UNCHANGED deleteVars)
  BY <1>6 DEF vars, Damage, SwitchActive
<1> QED BY <1>1, <1>2, <1>3, <1>4, <1>5, <1>6 DEF Next, Step, Thread

\* A row is deleted only once its file is gone.
LEMMA FileGoneStep ==
  ASSUME IInv, [Next]_vars
  PROVE  FileIsGoneAtDelete'
<1> SUFFICES ASSUME NEW u \in Thread, pc'[u] = "delete"
             PROVE  ~OnDisk(victim[u].rec)'
  BY DEF FileIsGoneAtDelete
<1>1. victim[u].rec \in Known /\ victim'[u] = victim[u]
  BY EnteringDelete DEF IInv, DeletionsAreDoomed, Known, CheckExists, Unlink
<1>2. CASE ~OnDisk(victim[u].rec)
  BY <1>1, <1>2, LostStaysLost DEF OnDisk
<1>3. CASE Unlink(u)
  BY <1>1, <1>3 DEF Unlink, OnDisk, IInv, TypeOK, Doomed, BackupRecord
<1> QED BY <1>2, <1>3, EnteringDelete DEF IInv, FileIsGoneAtDelete

\* What struck once is remembered.
LEMMA StruckGrows ==
  ASSUME [Next]_vars
  PROVE  struck \subseteq struck'
<1>1. ASSUME NEW t \in Thread, CreateStep(t)
      PROVE  struck \subseteq struck'
  BY <1>1 DEF CreateStep, Download, OpenFile, WriteFile, Checksum, InsertSuccess, SaveSuccess,
              NotifySuccess, AttemptFails, Cleanup, InsertFailed, SaveError, NotifyFailed,
              HandlerFails, Strike, NoFault, faultVars
<1>2. ASSUME NEW t \in Thread, DeleteStep(t)
      PROVE  struck \subseteq struck'
  BY <1>2 DEF DeleteStep, CheckExists, Unlink, UnlinkFails, DeleteRow, DeleteRowFails, Strike,
              NoFault, faultVars
<1>3. ASSUME NEW t \in Thread, RetentionStep(t)
      PROVE  struck \subseteq struck'
  BY <1>3 DEF RetentionStep, SelectByCount, SkipConfig, EndRetention, PruneNext, PruneDone,
              SelectByAge, PurgeFailed, EnforceFails, Strike, NoFault, faultVars
<1>4. ASSUME NEW t \in Thread, ReadStep(t) \/ Crash(t)
      PROVE  struck \subseteq struck'
  BY <1>4 DEF ReadStep, FindFile, Verify, ReadFile, ReadRefused, Send, SendFails, Crash, Strike,
              NoFault, faultVars
<1>5. ASSUME NEW t \in Thread, WebRequest(t) \/ SchedulerJob(t)
      PROVE  struck \subseteq struck'
  BY <1>5 DEF WebRequest, SchedulerJob, StartBackup, StartDelete, StartRead, StartRetention,
              NoFault, faultVars
<1>6. CASE UNCHANGED vars \/ (\E n \in Name : Damage(n))
              \/ (\E c \in Config : SwitchActive(c))
  BY <1>6 DEF vars, faultVars, Damage, SwitchActive, Strike, NoFault
<1> QED BY <1>1, <1>2, <1>3, <1>4, <1>5, <1>6 DEF Next, Step, Thread

\* The handler of an attempt whose row is in place runs only after a failed save.
LEMMA CleanupStep ==
  ASSUME IInv, [Next]_vars
  PROVE  RecordedIsCleanedOnlyAfterSave'
<1> SUFFICES ASSUME NEW u \in Thread, NEW r \in Recorded', pc'[u] = "cleanup",
                    r.filename = attempt'[u].filename
             PROVE  "save_success" \in struck'
  BY DEF RecordedIsCleanedOnlyAfterSave
<1>0. struck \subseteq struck'
  BY StruckGrows
<1>1. CASE pc'[u] = pc[u] /\ attempt'[u] = attempt[u]
  <2>1. attempt[u].filename \in Name
    BY <1>1 DEF IInv, TypeOK, AttemptsOwnNames, Creating, Attempt
  <2>2. r \in Recorded
    <3> SUFFICES ASSUME r \notin Known PROVE FALSE
      BY DEF Recorded, Known
    <3>1. r \in Known' /\ r.status = "success"
      BY DEF Recorded, Known
    <3>2. PICK t \in Thread : InsertSuccess(t) /\ r.filename = attempt[t].filename
      BY <3>1, NewRows
    <3>3. t = u
      BY <1>1, <2>1, <3>2 DEF IInv, AttemptsOwnNames, NoName, Name
    <3> QED BY <1>1, <3>2, <3>3 DEF InsertSuccess
  <2> QED BY <1>0, <1>1, <2>2 DEF IInv, RecordedIsCleanedOnlyAfterSave
<1>2. CASE CreateStep(u)
  <2>1. AttemptFails(u)
    BY <1>2 DEF CreateStep, Download, OpenFile, WriteFile, Checksum, InsertSuccess, SaveSuccess,
                NotifySuccess, Cleanup, InsertFailed, SaveError, NotifyFailed, HandlerFails,
                EndAttempt, Goto, IInv, TypeOK
  <2>2. UNCHANGED <<attempt, records, doomed>>
    BY <2>1 DEF AttemptFails, createVars, tableVars
  <2>3. r \in Known /\ r.filename = attempt[u].filename
    BY <2>2 DEF Recorded, Known
  <2>4. pc[u] = "save_success"
    BY <2>1, <2>3 DEF AttemptFails, IInv, UnrecordedIsPrivate
  <2> QED BY <2>1, <2>4 DEF AttemptFails, Strike
<1> QED BY <1>1, <1>2, ThreadStep DEF Creating

\* No row of a success loses its file unasked.
LEMMA LossStep ==
  ASSUME IInv, [Next]_vars
  PROVE  NoSilentLoss'
<1> SUFFICES ASSUME NEW r \in records', r.status = "success", ~OnDisk(r)', ~IsDoomed(r)',
                    "save_success" \notin struck'
             PROVE  FALSE
  BY DEF NoSilentLoss
<1>0. "save_success" \notin struck
  BY StruckGrows
<1>1. r \in Known' /\ ~IsDoomed(r)
  BY RecordedStays DEF Known, IsDoomed
<1>2. CASE r \notin Known
  <2> PICK t \in Thread : /\ InsertSuccess(t)
                          /\ UNCHANGED files
                          /\ r.file_path = attempt[t].filename
    BY <1>1, <1>2, NewRows
  <2> QED BY DEF InsertSuccess, IInv, UnrecordedIsPrivate, AttemptsOwnNames, Creating, TryBlock, OnDisk
<1>3. CASE r \in Known
  <2>1. r \in records
    BY <1>1, <1>3 DEF Known, IsDoomed
  <2>2. OnDisk(r)
    BY <1>0, <1>1, <2>1 DEF IInv, NoSilentLoss
  <2>3. r.file_path = r.filename /\ r.filename \in Name
    BY <1>3, StoreAssumption DEF IInv, RowsNameTheirFile, TypeOK, Name
  <2>4. files[r.filename] # "absent" /\ files'[r.filename] = "absent"
    BY <2>2, <2>3 DEF OnDisk
  <2>5. PICK t \in Thread :
          \/ victim[t] \in doomed /\ victim[t].rec.file_path = r.filename
          \/ Cleanup(t) /\ attempt[t].filename = r.filename
    BY <2>3, <2>4, FilesStep
  <2>6. CASE victim[t] \in doomed /\ victim[t].rec.file_path = r.filename
    <3>1. victim[t].rec \in Known /\ victim[t].rec.filename = r.filename
      BY <2>3, <2>6 DEF Known, IInv, RowsNameTheirFile, Name, NoName
    <3>2. victim[t].rec.status = "success"
      BY <2>3, <2>6, <3>1 DEF IInv, RowsNameTheirFile, Name, NoName
    <3>3. victim[t].rec = r
      BY <2>1, <2>6, <3>1, <3>2 DEF Recorded, IInv, OneSuccessPerName
    <3> QED BY <1>1, <2>6, <3>3 DEF IsDoomed
  <2>7. CASE Cleanup(t) /\ attempt[t].filename = r.filename
    BY <1>0, <2>1, <2>7 DEF Cleanup, IInv, RecordedIsCleanedOnlyAfterSave, Recorded
  <2> QED BY <2>5, <2>6, <2>7
<1> QED BY <1>2, <1>3
\* A kept backup stays kept unless the cleanup of its own attempt unlinks it.
LEMMA KeptStep ==
  ASSUME IInv, [Next]_vars, NEW n \in Name, Kept(n),
         \A t \in Thread : pc[t] = "cleanup" => attempt[t].filename # n
  PROVE  Kept(n)'
<1> PICK r \in Recorded : r.filename = n /\ (IsDoomed(r) \/ OnDisk(r))
  BY DEF Kept
<1>1. r \in Recorded'
  BY RecordedStays
<1>2. CASE IsDoomed(r)
  BY <1>1, <1>2, RecordedStays DEF Kept, IsDoomed
<1>3. CASE OnDisk(r) /\ ~OnDisk(r)'
  <2>1. r \in Known /\ r.status = "success" /\ r.file_path = n
    BY DEF Recorded, Known, IInv, RowsNameTheirFile
  <2>2. files[n] # "absent" /\ files'[n] = "absent"
    BY <1>3, <2>1 DEF OnDisk
  <2>3. PICK t \in Thread : victim[t] \in doomed /\ victim[t].rec.file_path = n
    BY <2>2, FilesStep DEF Cleanup
  <2>4. /\ victim[t].rec \in Known
        /\ victim[t].rec.filename = n
        /\ victim[t].rec.status = "success"
    BY <2>3 DEF Known, IInv, RowsNameTheirFile, Name, NoName
  <2>5. victim[t].rec = r
    BY <2>3, <2>4 DEF Recorded, IInv, OneSuccessPerName
  <2>6. IsDoomed(r)
    BY <2>3, <2>5 DEF IsDoomed
  <2> QED BY <1>2, <2>6
<1>4. CASE OnDisk(r)'
  BY <1>1, <1>4 DEF Kept
<1> QED BY <1>2, <1>3, <1>4

\* Only NotifySuccess announces a success.
LEMMA NewAnnouncement ==
  ASSUME IInv, [Next]_vars, NEW n \in Name,
         [filename |-> n, event |-> "backup_success"] \in notices',
         [filename |-> n, event |-> "backup_success"] \notin notices
  PROVE  \E t \in Thread : NotifySuccess(t) /\ attempt[t].filename = n
<1> DEFINE said == [filename |-> n, event |-> "backup_success"]
<1> USE DEF createVars
<1>1. ASSUME NEW t \in Thread, CreateStep(t), ~NotifySuccess(t)
      PROVE  said \in notices' => said \in notices
  BY <1>1 DEF CreateStep, Download, OpenFile, WriteFile, Checksum, InsertSuccess, SaveSuccess,
              AttemptFails, Cleanup, InsertFailed, SaveError, NotifyFailed, HandlerFails, Notify
<1>2. ASSUME NEW t \in Thread, DeleteStep(t) \/ RetentionStep(t) \/ Crash(t)
      PROVE  notices' = notices
  BY <1>2 DEF DeleteStep, CheckExists, Unlink, UnlinkFails, DeleteRow, DeleteRowFails, Crash,
              RetentionStep, SelectByCount, SkipConfig, EndRetention, PruneNext, PruneDone,
              SelectByAge, PurgeFailed, EnforceFails
<1>3. ASSUME NEW t \in Thread, ReadStep(t)
      PROVE  said \in notices' => said \in notices
  BY <1>3 DEF ReadStep, FindFile, Verify, ReadFile, ReadRefused, Send, SendFails, EndRead, Notify
<1>4. ASSUME NEW t \in Thread, WebRequest(t) \/ SchedulerJob(t)
      PROVE  notices' = notices
  BY <1>4 DEF WebRequest, SchedulerJob, StartBackup, StartDelete, StartRead, StartRetention
<1>5. ASSUME UNCHANGED vars \/ (\E m \in Name : Damage(m) /\ UNCHANGED createVars)
              \/ (\E c \in Config : SwitchActive(c) /\ UNCHANGED createVars)
      PROVE  notices' = notices
  BY <1>5 DEF vars, Damage, SwitchActive
<1>6. PICK t \in Thread : NotifySuccess(t)
  BY <1>1, <1>2, <1>3, <1>4, <1>5 DEF Next, Step, Thread
<1>7. notices' = notices \cup {[filename |-> attempt[t].filename, event |-> "backup_success"]}
  BY <1>6 DEF NotifySuccess, Notify
<1> QED BY <1>6, <1>7

\* What is announced is kept, from the insertion of the row on.
LEMMA AnnouncementStep ==
  ASSUME IInv, [Next]_vars
  PROVE  AnnouncementIsTrue'
<1>1. ASSUME NEW t \in Thread, pc[t] \in Creating
      PROVE  /\ attempt[t].filename \in Name
             /\ \A u \in Thread : attempt[u].filename = attempt[t].filename => u = t
  BY <1>1 DEF IInv, TypeOK, AttemptsOwnNames, Attempt, NoName, Name
<1>2. ASSUME NEW u \in Thread, NEW n \in Name, n = attempt[u].filename,
             pc[u] \in {"save_success", "notify_success"}
      PROVE  Kept(n)'
  <2>1. \A t \in Thread : pc[t] = "cleanup" => attempt[t].filename # n
    BY <1>1, <1>2 DEF Creating, TryBlock
  <2>2. Kept(n)
    BY <1>2 DEF IInv, AnnouncementIsTrue
  <2> QED BY <2>1, <2>2, KeptStep
<1>3. ASSUME NEW u \in Thread, pc'[u] \in {"save_success", "notify_success"}
      PROVE  \E n \in Name : n = attempt'[u].filename /\ Kept(n)'
  <2>1. CASE pc'[u] = pc[u] /\ attempt'[u] = attempt[u]
    BY <1>1, <1>2, <1>3, <2>1 DEF Creating, TryBlock
  <2>2. CASE SaveSuccess(u)
    BY <1>1, <1>2, <2>2 DEF SaveSuccess, createVars, Creating, TryBlock
  <2>3. CASE InsertSuccess(u)
    <3>1. pc[u] \in Creating /\ attempt' = attempt /\ attempt[u].filename \in Name
      BY <1>1, <2>3 DEF InsertSuccess, createVars, Creating, TryBlock
    <3> PICK r : r = [id |-> lastId + 1, config |-> attempt[u].config,
                      filename |-> attempt[u].filename, file_path |-> attempt[u].filename,
                      checksum |-> attempt[u].checksum, status |-> "success"]
      OBVIOUS
    <3>2. /\ r \in records'
          /\ r.filename = attempt[u].filename
          /\ r.file_path = attempt[u].filename
          /\ r.status = "success"
      BY <2>3 DEF InsertSuccess, Insert
    <3>3. files'[attempt[u].filename] # "absent"
      BY <2>3 DEF InsertSuccess, IInv, UnrecordedIsPrivate, fileVars
    <3>4. OnDisk(r)' /\ r \in Recorded'
      BY <3>1, <3>2, <3>3 DEF OnDisk, Recorded, Name, NoName
    <3> QED BY <3>1, <3>2, <3>4 DEF Kept
  <2>4. CASE CreateStep(u)
    BY <1>3, <2>2, <2>3, <2>4 DEF CreateStep, Download, OpenFile, WriteFile, Checksum, NotifySuccess,
       AttemptFails, Cleanup, InsertFailed, SaveError, NotifyFailed, HandlerFails,
       EndAttempt, Goto, IInv, TypeOK
  <2> QED BY <1>3, <2>1, <2>4, ThreadStep DEF Creating, TryBlock
<1>4. ASSUME NEW n \in Name, Kept(n), NEW u \in Thread, attempt'[u].filename = n
      PROVE  attempt[u].filename = n
  <2>1. pc'[u] \in Creating
    BY <1>4, AttemptsStep DEF AttemptsOwnNames, Name, NoName
  <2>2. CASE CreateStep(u)
    BY <1>4, <2>2 DEF CreateStep, Download, OpenFile, WriteFile, Checksum, InsertSuccess, SaveSuccess,
              NotifySuccess, AttemptFails, Cleanup, InsertFailed, SaveError, NotifyFailed,
              HandlerFails, EndAttempt, NoAttempt, Name, NoName, createVars, IInv, TypeOK, Attempt
  <2>3. n \in 1 .. lastName
    BY <1>4 DEF Kept, Recorded, Known, IInv, RowsNameTheirFile
  <2> QED BY <1>4, <2>1, <2>2, <2>3, ThreadStep, NamesGrow
<1>5. ASSUME NEW n \in Name, [filename |-> n, event |-> "backup_success"] \in notices'
      PROVE  Kept(n)' /\ \A t \in Thread : attempt'[t].filename # n
  <2>1. CASE [filename |-> n, event |-> "backup_success"] \in notices
    <3>1. Kept(n) /\ \A t \in Thread : attempt[t].filename # n
      BY <2>1 DEF IInv, AnnouncementIsTrue
    <3> QED BY <1>4, <3>1, KeptStep
  <2>2. CASE [filename |-> n, event |-> "backup_success"] \notin notices
    <3> PICK t \in Thread : NotifySuccess(t) /\ attempt[t].filename = n
      BY <1>5, <2>2, NewAnnouncement
    <3>1. pc[t] = "notify_success" /\ attempt'[t].filename = NoName
      BY DEF NotifySuccess, EndAttempt, NoAttempt, IInv, TypeOK
    <3>2. Kept(n)' /\ Kept(n)
      BY <1>2, <3>1 DEF IInv, AnnouncementIsTrue
    <3>3. \A u \in Thread : attempt[u].filename = n => u = t
      BY <1>1, <3>1 DEF Creating
    <3> QED BY <1>4, <3>1, <3>2, <3>3 DEF Name, NoName
  <2> QED BY <2>1, <2>2
<1> QED BY <1>3, <1>5 DEF AnnouncementIsTrue

\* The initial state satisfies the invariant.
LEMMA InvariantInit ==
  ASSUME Init
  PROVE  IInv
<1>1. TypeOK
  BY StoreAssumption, TypeInit
<1>2. AttemptsOwnNames /\ UnrecordedIsPrivate /\ DeletionsAreDoomed /\ FileIsGoneAtDelete
  BY DEF Init, StoreInit, ServiceInit, RetentionInit, AttemptsOwnNames, UnrecordedIsPrivate,
         DeletionsAreDoomed, FileIsGoneAtDelete, Creating, TryBlock, NoAttempt, NoName, NoSweep
<1>3. /\ RowsNameTheirFile /\ OneSuccessPerName /\ RecordedIsCleanedOnlyAfterSave
      /\ NoSilentLoss /\ AnnouncementIsTrue
  BY DEF Init, StoreInit, ServiceInit, RowsNameTheirFile, OneSuccessPerName, Known, Recorded,
         RecordedIsCleanedOnlyAfterSave, NoSilentLoss, AnnouncementIsTrue
<1> QED BY <1>1, <1>2, <1>3 DEF IInv

\* Every step preserves it.
LEMMA InvariantStep ==
  ASSUME IInv, [Next]_vars
  PROVE  IInv'
<1>1. TypeOK'
  BY StoreAssumption, TypeStep DEF IInv
<1> QED BY <1>1, AttemptsStep, RowsStep, OneSuccessStep, PrivateStep, DoomedStep, FileGoneStep,
           CleanupStep, LossStep, AnnouncementStep DEF IInv

\* The invariant holds throughout every behaviour of the system.
THEOREM Invariance == Spec => []IInv
  BY InvariantInit, InvariantStep, PTL DEF Spec

\* Every variable always has its type.
THEOREM TypeCorrect == Spec => []TypeOK
<1>1. IInv => TypeOK
  BY DEF IInv
<1> QED BY <1>1, Invariance, PTL

\* A backup that was announced as a success is on the disk until somebody decides
\* to delete it, for any number of threads, configurations, crashes and failures.
THEOREM AnnouncedIsKept == Spec => []AnnouncedBackupIsKept
<1>1. IInv => AnnouncedBackupIsKept
  BY DEF IInv, AnnouncementIsTrue, Kept, AnnouncedBackupIsKept
<1> QED BY <1>1, Invariance, PTL

\* The row of a success loses its file only to a deletion somebody decided, or to
\* a failed save of the configuration row.
THEOREM NothingIsLostSilently == Spec => []NoSilentLoss
<1>1. IInv => NoSilentLoss
  BY DEF IInv
<1> QED BY <1>1, Invariance, PTL

-----------------------------------------------------------------------------
(* The refinement.                                                         *)

\* A row that disappears has no file: it was deleted after its file was, or it is
\* the row of a failed attempt.
LEMMA RowGoesLast ==
  ASSUME IInv, [Next]_vars, NEW r \in records, r \notin records'
  PROVE  ~OnDisk(r)
<1> USE DEF tableVars
<1>1. ASSUME NEW t \in Thread, CreateStep(t)
      PROVE  records \subseteq records'
  BY <1>1 DEF CreateStep, Download, OpenFile, WriteFile, Checksum, InsertSuccess, SaveSuccess,
              NotifySuccess, AttemptFails, Cleanup, InsertFailed, SaveError, NotifyFailed,
              HandlerFails, Insert
<1>2. ASSUME NEW t \in Thread, DeleteStep(t)
      PROVE  records' = records \/ (r = victim[t].rec /\ pc[t] = "delete")
  BY <1>2 DEF DeleteStep, CheckExists, Unlink, UnlinkFails, DeleteRow, DeleteRowFails
<1>3. ASSUME NEW t \in Thread, RetentionStep(t)
      PROVE  records' = records \/ r.status = "failed"
  BY <1>3 DEF RetentionStep, SelectByCount, SkipConfig, EndRetention, PruneNext, PruneDone,
              SelectByAge, PurgeFailed, EnforceFails
<1>4. ASSUME NEW t \in Thread, ReadStep(t) \/ Crash(t) \/ WebRequest(t) \/ SchedulerJob(t)
      PROVE  records' = records
  BY <1>4 DEF ReadStep, FindFile, Verify, ReadFile, ReadRefused, Send, SendFails, Crash,
              WebRequest, SchedulerJob, StartBackup, StartDelete, StartRead, StartRetention
<1>5. ASSUME UNCHANGED vars \/ (\E n \in Name : Damage(n))
              \/ (\E c \in Config : SwitchActive(c))
      PROVE  records' = records
  BY <1>5 DEF vars, Damage, SwitchActive
<1>6. r.status = "failed" => ~OnDisk(r)
  BY DEF IInv, RowsNameTheirFile, Known, OnDisk
<1> QED
  BY <1>1, <1>2, <1>3, <1>4, <1>5, <1>6 DEF Next, Step, Thread, IInv, FileIsGoneAtDelete

\* No step removes the row of a backup whose file is still on the disk.
THEOREM RowsOutliveFiles == Spec => FileGoesBeforeRow
<1>1. IInv /\ [Next]_vars => [\A r \in records : r \notin records' => ~OnDisk(r)]_vars
  BY RowGoesLast
<1> QED BY <1>1, Invariance, PTL DEF Spec, FileGoesBeforeRow

-----------------------------------------------------------------------------
\* A save that cannot fail has not failed.
LEMMA SaveNeverStruck ==
  ASSUME IInv, "save_success" \notin Faults
  PROVE  "save_success" \notin struck
  BY DEF IInv, TypeOK

\* Only the two insertions of create_backup add a row.
LEMMA OnlyInsertsAdd ==
  ASSUME [Next]_vars, NEW r \in records', r \notin records
  PROVE  \E t \in Thread :
           \/ InsertSuccess(t) /\ r.filename = attempt[t].filename
           \/ InsertFailed(t) /\ r.status = "failed"
<1> USE DEF tableVars
<1>1. ASSUME NEW t \in Thread, CreateStep(t), ~InsertSuccess(t), ~InsertFailed(t)
      PROVE  records' = records
  BY <1>1 DEF CreateStep, Download, OpenFile, WriteFile, Checksum, SaveSuccess, NotifySuccess,
              AttemptFails, Cleanup, SaveError, NotifyFailed, HandlerFails
<1>2. ASSUME NEW t \in Thread, DeleteStep(t) \/ RetentionStep(t)
      PROVE  records' \subseteq records
  BY <1>2 DEF DeleteStep, CheckExists, Unlink, UnlinkFails, DeleteRow, DeleteRowFails,
              RetentionStep, SelectByCount, SkipConfig, EndRetention, PruneNext, PruneDone,
              SelectByAge, PurgeFailed, EnforceFails
<1>3. ASSUME NEW t \in Thread, ReadStep(t) \/ Crash(t) \/ WebRequest(t) \/ SchedulerJob(t)
      PROVE  records' = records
  BY <1>3 DEF ReadStep, FindFile, Verify, ReadFile, ReadRefused, Send, SendFails, Crash,
              WebRequest, SchedulerJob, StartBackup, StartDelete, StartRead, StartRetention
<1>4. ASSUME UNCHANGED vars \/ (\E n \in Name : Damage(n))
              \/ (\E c \in Config : SwitchActive(c))
      PROVE  records' = records
  BY <1>4 DEF vars, Damage, SwitchActive
<1>5. PICK t \in Thread : InsertSuccess(t) \/ InsertFailed(t)
  BY <1>1, <1>2, <1>3, <1>4 DEF Next, Step, Thread
<1>6. CASE InsertSuccess(t)
  <2>1. PICK q : q = [id |-> lastId + 1, config |-> attempt[t].config,
                      filename |-> attempt[t].filename, file_path |-> attempt[t].filename,
                      checksum |-> attempt[t].checksum, status |-> "success"]
    OBVIOUS
  <2>2. records' = records \cup {q}
    BY <1>6, <2>1 DEF InsertSuccess, Insert
  <2> QED BY <1>6, <2>1, <2>2
<1>7. CASE InsertFailed(t)
  <2>1. PICK q : q = [id |-> lastId + 1, config |-> attempt[t].config,
                      filename |-> attempt[t].filename, file_path |-> NoName,
                      checksum |-> "absent", status |-> "failed"]
    OBVIOUS
  <2>2. records' = records \cup {q}
    BY <1>7, <2>1 DEF InsertFailed, Insert
  <2> QED BY <1>7, <2>1, <2>2
<1> QED BY <1>5, <1>6, <1>7

\* What is condemned in a step was available, or had been condemned before.
LEMMA CondemnedWasAvailable ==
  ASSUME IInv, [Next]_vars, "save_success" \notin Faults
  PROVE  /\ Condemned \subseteq Condemned'
         /\ Condemned' \subseteq Condemned \cup Available
<1> USE DEF createVars, deleteVars, readVars
<1>1. Condemned \subseteq Condemned'
  BY RecordedStays DEF Condemned
<1>2. SUFFICES ASSUME NEW r \in Condemned', r \notin Condemned
               PROVE  r \in Available
  BY <1>1
<1>3. r \in records
  <2>1. r \in {d.rec : d \in doomed'} /\ r \notin {d.rec : d \in doomed}
    BY <1>2 DEF Condemned
  <2>2. r \in Known' /\ r \notin {d.rec : d \in doomed}
    BY <2>1 DEF Known
  <2>3. r \in Known
    <3> SUFFICES ASSUME r \notin Known PROVE FALSE
      OBVIOUS
    <3>1. doomed' = doomed
      BY <2>2, NewRows
    <3> QED BY <2>1, <3>1
  <2> QED BY <2>2, <2>3 DEF Known
<1>4. r.status = "success" /\ ~IsDoomed(r)
  BY <1>2 DEF Condemned, IsDoomed
<1> QED BY <1>3, <1>4, SaveNeverStruck DEF IInv, NoSilentLoss, Available

\* What becomes available in a step is one new backup; what stops being available
\* is one backup that had been condemned; never both.
LEMMA AvailableStep ==
  ASSUME IInv, [Next]_vars, "save_success" \notin Faults
  PROVE  \/ Available' = Available
         \/ /\ \E b \in Available' : /\ b \notin Available \cup Condemned
                                     /\ Available' = Available \cup {b}
            /\ Condemned' = Condemned
         \/ /\ \E b \in Available \cap Condemned : Available' = Available \ {b}
            /\ Condemned' = Condemned
<1>1. ASSUME NEW r \in Available', r \notin Available
      PROVE  /\ \E b \in Available' : /\ b \notin Available \cup Condemned
                                      /\ Available' = Available \cup {b}
             /\ Condemned' = Condemned
  <2>1. r \in records' /\ r.status = "success" /\ OnDisk(r)'
    BY <1>1 DEF Available
  <2>2. r \notin Known
    <3> SUFFICES ASSUME r \in Known PROVE FALSE
      OBVIOUS
    <3>1. OnDisk(r)
      BY <2>1, LostStaysLost
    <3>2. r \notin records
      BY <1>1, <2>1, <3>1 DEF Available
    <3>3. PICK t \in Thread : InsertSuccess(t) /\ r.filename = attempt[t].filename
      BY <2>1, <3>2, OnlyInsertsAdd
    <3> QED BY <3>3 DEF InsertSuccess, IInv, UnrecordedIsPrivate, TryBlock
  <2>3. /\ records' = records \cup {r}
        /\ UNCHANGED <<files, doomed>>
    BY <2>1, <2>2, NewRows DEF Known
  <2>4. Available' = Available \cup {r} /\ Condemned' = Condemned
    BY <2>1, <2>3 DEF Available, Condemned, OnDisk
  <2>5. r \notin Condemned
    BY <2>2 DEF Known, Condemned
  <2> QED BY <1>1, <2>4, <2>5
<1>2. ASSUME NEW r \in Available, r \notin Available'
      PROVE  /\ r \in Condemned
             /\ Available' = Available \ {r}
             /\ Condemned' = Condemned
  <2>1. r \in records /\ r.status = "success" /\ OnDisk(r)
    BY <1>2 DEF Available
  <2>2. r \in records' /\ ~OnDisk(r)'
    BY <1>2, <2>1, RowGoesLast DEF Available
  <2>3. r.file_path = r.filename /\ r.filename \in Name
    BY <2>1, StoreAssumption DEF Known, IInv, RowsNameTheirFile, TypeOK, Name
  <2>4. files[r.filename] # "absent" /\ files'[r.filename] = "absent"
    BY <2>1, <2>2, <2>3 DEF OnDisk
  <2>5. PICK t \in Thread :
          \/ Unlink(t) /\ victim[t] \in doomed /\ victim[t].rec.file_path = r.filename
          \/ Cleanup(t) /\ attempt[t].filename = r.filename
    BY <2>3, <2>4, FilesStep
  <2>6. ~Cleanup(t) \/ attempt[t].filename # r.filename
    BY <2>1, SaveNeverStruck DEF Cleanup, IInv, RecordedIsCleanedOnlyAfterSave, Recorded
  <2>7. Unlink(t) /\ victim[t] \in doomed /\ victim[t].rec.file_path = r.filename
    BY <2>5, <2>6
  <2>8. victim[t].rec = r
    <3>1. /\ victim[t].rec \in Known
          /\ victim[t].rec.filename = r.filename
          /\ victim[t].rec.status = "success"
      BY <2>3, <2>7 DEF Known, IInv, RowsNameTheirFile, Name, NoName
    <3> QED BY <2>1, <2>7, <3>1 DEF Recorded, IInv, OneSuccessPerName
  <2>9. /\ files' = [files EXCEPT ![r.filename] = "absent"]
        /\ UNCHANGED <<records, doomed>>
    BY <2>7 DEF Unlink, tableVars
  <2>10. \A q \in records : q.status = "success" /\ q # r => (OnDisk(q)' <=> OnDisk(q))
    <3> SUFFICES ASSUME NEW q \in records, q.status = "success", q # r
                 PROVE  OnDisk(q)' <=> OnDisk(q)
      OBVIOUS
    <3>1. q.file_path = q.filename /\ q.filename # r.filename
      BY <2>1 DEF Known, Recorded, IInv, RowsNameTheirFile, OneSuccessPerName
    <3> QED BY <2>3, <2>9, <3>1 DEF OnDisk, IInv, TypeOK
  <2>11. r \in Condemned
    BY <2>1, <2>7, <2>8 DEF Condemned
  <2>12. Available' = Available \ {r}
    BY <2>2, <2>9, <2>10 DEF Available
  <2> QED BY <2>9, <2>11, <2>12 DEF Condemned
<1> QED BY <1>1, <1>2

\* For every set of configurations and threads and every bound: if the save of a
\* configuration row cannot fail, the application is a catalogue of backups.
THEOREM Refinement ==
  ASSUME "save_success" \notin Faults
  PROVE  Spec => ImplementsCatalog
<1>1. Init => Catalog!Init
  BY DEF Init, StoreInit, Catalog!Init, Available, Condemned
<1>2. IInv /\ [Next]_vars => [Catalog!Next]_<<Available, Condemned>>
  <2> SUFFICES ASSUME IInv, [Next]_vars
               PROVE  [Catalog!Next]_<<Available, Condemned>>
    OBVIOUS
  <2>1. CASE Available' = Available
    BY <2>1, CondemnedWasAvailable DEF Catalog!Next, Catalog!Condemn
  <2>2. CASE /\ \E b \in Available' : /\ b \notin Available \cup Condemned
                                      /\ Available' = Available \cup {b}
             /\ Condemned' = Condemned
    BY <2>2 DEF Catalog!Next, Catalog!Publish
  <2>3. CASE /\ \E b \in Available \cap Condemned : Available' = Available \ {b}
             /\ Condemned' = Condemned
    BY <2>3 DEF Catalog!Next, Catalog!Withdraw
  <2> QED BY <2>1, <2>2, <2>3, AvailableStep
<1> QED BY <1>1, <1>2, Invariance, PTL DEF Spec, ImplementsCatalog, Catalog!Spec
=============================================================================
