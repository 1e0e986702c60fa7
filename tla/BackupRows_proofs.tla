-------------------------- MODULE BackupRows_proofs --------------------------
(***************************************************************************)
(* RowInv is inductive beside IInv: one row and one notice for an attempt, *)
(* no file without an explanation, whole backups for readers, and the      *)
(* newest ones kept.                                                       *)
(***************************************************************************)
EXTENDS BackupSystem_proofs, FiniteSetTheorems

\* An attempt that is under way has a name in Name, and no other has it.
LEMMA OwnName ==
  ASSUME IInv, NEW t \in Thread, pc[t] \in Creating
  PROVE  /\ attempt[t].filename \in Name
         /\ \A u \in Thread : attempt[u].filename = attempt[t].filename => u = t
BY DEF IInv, TypeOK, AttemptsOwnNames, Attempt, NoName, Name

\* A step adds at most one row to those that are known, under the name of the attempt
\* that inserts it.
LEMMA OneNewRow ==
  ASSUME IInv, [Next]_vars
  PROVE  \/ Known' \subseteq Known
         \/ \E t \in Thread, r \in Known' :
              /\ InsertSuccess(t) \/ InsertFailed(t)
              /\ r.filename = attempt[t].filename
              /\ Known' = Known \cup {r}
              /\ records' = records \cup {r}
              /\ UNCHANGED <<attempt, files, doomed>>
<1> SUFFICES ASSUME NEW r \in Known', r \notin Known
             PROVE  \E t \in Thread :
                      /\ InsertSuccess(t) \/ InsertFailed(t)
                      /\ r.filename = attempt[t].filename
                      /\ Known' = Known \cup {r}
                      /\ records' = records \cup {r}
                      /\ UNCHANGED <<attempt, files, doomed>>
  OBVIOUS
<1> QED BY NewRows DEF Known

\* The handler inserts the only row of its attempt.
LEMMA HandlerStep ==
  ASSUME IInv, HandlerInsertsFirst, [Next]_vars
  PROVE  HandlerInsertsFirst'
<1> SUFFICES ASSUME NEW u \in Thread, pc'[u] \in {"cleanup", "insert_failed"},
                    "save_success" \notin struck', NEW r \in Known',
                    r.filename = attempt'[u].filename
             PROVE  FALSE
  BY DEF HandlerInsertsFirst
<1>0. "save_success" \notin struck
  BY StruckGrows
<1>1. pc[u] \in Creating /\ attempt'[u] = attempt[u]
  <2>1. CASE CreateStep(u)
    BY <2>1 DEF CreateStep, Download, OpenFile, WriteFile, Checksum, InsertSuccess, SaveSuccess,
                NotifySuccess, AttemptFails, Cleanup, InsertFailed, SaveError, NotifyFailed,
                HandlerFails, EndAttempt, Goto, Creating, TryBlock, createVars, IInv, TypeOK
  <2> QED BY <2>1, ThreadStep DEF Creating
<1>2. attempt[u].filename \in Name
        /\ \A t \in Thread : attempt[t].filename = attempt[u].filename => t = u
  BY <1>1, OwnName
<1>3. r \in Known
  <2> SUFFICES ASSUME r \notin Known PROVE FALSE
    OBVIOUS
  <2> PICK t \in Thread : (InsertSuccess(t) \/ InsertFailed(t)) /\ r.filename = attempt[t].filename
    BY NewRows
  <2>1. t = u
    BY <1>1, <1>2
  <2> QED BY <2>1 DEF InsertSuccess, InsertFailed, Goto, IInv, TypeOK
<1>4. pc[u] \notin TryBlock \ {"save_success"}
  BY <1>1, <1>3 DEF IInv, UnrecordedIsPrivate
<1>5. pc[u] \notin {"cleanup", "insert_failed"}
  BY <1>0, <1>1, <1>3 DEF HandlerInsertsFirst
<1>6. CASE CreateStep(u)
  BY <1>4, <1>5, <1>6 DEF CreateStep, Download, OpenFile, WriteFile, Checksum, InsertSuccess,
       SaveSuccess, NotifySuccess, AttemptFails, Cleanup, InsertFailed, SaveError, NotifyFailed,
       HandlerFails, EndAttempt, Goto, TryBlock, Strike, IInv, TypeOK
<1> QED BY <1>5, <1>6, ThreadStep DEF Creating

\* A row comes into the table by one of the two insertions of an attempt.
LEMMA RowArrives ==
  ASSUME IInv, [Next]_vars, NEW r \in records', r \notin records
  PROVE  \E t \in Thread :
           /\ InsertSuccess(t) \/ InsertFailed(t)
           /\ r.filename = attempt[t].filename
           /\ records' = records \cup {r}
<1> USE DEF tableVars, createVars, fileVars, deleteVars, readVars
<1>1. ASSUME NEW t \in Thread, CreateStep(t), ~InsertSuccess(t), ~InsertFailed(t)
      PROVE  FALSE
  BY <1>1 DEF CreateStep, Download, OpenFile, WriteFile, Checksum, SaveSuccess, NotifySuccess,
              AttemptFails, Cleanup, SaveError, NotifyFailed, HandlerFails
<1>2. ASSUME NEW t \in Thread, DeleteStep(t)
      PROVE  FALSE
  BY <1>2 DEF DeleteStep, CheckExists, Unlink, UnlinkFails, DeleteRow, DeleteRowFails
<1>3. ASSUME NEW t \in Thread, RetentionStep(t)
      PROVE  FALSE
  BY <1>3 DEF RetentionStep, SelectByCount, SkipConfig, EndRetention, PruneNext, PruneDone,
              SelectByAge, PurgeFailed, EnforceFails
<1>4. ASSUME NEW t \in Thread, ReadStep(t) \/ Crash(t)
      PROVE  FALSE
  BY <1>4 DEF ReadStep, FindFile, Verify, ReadFile, ReadRefused, Send, SendFails, Crash
<1>5. ASSUME NEW t \in Thread, WebRequest(t) \/ SchedulerJob(t)
      PROVE  FALSE
  BY <1>5 DEF WebRequest, SchedulerJob, StartBackup, StartDelete, StartRead, StartRetention
<1>6. ASSUME UNCHANGED vars \/ (\E n \in Name : Damage(n))
              \/ (\E c \in Config : SwitchActive(c))
      PROVE  FALSE
  BY <1>6 DEF vars, Damage, SwitchActive
<1>7. PICK t \in Thread : InsertSuccess(t) \/ InsertFailed(t)
  BY <1>1, <1>2, <1>3, <1>4, <1>5, <1>6 DEF Next, Step, Thread
<1> QED BY <1>7 DEF InsertSuccess, InsertFailed, Insert

\* The row that is inserted is the first of its name.
LEMMA OneRowStep ==
  ASSUME IInv, HandlerInsertsFirst, OneRowPerAttempt, [Next]_vars
  PROVE  OneRowPerAttempt'
<1> SUFFICES ASSUME NEW r \in records', NEW s \in records', r.filename = s.filename,
                    "save_success" \notin struck'
             PROVE  r = s
  BY DEF OneRowPerAttempt
<1>0. "save_success" \notin struck
  BY StruckGrows
<1>1. ASSUME NEW x \in records', NEW y \in records', x \notin records,
             x.filename = y.filename
      PROVE  x = y
  <2> PICK t \in Thread : /\ InsertSuccess(t) \/ InsertFailed(t)
                          /\ x.filename = attempt[t].filename
                          /\ records' = records \cup {x}
    BY <1>1, RowArrives
  <2>1. \A q \in records : q.filename # attempt[t].filename
    BY <1>0 DEF InsertSuccess, InsertFailed, IInv, UnrecordedIsPrivate, TryBlock, Known,
                HandlerInsertsFirst
  <2> QED BY <1>1, <2>1
<1> QED BY <1>0, <1>1 DEF OneRowPerAttempt

\* The row of a success goes by the deletion of that row.
LEMMA RowLeaves ==
  ASSUME IInv, [Next]_vars, NEW r \in records, r.status = "success", r \notin records'
  PROVE  \E t \in Thread : DeleteRow(t) /\ victim[t].rec = r
<1> USE DEF tableVars, createVars, fileVars, deleteVars, readVars
<1>1. ASSUME NEW t \in Thread, CreateStep(t)
      PROVE  FALSE
  BY <1>1 DEF CreateStep, Download, OpenFile, WriteFile, Checksum, InsertSuccess, SaveSuccess,
              NotifySuccess, AttemptFails, Cleanup, InsertFailed, SaveError, NotifyFailed,
              HandlerFails, Insert
<1>2. ASSUME NEW t \in Thread, DeleteStep(t)
      PROVE  DeleteRow(t) /\ victim[t].rec = r
  BY <1>2 DEF DeleteStep, CheckExists, Unlink, UnlinkFails, DeleteRow, DeleteRowFails
<1>3. ASSUME NEW t \in Thread, RetentionStep(t)
      PROVE  FALSE
  BY <1>3 DEF RetentionStep, SelectByCount, SkipConfig, EndRetention, PruneNext, PruneDone,
              SelectByAge, PurgeFailed, EnforceFails
<1>4. ASSUME NEW t \in Thread, ReadStep(t) \/ Crash(t)
      PROVE  FALSE
  BY <1>4 DEF ReadStep, FindFile, Verify, ReadFile, ReadRefused, Send, SendFails, Crash
<1>5. ASSUME NEW t \in Thread, WebRequest(t) \/ SchedulerJob(t)
      PROVE  FALSE
  BY <1>5 DEF WebRequest, SchedulerJob, StartBackup, StartDelete, StartRead, StartRetention
<1>6. ASSUME UNCHANGED vars \/ (\E n \in Name : Damage(n))
              \/ (\E c \in Config : SwitchActive(c))
      PROVE  FALSE
  BY <1>6 DEF vars, Damage, SwitchActive
<1> QED BY <1>1, <1>2, <1>3, <1>4, <1>5, <1>6 DEF Next, Step, Thread

\* An attempt gives its name up at its end, or when its process dies.
LEMMA AttemptEnds ==
  ASSUME IInv, [Next]_vars, NEW u \in Thread, attempt[u].filename \in Name,
         attempt'[u].filename # attempt[u].filename
  PROVE  \/ /\ NotifySuccess(u) \/ NotifyFailed(u) \/ HandlerFails(u)
            /\ UNCHANGED <<files, records, doomed, lastName>>
            /\ attempt'[u].filename = NoName
         \/ Crash(u) /\ "crash" \in struck' /\ attempt'[u].filename = NoName
<1> USE DEF IInv, TypeOK, tableVars, createVars, fileVars, deleteVars, readVars
<1>1. ASSUME NEW t \in Thread, CreateStep(t)
      PROVE  /\ u = t
             /\ NotifySuccess(u) \/ NotifyFailed(u) \/ HandlerFails(u)
  BY <1>1 DEF CreateStep, Download, OpenFile, WriteFile, Checksum, InsertSuccess, SaveSuccess,
              NotifySuccess, AttemptFails, Cleanup, InsertFailed, SaveError, NotifyFailed,
              HandlerFails, EndAttempt, Attempt
<1>2. ASSUME NEW t \in Thread, DeleteStep(t) \/ RetentionStep(t) \/ ReadStep(t)
      PROVE  FALSE
  BY <1>2, OtherStepsLeaveAttempts
<1>3. ASSUME NEW t \in Thread, WebRequest(t) \/ SchedulerJob(t)
      PROVE  FALSE
  <2>1. ASSUME NEW c \in Config, StartBackup(t, c)
        PROVE  FALSE
    BY <2>1 DEF StartBackup, Idle, AttemptsOwnNames, Creating, TryBlock, Name, NoName
  <2>2. ASSUME StartRetention(t) \/ (\E r \in records : StartDelete(t, r))
                 \/ (\E r \in records, to \in Target : StartRead(t, r, to))
        PROVE  FALSE
    BY <2>2 DEF StartRetention, StartDelete, StartRead
  <2> QED BY <1>3, <2>1, <2>2 DEF WebRequest, SchedulerJob
<1>4. ASSUME NEW t \in Thread, Crash(t)
      PROVE  Crash(u) /\ "crash" \in struck' /\ attempt'[u].filename = NoName
  BY <1>4 DEF Crash, Strike, NoAttempt
<1>5. ASSUME UNCHANGED vars \/ (\E n \in Name : Damage(n) /\ UNCHANGED createVars)
              \/ (\E c \in Config : SwitchActive(c) /\ UNCHANGED createVars)
      PROVE  FALSE
  BY <1>5 DEF vars, Damage, SwitchActive
<1>6. ASSUME NotifySuccess(u) \/ NotifyFailed(u) \/ HandlerFails(u)
      PROVE  UNCHANGED <<files, records, doomed, lastName>> /\ attempt'[u].filename = NoName
  BY <1>6 DEF NotifySuccess, NotifyFailed, HandlerFails, EndAttempt, NoAttempt
<1> QED BY <1>1, <1>2, <1>3, <1>4, <1>5, <1>6 DEF Next, Step, Thread

Ends(t) == NotifySuccess(t) \/ NotifyFailed(t) \/ HandlerFails(t)

\* Only the end of an attempt decides its outcome and its notice.
LEMMA OutcomeFrame ==
  ASSUME IInv, [Next]_vars, NEW n \in Name,
         \A t \in Thread : Ends(t) => attempt[t].filename # n
  PROVE  /\ outcome'[n] = outcome[n]
         /\ \A e \in {"backup_success", "backup_failed"} :
              LET said == [filename |-> n, event |-> e] IN
                said \in notices' <=> said \in notices
<1> USE DEF IInv, TypeOK, createVars, Notify
<1>1. ASSUME NEW t \in Thread, CreateStep(t), ~Ends(t)
      PROVE  UNCHANGED <<outcome, notices>>
  BY <1>1 DEF CreateStep, Download, OpenFile, WriteFile, Checksum, InsertSuccess, SaveSuccess,
              AttemptFails, Cleanup, InsertFailed, SaveError, Ends
<1>2. ASSUME NEW t \in Thread, Ends(t)
      PROVE  /\ outcome'[n] = outcome[n]
             /\ \A e \in {"backup_success", "backup_failed"} :
                  LET said == [filename |-> n, event |-> e] IN
                    said \in notices' <=> said \in notices
  BY <1>2 DEF Ends, NotifySuccess, NotifyFailed, HandlerFails, EndAttempt
<1>3. ASSUME NEW t \in Thread, DeleteStep(t) \/ RetentionStep(t) \/ Crash(t)
      PROVE  UNCHANGED <<outcome, notices>>
  BY <1>3 DEF DeleteStep, CheckExists, Unlink, UnlinkFails, DeleteRow, DeleteRowFails, Crash,
              RetentionStep, SelectByCount, SkipConfig, EndRetention, PruneNext, PruneDone,
              SelectByAge, PurgeFailed, EnforceFails
<1>4. ASSUME NEW t \in Thread, ReadStep(t)
      PROVE  /\ outcome' = outcome
             /\ \A e \in {"backup_success", "backup_failed"} :
                  LET said == [filename |-> n, event |-> e] IN
                    said \in notices' <=> said \in notices
  BY <1>4 DEF ReadStep, FindFile, Verify, ReadFile, ReadRefused, Send, SendFails, EndRead
<1>5. ASSUME NEW t \in Thread, WebRequest(t) \/ SchedulerJob(t)
      PROVE  UNCHANGED <<outcome, notices>>
  BY <1>5 DEF WebRequest, SchedulerJob, StartBackup, StartDelete, StartRead, StartRetention
<1>6. ASSUME UNCHANGED vars \/ (\E m \in Name : Damage(m) /\ UNCHANGED createVars)
              \/ (\E c \in Config : SwitchActive(c) /\ UNCHANGED createVars)
      PROVE  UNCHANGED <<outcome, notices>>
  BY <1>6 DEF vars, Damage, SwitchActive
<1> QED BY <1>1, <1>2, <1>3, <1>4, <1>5, <1>6 DEF Next, Step, Thread

\* Where a file without a row can come from.
LEMMA OwnersStep ==
  ASSUME IInv, FilesHaveOwners, OutcomesAreOpen, [Next]_vars
  PROVE  FilesHaveOwners'
<1>0. struck \subseteq struck'
  BY StruckGrows
<1>1. ASSUME NEW n \in Name, NamesARow(n), files'[n] # "absent"
      PROVE  NamesARow(n)'
  <2> PICK r \in records : r.file_path = n
    BY <1>1 DEF NamesARow
  <2>1. r.status = "success" /\ r \in Known
    BY DEF Known, IInv, RowsNameTheirFile, NoName, Name
  <2>2. CASE r \notin records'
    <3>1. PICK t \in Thread : DeleteRow(t) /\ victim[t].rec = r
      BY <2>1, <2>2, RowLeaves
    <3>2. ~OnDisk(r)
      BY <3>1 DEF DeleteRow, IInv, FileIsGoneAtDelete
    <3>3. ~OnDisk(r)'
      BY <2>1, <3>2, LostStaysLost
    <3> QED BY <1>1, <3>3 DEF OnDisk, Name, NoName
  <2> QED BY <2>2 DEF NamesARow
<1>2. ASSUME NEW n \in Name, files'[n] # "absent", files[n] # "absent" => NamesARow(n)
      PROVE  NamesARow(n)' \/ \E t \in Thread : pc[t] \in {"open", "write"} /\ attempt[t].filename = n
  BY <1>1, <1>2, FilesStep
<1>3. ASSUME NEW u \in Thread, pc[u] \in Creating \ {"open", "write"},
             files[attempt[u].filename] = "absent"
      PROVE  files'[attempt[u].filename] = "absent"
  BY <1>3, OwnName, FilesStep
<1>4. OrphansExplained'
  <2> SUFFICES ASSUME NEW n \in Name, files'[n] # "absent", ~NamesARow(n)',
                      \A t \in Thread : attempt'[t].filename # n
               PROVE  \/ outcome'[n] = "open" /\ "crash" \in struck'
                      \/ outcome'[n] = "failure" /\ "cleanup" \in struck'
    BY DEF OrphansExplained, NamesARow
  <2>1. ~NamesARow(n)
    BY <1>1
  <2>2. ASSUME NEW t \in Thread, attempt[t].filename = n,
               files[n] # "absent" \/ pc[t] \in {"open", "write"}
        PROVE  \/ outcome'[n] = "open" /\ "crash" \in struck'
               \/ outcome'[n] = "failure" /\ "cleanup" \in struck'
    <3>1. outcome[n] = "open"
      BY <2>2 DEF OutcomesAreOpen
    <3>2. CASE NotifySuccess(t)
      BY <2>1, <2>2, <3>2 DEF NotifySuccess, FilesHaveOwners
    <3>3. CASE NotifyFailed(t) \/ HandlerFails(t)
      <4>1. "cleanup" \in struck
        BY <2>2, <3>3 DEF NotifyFailed, HandlerFails, FilesHaveOwners
      <4>2. outcome'[n] = "failure"
        BY <2>2, <3>3 DEF NotifyFailed, HandlerFails, EndAttempt, IInv, TypeOK
      <4> QED BY <1>0, <4>1, <4>2
    <3>4. CASE Crash(t) /\ "crash" \in struck'
      BY <3>1, <3>4 DEF Crash
    <3> QED BY <2>2, <3>2, <3>3, <3>4, AttemptEnds
  <2>3. ASSUME \A t \in Thread : attempt[t].filename # n
        PROVE  \/ outcome'[n] = "open" /\ "crash" \in struck'
               \/ outcome'[n] = "failure" /\ "cleanup" \in struck'
    <3>1. files[n] # "absent"
      BY <2>3, FilesStep
    <3>2. outcome'[n] = outcome[n]
      BY <2>3, OutcomeFrame
    <3> QED BY <1>0, <2>1, <2>3, <3>1, <3>2 DEF FilesHaveOwners, OrphansExplained, NamesARow
  <2> QED
    <3>1. CASE files[n] # "absent"
      BY <2>2, <2>3, <3>1
    <3>2. CASE files[n] = "absent"
      BY <2>2, <3>2, FilesStep
    <3> QED BY <3>1, <3>2
<1>5. ASSUME NEW u \in Thread, pc'[u] \in {"save_success", "notify_success"}
      PROVE  files'[attempt'[u].filename] = "absent" \/ \E r \in records' : r.file_path = attempt'[u].filename
  <2>1. ASSUME pc[u] \in {"save_success", "notify_success"},
               attempt'[u].filename = attempt[u].filename
        PROVE  files'[attempt'[u].filename] = "absent" \/ \E r \in records' : r.file_path = attempt'[u].filename
    <3>1. attempt[u].filename \in Name
      BY <2>1, OwnName DEF Creating, TryBlock
    <3>2. files[attempt[u].filename] = "absent" \/ NamesARow(attempt[u].filename)
      BY <1>0, <1>5, <2>1 DEF FilesHaveOwners
    <3>3. CASE files[attempt[u].filename] = "absent"
      BY <1>3, <2>1, <3>3 DEF Creating, TryBlock
    <3>4. CASE NamesARow(attempt[u].filename)
      BY <1>1, <2>1, <3>1, <3>4 DEF NamesARow
    <3> QED BY <3>2, <3>3, <3>4
  <2>2. CASE InsertSuccess(u)
    <3> DEFINE r == [id |-> lastId + 1, config |-> attempt[u].config,
                     filename |-> attempt[u].filename, file_path |-> attempt[u].filename,
                     checksum |-> attempt[u].checksum, status |-> "success"]
    <3>1. r \in records' /\ r.file_path = attempt[u].filename /\ attempt' = attempt
      BY <2>2 DEF InsertSuccess, Insert, createVars
    <3> HIDE DEF r
    <3> QED BY <3>1
  <2>3. CASE CreateStep(u) /\ ~InsertSuccess(u)
    <3>1. SaveSuccess(u)
      BY <1>5, <2>3 DEF CreateStep, Download, OpenFile, WriteFile, Checksum, NotifySuccess,
           AttemptFails, Cleanup, InsertFailed, SaveError, NotifyFailed, HandlerFails,
           EndAttempt, Goto, IInv, TypeOK
    <3> QED BY <2>1, <3>1 DEF SaveSuccess, createVars
  <2> QED BY <1>5, <2>1, <2>2, <2>3, ThreadStep DEF Creating, TryBlock
<1>6. ASSUME NEW u \in Thread, pc'[u] \in {"insert_failed", "save_error", "notify_failed"},
             "cleanup" \notin struck'
      PROVE  files'[attempt'[u].filename] = "absent"
  <2>1. ASSUME pc[u] \in {"insert_failed", "save_error", "notify_failed"},
               attempt'[u].filename = attempt[u].filename
        PROVE  files'[attempt'[u].filename] = "absent"
    BY <1>0, <1>3, <1>6, <2>1 DEF FilesHaveOwners, Creating, TryBlock
  <2>2. CASE Cleanup(u)
    BY <1>6, <2>2, OwnName DEF Cleanup, Strike, createVars, Creating, IInv, TypeOK
  <2>3. CASE CreateStep(u) /\ ~Cleanup(u)
    <3>1. InsertFailed(u) \/ SaveError(u)
      BY <1>6, <2>3 DEF CreateStep, Download, OpenFile, WriteFile, Checksum, NotifySuccess,
           InsertSuccess, SaveSuccess, AttemptFails, NotifyFailed, HandlerFails,
           EndAttempt, Goto, IInv, TypeOK
    <3> QED BY <2>1, <3>1 DEF InsertFailed, SaveError, createVars
  <2> QED BY <1>6, <2>1, <2>2, <2>3, ThreadStep DEF Creating, TryBlock
<1> QED BY <1>4, <1>5, <1>6 DEF FilesHaveOwners, NamesARow

\* A name an attempt has after a step it had before, or it is a new one.
LEMMA NamesCome ==
  ASSUME IInv, [Next]_vars, NEW u \in Thread, attempt'[u].filename \in Name
  PROVE  attempt'[u].filename \in {attempt[u].filename, lastName + 1}
<1>1. pc'[u] \in Creating
  BY AttemptsStep DEF AttemptsOwnNames, Name, NoName
<1>2. CASE CreateStep(u)
  BY <1>2 DEF CreateStep, Download, OpenFile, WriteFile, Checksum, InsertSuccess, SaveSuccess,
              NotifySuccess, AttemptFails, Cleanup, InsertFailed, SaveError, NotifyFailed,
              HandlerFails, EndAttempt, NoAttempt, Name, NoName, createVars, IInv, TypeOK, Attempt
<1> QED BY <1>1, <1>2, ThreadStep

\* The end of an attempt takes its name away.
LEMMA EndsForget ==
  ASSUME IInv, NEW t \in Thread, Ends(t)
  PROVE  /\ attempt[t].filename \in Name /\ attempt[t].filename <= lastName
         /\ attempt'[t].filename = NoName
<1>1. pc[t] \in Creating
  BY DEF Ends, NotifySuccess, NotifyFailed, HandlerFails, Creating
<1>2. attempt[t].filename \in Name
  BY <1>1, OwnName
<1>3. attempt' = [attempt EXCEPT ![t] = NoAttempt]
  BY DEF Ends, NotifySuccess, NotifyFailed, HandlerFails, EndAttempt
<1> QED BY <1>2, <1>3 DEF IInv, TypeOK, AttemptsOwnNames, NoAttempt

\* Attempts that are under way or still to come have no outcome.
LEMMA OpenStep ==
  ASSUME IInv, OutcomesAreOpen, [Next]_vars
  PROVE  OutcomesAreOpen'
<1> SUFFICES ASSUME NEW n \in Name,
                    n > lastName' \/ \E t \in Thread : attempt'[t].filename = n
             PROVE  outcome'[n] = "open"
  BY DEF OutcomesAreOpen
<1>0. lastName \in Nat /\ lastName' \in Nat /\ lastName <= lastName' /\ n \in Nat
  BY NamesGrow DEF Name
<1>1. n > lastName \/ \E t \in Thread : attempt[t].filename = n /\ attempt'[t].filename = n
  BY <1>0, NamesCome
<1>2. outcome[n] = "open"
  BY <1>1 DEF OutcomesAreOpen
<1>3. ASSUME NEW t \in Thread, Ends(t), attempt[t].filename = n
      PROVE  FALSE
  <2>1. n <= lastName /\ attempt'[t].filename # n
    BY <1>3, EndsForget DEF Name, NoName
  <2>2. \A u \in Thread : attempt[u].filename = n => u = t
    BY <1>3, OwnName DEF Ends, NotifySuccess, NotifyFailed, HandlerFails, Creating
  <2> QED BY <1>0, <1>1, <2>1, <2>2
<1> QED BY <1>2, <1>3, OutcomeFrame

\* The notice of an attempt is that of its outcome.
LEMMA NoticeStep ==
  ASSUME IInv, OutcomesAreOpen, NoticeMatchesOutcome, [Next]_vars
  PROVE  NoticeMatchesOutcome'
<1> DEFINE said(n, e) == [filename |-> n, event |-> e] \in notices
           excused == struck \cap {"insert_failed", "save_error"} # {}
<1>0. excused => excused'
  BY StruckGrows
<1> SUFFICES ASSUME NEW n \in Name
             PROVE  /\ said(n, "backup_success")' <=> outcome'[n] = "success"
                    /\ said(n, "backup_failed")' => outcome'[n] = "failure"
                    /\ outcome'[n] = "failure" => said(n, "backup_failed")' \/ excused'
  BY DEF NoticeMatchesOutcome
<1>1. CASE \A t \in Thread : Ends(t) => attempt[t].filename # n
  BY <1>0, <1>1, OutcomeFrame DEF NoticeMatchesOutcome
<1>2. ASSUME NEW t \in Thread, Ends(t), attempt[t].filename = n
      PROVE  /\ said(n, "backup_success")' <=> outcome'[n] = "success"
             /\ said(n, "backup_failed")' => outcome'[n] = "failure"
             /\ outcome'[n] = "failure" => said(n, "backup_failed")' \/ excused'
  <2>1. ~said(n, "backup_success") /\ ~said(n, "backup_failed")
    BY <1>2 DEF OutcomesAreOpen, NoticeMatchesOutcome
  <2>2. CASE NotifySuccess(t)
    BY <1>2, <2>1, <2>2 DEF NotifySuccess, Notify, EndAttempt, IInv, TypeOK
  <2>3. CASE NotifyFailed(t)
    BY <1>2, <2>1, <2>3 DEF NotifyFailed, Notify, EndAttempt, IInv, TypeOK
  <2>4. CASE HandlerFails(t)
    BY <1>2, <2>1, <2>4 DEF HandlerFails, EndAttempt, Strike, IInv, TypeOK
  <2> QED BY <1>2, <2>2, <2>3, <2>4 DEF Ends
<1> QED BY <1>1, <1>2

\* How the content of a file changes.
LEMMA ContentFrame ==
  ASSUME IInv, [Next]_vars, NEW n \in Name
  PROVE  \/ files'[n] \in {files[n], "absent"}
         \/ \E t \in Thread : OpenFile(t) /\ attempt[t].filename = n /\ files'[n] = "partial"
         \/ \E t \in Thread : WriteFile(t) /\ attempt[t].filename = n /\ files'[n] = "whole"
         \/ files'[n] = "damaged" /\ "damage" \in struck'
<1> USE DEF IInv, TypeOK, tableVars, createVars, fileVars, deleteVars, readVars
<1>1. ASSUME NEW t \in Thread, CreateStep(t), ~OpenFile(t), ~WriteFile(t)
      PROVE  files'[n] \in {files[n], "absent"}
  BY <1>1 DEF CreateStep, Download, Checksum, InsertSuccess, SaveSuccess, NotifySuccess,
              AttemptFails, Cleanup, InsertFailed, SaveError, NotifyFailed, HandlerFails
<1>2. ASSUME NEW t \in Thread, OpenFile(t)
      PROVE  files'[n] = files[n] \/ (attempt[t].filename = n /\ files'[n] = "partial")
  BY <1>2 DEF OpenFile
<1>3. ASSUME NEW t \in Thread, WriteFile(t)
      PROVE  files'[n] = files[n] \/ (attempt[t].filename = n /\ files'[n] = "whole")
  BY <1>3 DEF WriteFile
<1>4. ASSUME NEW t \in Thread, DeleteStep(t)
      PROVE  files'[n] \in {files[n], "absent"}
  BY <1>4 DEF DeleteStep, CheckExists, Unlink, UnlinkFails, DeleteRow, DeleteRowFails
<1>5. ASSUME NEW t \in Thread, RetentionStep(t)
      PROVE  files' = files
  BY <1>5 DEF RetentionStep, SelectByCount, SkipConfig, EndRetention, PruneNext, PruneDone,
              SelectByAge, PurgeFailed, EnforceFails
<1>6. ASSUME NEW t \in Thread, ReadStep(t) \/ Crash(t) \/ WebRequest(t) \/ SchedulerJob(t)
      PROVE  files' = files
  BY <1>6 DEF ReadStep, FindFile, Verify, ReadFile, ReadRefused, Send, SendFails, Crash,
              WebRequest, SchedulerJob, StartBackup, StartDelete, StartRead, StartRetention
<1>7. ASSUME NEW m \in Name, Damage(m)
      PROVE  files'[n] = files[n] \/ (files'[n] = "damaged" /\ "damage" \in struck')
  BY <1>7 DEF Damage, Strike
<1>8. CASE UNCHANGED vars \/ \E c \in Config : SwitchActive(c)
  BY <1>8 DEF vars, SwitchActive
<1> QED BY <1>1, <1>2, <1>3, <1>4, <1>5, <1>6, <1>7, <1>8 DEF Next, Step, Thread

\* A file still being written belongs to no success.
LEMMA PartialStep ==
  ASSUME IInv, PartialIsUnrecorded, [Next]_vars
  PROVE  PartialIsUnrecorded'
<1> DEFINE Written == {"checksum", "insert_success", "save_success", "notify_success"}
<1> SUFFICES ASSUME NEW n \in Name
             PROVE  /\ files'[n] = "damaged" => "damage" \in struck'
                    /\ files'[n] = "partial" =>
                         /\ \A r \in Recorded' : r.filename # n
                         /\ \A t \in Thread : attempt'[t].filename = n => pc'[t] \notin Written
  BY DEF PartialIsUnrecorded
<1>1. files'[n] = "damaged" => "damage" \in struck'
  BY ContentFrame, StruckGrows DEF PartialIsUnrecorded
<1>2. ASSUME files'[n] = "partial"
      PROVE  \/ files[n] = "partial" /\ \A t \in Thread : ~(WriteFile(t) /\ attempt[t].filename = n)
             \/ \E t \in Thread : OpenFile(t) /\ attempt[t].filename = n
  <2>1. ASSUME NEW t \in Thread, WriteFile(t), attempt[t].filename = n
        PROVE  FALSE
    BY <1>2, <2>1 DEF WriteFile, IInv, TypeOK
  <2> QED BY <1>2, <2>1, ContentFrame
<1>3. ASSUME files'[n] = "partial", NEW r \in Recorded', r.filename = n
      PROVE  FALSE
  <2>1. r \in Known' /\ r.status = "success"
    BY DEF Recorded, Known
  <2>2. CASE r \in Known
    <3>1. r \in Recorded
      BY <2>1, <2>2 DEF Recorded, Known
    <3>2. \A t \in Thread : OpenFile(t) => attempt[t].filename # n
      BY <1>3, <2>2 DEF OpenFile, IInv, UnrecordedIsPrivate, TryBlock
    <3> QED BY <1>2, <1>3, <3>1, <3>2 DEF PartialIsUnrecorded
  <2>3. CASE r \notin Known
    <3>1. PICK t \in Thread : InsertSuccess(t) /\ attempt[t].filename = n /\ UNCHANGED files
      BY <1>3, <2>1, <2>3, NewRows
    <3> QED BY <1>3, <3>1 DEF InsertSuccess, PartialIsUnrecorded
  <2> QED BY <2>2, <2>3
<1>4. ASSUME files'[n] = "partial", NEW u \in Thread, attempt'[u].filename = n,
             pc'[u] \in Written
      PROVE  FALSE
  <2>1. CASE pc[u] \in Written /\ attempt[u].filename = n
    <3>1. \A t \in Thread : attempt[t].filename = n => t = u
      BY <2>1, OwnName DEF Creating, TryBlock
    <3>2. \A t \in Thread : OpenFile(t) => attempt[t].filename # n
      BY <2>1, <3>1 DEF OpenFile
    <3> QED BY <1>2, <1>4, <2>1, <3>2 DEF PartialIsUnrecorded
  <2>2. CASE CreateStep(u)
    <3>1. WriteFile(u) \/ (pc[u] \in Written /\ attempt'[u].filename = attempt[u].filename)
      BY <1>4, <2>2 DEF CreateStep, Download, OpenFile, Checksum, InsertSuccess, SaveSuccess,
           NotifySuccess, AttemptFails, Cleanup, InsertFailed, SaveError, NotifyFailed,
           HandlerFails, EndAttempt, Goto, createVars, IInv, TypeOK, Attempt
    <3>2. CASE WriteFile(u)
      BY <1>4, <3>2 DEF WriteFile, createVars, IInv, TypeOK
    <3> QED BY <1>4, <2>1, <3>1, <3>2
  <2> QED BY <1>4, <2>1, <2>2, ThreadStep DEF Creating, TryBlock
<1> QED BY <1>1, <1>3, <1>4

ReadLabel == {"find_file", "verify", "read", "send"}

\* How a thread comes to where a reader is.
LEMMA ReaderFrame ==
  ASSUME IInv, [Next]_vars, NEW u \in Thread, pc'[u] \in ReadLabel
  PROVE  \/ pc'[u] = pc[u] /\ reading'[u] = reading[u]
         \/ ReadStep(u)
         \/ \E r \in records, to \in Target : StartRead(u, r, to)
<1> USE DEF IInv, TypeOK, Goto, createVars, deleteVars, readVars, ReadLabel
<1>1. ASSUME NEW t \in Thread, CreateStep(t), UNCHANGED readVars
      PROVE  pc'[u] = pc[u] /\ reading'[u] = reading[u]
  BY <1>1 DEF CreateStep, Download, OpenFile, WriteFile, Checksum, InsertSuccess, SaveSuccess,
              NotifySuccess, AttemptFails, Cleanup, InsertFailed, SaveError, NotifyFailed,
              HandlerFails, EndAttempt
<1>2. ASSUME NEW t \in Thread, DeleteStep(t), UNCHANGED readVars
      PROVE  pc'[u] = pc[u] /\ reading'[u] = reading[u]
  BY <1>2 DEF DeleteStep, CheckExists, Unlink, UnlinkFails, DeleteRow, DeleteRowFails, EndDelete
<1>3. ASSUME NEW t \in Thread, RetentionStep(t), UNCHANGED readVars
      PROVE  pc'[u] = pc[u] /\ reading'[u] = reading[u]
  BY <1>3 DEF RetentionStep, SelectByCount, SkipConfig, EndRetention, PruneNext, PruneDone,
              SelectByAge, PurgeFailed, EnforceFails
<1>4. ASSUME NEW t \in Thread, ReadStep(t), t # u
      PROVE  pc'[u] = pc[u] /\ reading'[u] = reading[u]
  BY <1>4 DEF ReadStep, FindFile, Verify, ReadFile, ReadRefused, Send, SendFails, EndRead
<1>5. ASSUME NEW t \in Thread, Crash(t)
      PROVE  pc'[u] = pc[u] /\ reading'[u] = reading[u]
  BY <1>5 DEF Crash
<1>6. ASSUME NEW t \in Thread, (\E c \in Config : StartBackup(t, c)) \/ StartRetention(t)
                                 \/ (\E r \in records : StartDelete(t, r)), UNCHANGED readVars
      PROVE  pc'[u] = pc[u] /\ reading'[u] = reading[u]
  BY <1>6 DEF StartBackup, StartRetention, StartDelete
<1>7. ASSUME NEW t \in Thread, NEW r \in records, NEW to \in Target, StartRead(t, r, to), t # u
      PROVE  pc'[u] = pc[u] /\ reading'[u] = reading[u]
  BY <1>7 DEF StartRead
<1>8. ASSUME UNCHANGED vars \/ (\E n \in Name : Damage(n) /\ UNCHANGED readVars)
              \/ (\E c \in Config : SwitchActive(c) /\ UNCHANGED readVars)
      PROVE  pc'[u] = pc[u] /\ reading'[u] = reading[u]
  BY <1>8 DEF vars, Damage, SwitchActive
<1> QED
  BY <1>1, <1>2, <1>3, <1>4, <1>5, <1>6, <1>7, <1>8 DEF Next, Step, Thread, WebRequest, SchedulerJob

\* A reader moves on with the row it was given.
LEMMA ReadersStep ==
  ASSUME IInv, PartialIsUnrecorded, ReadersHoldRows, [Next]_vars
  PROVE  ReadersHoldRows'
<1> USE DEF ReadLabel
<1>0. Recorded \subseteq Recorded' /\ struck \subseteq struck'
  BY RecordedStays, StruckGrows
<1> SUFFICES ASSUME NEW u \in Thread, pc'[u] \in ReadLabel
             PROVE  LET d == reading'[u] IN
                    /\ d.rec.file_path = IF d.rec.status = "success" THEN d.rec.filename ELSE NoName
                    /\ d.rec.status = "success" => d.rec \in Recorded
                    /\ pc'[u] \in {"verify", "read", "send"} => d.rec.status = "success"
                    /\ pc'[u] = "send" => d.content = "whole" \/ "damage" \in struck
  BY <1>0 DEF ReadersHoldRows
<1>1. CASE pc'[u] = pc[u] /\ reading'[u] = reading[u]
  BY <1>1 DEF ReadersHoldRows
<1>2. ASSUME NEW r \in records, NEW to \in Target, StartRead(u, r, to)
      PROVE  /\ pc'[u] = "find_file" /\ reading'[u].rec = r
             /\ r.file_path = IF r.status = "success" THEN r.filename ELSE NoName
             /\ r.status = "success" => r \in Recorded
  BY <1>2 DEF StartRead, Goto, IInv, TypeOK, RowsNameTheirFile, Known, Recorded
<1>3. CASE FindFile(u)
  <2>1. /\ pc[u] = "find_file" /\ reading'[u] = reading[u] /\ pc'[u] \in {"verify", "read"}
        /\ OnDisk(reading[u].rec)
    BY <1>3 DEF FindFile, Goto, readVars, IInv, TypeOK
  <2> QED BY <2>1 DEF ReadersHoldRows, OnDisk
<1>4. CASE Verify(u)
  BY <1>4 DEF Verify, Goto, readVars, IInv, TypeOK, ReadersHoldRows
<1>5. CASE ReadFile(u)
  <2> DEFINE r == reading[u].rec
  <2>1. /\ pc[u] = "read" /\ pc'[u] = "send" /\ reading'[u].rec = r
        /\ reading'[u].content = files[r.file_path] /\ OnDisk(r)
    BY <1>5 DEF ReadFile, Goto, IInv, TypeOK
  <2>2. /\ r.status = "success" /\ r \in Recorded /\ r.file_path = r.filename
    BY <2>1 DEF ReadersHoldRows
  <2>3. r.filename \in Name /\ files[r.filename] \in {"partial", "whole", "damaged"}
    <3>1. r.filename \in Name
      BY <2>1, <2>2 DEF OnDisk, IInv, TypeOK, Reading, BackupRecord
    <3> QED BY <2>1, <2>2, <3>1 DEF OnDisk, IInv, TypeOK, Content
  <2>4. files[r.filename] = "whole" \/ "damage" \in struck
    BY <2>2, <2>3 DEF PartialIsUnrecorded
  <2> QED BY <2>1, <2>2, <2>4
<1>6. ASSUME ReadRefused(u) \/ Send(u) \/ SendFails(u)
      PROVE  FALSE
  BY <1>6 DEF ReadRefused, Send, SendFails, EndRead, Goto, IInv, TypeOK
<1> QED BY <1>1, <1>2, <1>3, <1>4, <1>5, <1>6, ReaderFrame DEF ReadStep

\* A reader delivers what it read.
LEMMA DeliveredStep ==
  ASSUME IInv, ReadersHoldRows, DeliveredIsComplete, [Next]_vars
  PROVE  DeliveredIsComplete'
<1> USE DEF createVars, deleteVars, readVars
<1>0. struck \subseteq struck'
  BY StruckGrows
<1>1. ASSUME NEW t \in Thread, ReadStep(t), ~Send(t), ~SendFails(t)
      PROVE  delivered' = delivered
  BY <1>1 DEF ReadStep, FindFile, Verify, ReadFile, ReadRefused
<1>2. ASSUME NEW t \in Thread, WebRequest(t) \/ SchedulerJob(t) \/ Crash(t)
      PROVE  delivered' = delivered
  BY <1>2 DEF WebRequest, SchedulerJob, StartRead, Crash
<1>3. ASSUME NEW t \in Thread, Send(t) \/ SendFails(t)
      PROVE  pc[t] = "send" /\ delivered' \subseteq delivered \cup {reading[t]}
  BY <1>3 DEF Send, SendFails, Deliver
<1>4. CASE delivered' = delivered
  BY <1>0, <1>4 DEF DeliveredIsComplete
<1>5. CASE \E t \in Thread : Send(t) \/ SendFails(t)
  BY <1>0, <1>3, <1>5 DEF DeliveredIsComplete, ReadersHoldRows
<1> QED BY <1>1, <1>2, <1>4, <1>5 DEF Next, Step, Thread, vars

\* A row is condemned by its number by the query that counts.
LEMMA CountedNow ==
  ASSUME IInv, [Next]_vars, NEW d \in doomed', d \notin doomed, d.why = "count"
  PROVE  /\ d.rec \in Recorded
         /\ \E c \in Config : d.rec \in Excess(c)
<1> USE DEF createVars, deleteVars, readVars
<1>1. ASSUME NEW t \in Thread, CreateStep(t)
      PROVE  FALSE
  BY <1>1 DEF CreateStep, Download, OpenFile, WriteFile, Checksum, InsertSuccess, SaveSuccess,
              NotifySuccess, AttemptFails, Cleanup, InsertFailed, SaveError, NotifyFailed,
              HandlerFails
<1>2. ASSUME NEW t \in Thread, DeleteStep(t) \/ ReadStep(t) \/ Crash(t)
      PROVE  FALSE
  BY <1>2 DEF DeleteStep, CheckExists, Unlink, UnlinkFails, DeleteRow, DeleteRowFails, Crash,
              ReadStep, FindFile, Verify, ReadFile, ReadRefused, Send, SendFails
<1>3. ASSUME NEW t \in Thread, RetentionStep(t)
      PROVE  \E c \in Config : d.rec \in Excess(c)
  <2>1. ASSUME NEW c \in Config, SelectByCount(t, c)
        PROVE  d.rec \in Excess(c)
    BY <2>1 DEF SelectByCount, Select
  <2>2. ASSUME SelectByAge(t)
        PROVE  FALSE
    BY <2>2 DEF SelectByAge, Select
  <2>3. ASSUME EndRetention(t) \/ PruneNext(t) \/ PruneDone(t) \/ PurgeFailed(t)
                 \/ EnforceFails(t) \/ \E c \in Config : SkipConfig(t, c)
        PROVE  FALSE
    BY <2>3 DEF SkipConfig, EndRetention, PruneNext, PruneDone, PurgeFailed, EnforceFails
  <2> QED BY <1>3, <2>1, <2>2, <2>3 DEF RetentionStep
<1>4. ASSUME NEW t \in Thread, WebRequest(t) \/ SchedulerJob(t)
      PROVE  FALSE
  BY <1>4 DEF WebRequest, SchedulerJob, StartBackup, StartDelete, StartRead, StartRetention
<1>5. ASSUME UNCHANGED vars \/ (\E n \in Name : Damage(n))
              \/ (\E c \in Config : SwitchActive(c))
      PROVE  FALSE
  BY <1>5 DEF vars, Damage, SwitchActive
<1>6. \E c \in Config : d.rec \in Excess(c)
  BY <1>1, <1>2, <1>3, <1>4, <1>5 DEF Next, Step, Thread
<1> QED BY <1>6 DEF Excess, Succeeded, Recorded

\* The number of newer backups on record does not fall.
LEMMA CountedStep ==
  ASSUME IInv, CountedHaveNewer, [Next]_vars
  PROVE  CountedHaveNewer'
<1>1. IsFiniteSet(Known')
  <2>1. CASE Known' \subseteq Known
    BY <2>1, FS_Subset DEF CountedHaveNewer
  <2>2. ASSUME NEW r, Known' = Known \cup {r}
        PROVE  IsFiniteSet(Known')
    BY <2>2, FS_AddElement DEF CountedHaveNewer
  <2> QED BY <2>1, <2>2, OneNewRow
<1>2. Recorded \subseteq Known /\ Recorded' \subseteq Known' /\ Recorded \subseteq Recorded'
  BY RecordedStays DEF Recorded, Known
<1>3. ASSUME NEW r, NEW S, S \subseteq Recorded, Cardinality(NewerThan(r, S)) >= MaxBackups
      PROVE  Cardinality(NewerThan(r, Recorded')) >= MaxBackups
  <2>1. NewerThan(r, S) \subseteq NewerThan(r, Recorded')
    BY <1>2, <1>3 DEF NewerThan
  <2>2. IsFiniteSet(NewerThan(r, Recorded'))
    BY <1>1, <1>2, FS_Subset DEF NewerThan
  <2>3. IsFiniteSet(NewerThan(r, S))
    BY <2>1, <2>2, FS_Subset
  <2>4. Cardinality(NewerThan(r, S)) <= Cardinality(NewerThan(r, Recorded'))
    BY <2>1, <2>2, FS_Subset
  <2>5. Cardinality(NewerThan(r, S)) \in Nat /\ Cardinality(NewerThan(r, Recorded')) \in Nat
    BY <2>2, <2>3, FS_CardinalityType
  <2> QED BY <1>3, <2>4, <2>5, StoreAssumption
<1>4. ASSUME NEW d \in doomed', d.why = "count"
      PROVE  Cardinality(NewerThan(d.rec, Recorded')) >= MaxBackups
  <2>1. CASE d \in doomed
    BY <1>3, <1>4, <2>1 DEF CountedHaveNewer
  <2>2. CASE d \notin doomed
    <3> PICK c \in Config : d.rec \in Excess(c)
      BY <1>4, <2>2, CountedNow
    <3>1. Succeeded(c) \subseteq Recorded
      BY DEF Succeeded, Recorded
    <3>2. Cardinality(NewerThan(d.rec, Succeeded(c))) >= MaxBackups
      BY DEF Excess
    <3> QED BY <1>3, <3>1, <3>2
  <2> QED BY <2>1, <2>2
<1> QED BY <1>1, <1>4 DEF CountedHaveNewer, NewerThan

\* The initial state satisfies the invariant.
LEMMA RowInit ==
  ASSUME Init
  PROVE  RowInv
<1> USE DEF Init, StoreInit, ServiceInit, RetentionInit, RestoreInit, Known, Recorded
<1>1. HandlerInsertsFirst /\ OneRowPerAttempt /\ ReadersHoldRows /\ DeliveredIsComplete
  BY DEF HandlerInsertsFirst, OneRowPerAttempt, ReadersHoldRows, DeliveredIsComplete
<1>2. FilesHaveOwners /\ OutcomesAreOpen /\ NoticeMatchesOutcome /\ PartialIsUnrecorded
  BY DEF FilesHaveOwners, OrphansExplained, OutcomesAreOpen, NoticeMatchesOutcome,
         PartialIsUnrecorded, Name
<1>3. CountedHaveNewer
  <2>1. Known = {}
    OBVIOUS
  <2> QED BY <2>1, FS_EmptySet DEF CountedHaveNewer
<1> QED BY <1>1, <1>2, <1>3 DEF RowInv

\* The invariant of rows, files, outcomes and readers holds throughout.
THEOREM RowInvariance == Spec => []RowInv
<1>1. ASSUME IInv, RowInv, [Next]_vars
      PROVE  RowInv'
  BY <1>1, HandlerStep, OneRowStep, OwnersStep, OpenStep, NoticeStep, PartialStep, ReadersStep,
     DeliveredStep, CountedStep DEF RowInv
<1> QED BY <1>1, RowInit, Invariance, PTL DEF Spec

\* An attempt leaves one row, a success or a failure, whoever else inserts and
\* deletes rows meanwhile, unless the save of the configuration fails in between.
THEOREM OneRowForAnAttempt == Spec => []OneRowPerAttempt
<1>1. RowInv => OneRowPerAttempt
  BY DEF RowInv
<1> QED BY <1>1, RowInvariance, PTL

\* A file that no row names belongs to an attempt under way, or a crash or a failed
\* cleanup left it: no order of deletions and failures makes another one.
THEOREM OrphansAreExplained == Spec => []OrphansExplained
<1>1. RowInv => OrphansExplained
  BY DEF RowInv, FilesHaveOwners
<1> QED BY <1>1, RowInvariance, PTL

\* The notification of an attempt is the one of the outcome its caller saw.
THEOREM NoticesMatch == Spec => []NoticeMatchesOutcome
<1>1. RowInv => NoticeMatchesOutcome
  BY DEF RowInv
<1> QED BY <1>1, RowInvariance, PTL

\* What a Pi-hole imports or a browser receives is a complete backup of a recorded
\* success, whatever is written and deleted while it is read, unless bytes rotted.
THEOREM CompleteDelivery == Spec => []DeliveredIsComplete
<1>1. RowInv => DeliveredIsComplete
  BY DEF RowInv
<1> QED BY <1>1, RowInvariance, PTL

\* However stale the query of the retention loop becomes, the newest max_backups
\* backups survive it.
THEOREM NewestSurvive == Spec => []NewestAreKept
<1>1. IInv /\ RowInv => NewestAreKept
  <2> SUFFICES ASSUME IInv, RowInv, NEW r \in Recorded
               PROVE  \/ Cardinality(NewerThan(r, Recorded)) >= MaxBackups
                      \/ \E d \in doomed : d.rec = r /\ d.why # "count"
                      \/ r \in records /\ (OnDisk(r) \/ "save_success" \in struck)
    BY DEF NewestAreKept
  <2>1. CASE IsDoomed(r)
    BY <2>1 DEF IsDoomed, RowInv, CountedHaveNewer
  <2>2. CASE ~IsDoomed(r)
    BY <2>2 DEF IsDoomed, Recorded, IInv, NoSilentLoss
  <2> QED BY <2>1, <2>2
<1> QED BY <1>1, Invariance, RowInvariance, PTL
=============================================================================
