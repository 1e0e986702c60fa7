--------------------------- MODULE RestoreService ---------------------------
(***************************************************************************)
(* The two readers of a stored backup: services/restore_service.py, which  *)
(* verifies the file and imports it into the Pi-hole, and the download     *)
(* view, which streams it to the browser.                                  *)
(***************************************************************************)
EXTENDS BackupService

VARIABLES
  reading,    \* the locals of a thread's restore_backup or download_backup
  delivered   \* history: what Pi-holes imported and browsers received

readVars == <<reading, delivered>>

Target == {"pihole", "browser"}

Reading == [rec : BackupRecord, to : Target, content : Content]

NoReading == [rec |-> NoRecord, to |-> "browser", content |-> "absent"]

RestoreInit ==
  /\ reading = [t \in Thread |-> NoReading]
  /\ delivered = {}

StartRead(t, r, to) ==
  /\ (IF to = "pihole" THEN "restore" ELSE "download") \in Requests
  /\ Idle(t)
  /\ reading' = [reading EXCEPT ![t] = [rec |-> r, to |-> to, content |-> "absent"]]
  /\ Goto(t, "find_file")
  /\ NoFault
  /\ UNCHANGED delivered
  /\ UNCHANGED <<tableVars, fileVars, createVars, deleteVars, doomed>>

\* Every way out of a restore sends a notification; a download sends none.
EndRead(t, event) ==
  /\ IF reading[t].to = "pihole" THEN Notify(reading[t].rec.filename, event)
                                 ELSE UNCHANGED notices
  /\ reading' = [reading EXCEPT ![t] = NoReading]
  /\ Goto(t, "idle")

FindFile(t) ==
  /\ pc[t] = "find_file"
  /\ OnDisk(reading[t].rec)
  /\ Goto(t, IF reading[t].to = "pihole" THEN "verify" ELSE "read")
  /\ NoFault
  /\ UNCHANGED <<tableVars, fileVars, createVars, deleteVars, readVars, doomed>>

\* calculate_checksum reads the file; a blank checksum is refused before.
Verified(r) ==
  /\ r.checksum # "absent"
  /\ OnDisk(r)
  /\ files[r.file_path] = r.checksum

Verify(t) ==
  /\ pc[t] = "verify"
  /\ Verified(reading[t].rec)
  /\ Goto(t, "read")
  /\ NoFault
  /\ UNCHANGED <<tableVars, fileVars, createVars, deleteVars, readVars, doomed>>

\* The file is opened again.  Once it is open, unlinking its name no longer
\* matters to the reader.
ReadFile(t) ==
  /\ pc[t] = "read"
  /\ OnDisk(reading[t].rec)
  /\ reading' = [reading EXCEPT ![t].content = files[reading[t].rec.file_path]]
  /\ Goto(t, "send")
  /\ NoFault
  /\ UNCHANGED delivered
  /\ UNCHANGED <<tableVars, fileVars, createVars, deleteVars, doomed>>

\* The file is missing or is not the one the record describes.
ReadRefused(t) ==
  /\ \/ pc[t] \in {"find_file", "read"} /\ ~OnDisk(reading[t].rec)
     \/ pc[t] = "verify" /\ ~Verified(reading[t].rec)
  /\ EndRead(t, "restore_failed")
  /\ NoFault
  /\ UNCHANGED <<attempt, lastName, outcome, delivered, doomed>>
  /\ UNCHANGED <<tableVars, fileVars, deleteVars>>

Deliver(t) == delivered' = delivered \cup {reading[t]}

Send(t) ==
  /\ pc[t] = "send"
  /\ Deliver(t)
  /\ EndRead(t, "restore_success")
  /\ NoFault
  /\ UNCHANGED <<attempt, lastName, outcome, doomed>>
  /\ UNCHANGED <<tableVars, fileVars, deleteVars>>

\* The upload raises; the Pi-hole may have imported the file all the same.
SendFails(t) ==
  /\ pc[t] = "send"
  /\ reading[t].to = "pihole"
  /\ Strike("send")
  /\ Deliver(t) \/ UNCHANGED delivered
  /\ EndRead(t, "restore_failed")
  /\ UNCHANGED <<attempt, lastName, outcome, doomed>>
  /\ UNCHANGED <<tableVars, fileVars, deleteVars>>

ReadStep(t) ==
  \/ FindFile(t) \/ Verify(t) \/ ReadFile(t) \/ ReadRefused(t)
  \/ Send(t) \/ SendFails(t)
=============================================================================
