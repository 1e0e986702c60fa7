-------------------------- MODULE DiscoveryService --------------------------
(***************************************************************************)
(* services/discovery_service.py, run by discover_instances whenever the   *)
(* container starts, or by hand beside the web server: one pass marks the  *)
(* configurations whose variables are gone, one creates, reactivates or    *)
(* updates the others, and one checks the connections.  Each save is a     *)
(* step of its own; the command may die after any of them, an operator may *)
(* use the admin meanwhile, and backups go on.                             *)
(***************************************************************************)
EXTENDS Integers

CONSTANTS
  Prefix,     \* the PREFIXes of PIHOLE_{PREFIX}_URL
  MaxRuns,    \* bound on the runs of the command
  MaxEdits,   \* bound on the forms an operator opens in the admin
  MaxCrashes  \* bound on the runs that die

ASSUME DiscoveryAssumption ==
  /\ MaxRuns \in Nat
  /\ MaxEdits \in Nat
  /\ MaxCrashes \in Nat

VARIABLES
  env,        \* what the variables of the current process say of each prefix
  force,      \* the --force option
  row,        \* the PiholeConfig of each prefix
  pc,         \* the statement the command executes next
  left,       \* the rows or prefixes its loop has not reached
  cur,        \* the prefix it is working on
  read,       \* the rows as the loop has read them
  form,       \* the rows as the admin has shown them
  runs, edits, crashes,
  ended,      \* history: a run came to its end and no form was saved since
  touched,    \* history: a form was saved while a run was under way
  fell,       \* history: the rows that went from ok to unreachable in this run
  notices     \* history: the CONNECTION_LOST events of this run

runVars == <<env, force, runs, crashes, ended>>
adminVars == <<form, edits, touched>>
historyVars == <<fell, notices>>
vars == <<runVars, row, pc, left, cur, read, adminVars, historyVars>>

\* The URL is missing; a value does not pass full_clean; there is no password.
EnvKind == {"unset", "invalid", "no_password", "set"}

Status == {"unknown", "ok", "auth_error", "unreachable", "not_configured", "removed"}

\* backed_up: last_successful_backup has the time of the newest backup.  author is
\* history: who decided what is_active says.
Row == [exists : BOOLEAN, is_active : BOOLEAN, connection_status : Status,
        backed_up : BOOLEAN, author : {"discovery", "operator"}]

NoRow == [exists |-> FALSE, is_active |-> FALSE, connection_status |-> "unknown",
          backed_up |-> FALSE, author |-> "discovery"]

\* The defaults of the model.
NewRow == [exists |-> TRUE, is_active |-> TRUE, connection_status |-> "unknown",
           backed_up |-> FALSE, author |-> "discovery"]

Prefixes == {p \in Prefix : env[p] # "unset"}

Existing == {p \in Prefix : row[p].exists}

Init ==
  /\ env = [p \in Prefix |-> "unset"]
  /\ force = FALSE
  /\ row = [p \in Prefix |-> NoRow]
  /\ pc = "idle"
  /\ left = {}
  /\ cur \in Prefix
  /\ read = row
  /\ form = row
  /\ runs = 0 /\ edits = 0 /\ crashes = 0
  /\ ended = FALSE
  /\ touched = FALSE
  /\ fell = {} /\ notices = {}

-----------------------------------------------------------------------------
(* discover_instances_from_env.                                            *)

\* The container starts with the environment the operator gave it.
StartRun ==
  /\ pc = "idle"
  /\ runs < MaxRuns
  /\ runs' = runs + 1
  /\ env' \in [Prefix -> EnvKind]
  /\ force' \in BOOLEAN
  /\ pc' = "mark"
  /\ left' = Existing
  /\ read' = row
  /\ ended' = FALSE
  /\ fell' = {} /\ notices' = {}
  /\ UNCHANGED <<row, cur, form, edits, crashes, touched>>

\* One save of the two fields and the error text.
Deactivated(r) ==
  [r EXCEPT !.is_active = FALSE, !.connection_status = "removed",
            !.author = IF r.is_active THEN "discovery" ELSE @]

Reactivated(r) ==
  [r EXCEPT !.is_active = TRUE, !.connection_status = "unknown",
            !.author = "discovery"]

\* Mutant: save() without update_fields.
MarkAndSaveAll(p) ==
  /\ pc = "mark"
  /\ p \in left
  /\ row[p].exists
  /\ left' = left \ {p}
  /\ IF p \notin Prefixes /\ read[p].connection_status # "removed"
       THEN row' = [row EXCEPT ![p] = Deactivated(read[p])]
       ELSE UNCHANGED row
  /\ UNCHANGED <<runVars, pc, cur, read, adminVars, historyVars>>

Mark(p) ==
  /\ pc = "mark"
  /\ p \in left
  /\ left' = left \ {p}
  /\ IF p \notin Prefixes /\ read[p].connection_status # "removed"
       THEN row[p].exists /\ row' = [row EXCEPT ![p] = Deactivated(@)]
       ELSE UNCHANGED row
  /\ UNCHANGED <<runVars, pc, cur, read, adminVars, historyVars>>

MarkDone ==
  /\ pc = "mark"
  /\ left = {}
  /\ pc' = "find"
  /\ left' = Prefixes
  /\ UNCHANGED <<runVars, row, cur, read, adminVars, historyVars>>

Find(p) ==
  /\ pc = "find"
  /\ p \in left
  /\ left' = left \ {p}
  /\ cur' = p
  /\ read' = [read EXCEPT ![p] = row[p]]
  /\ pc' = IF row[p].connection_status = "removed" THEN "reactivate" ELSE "apply"
  /\ UNCHANGED <<runVars, row, adminVars, historyVars>>

\* Mutant: the status is saved before is_active, in a save of its own.
ReactivateInTwoSaves ==
  /\ pc = "reactivate"
  /\ IF row[cur].connection_status = "removed"
       THEN /\ row' = [row EXCEPT ![cur].connection_status = "unknown"]
            /\ UNCHANGED <<pc, read>>
       ELSE /\ row' = [row EXCEPT ![cur] = Reactivated(@)]
            /\ read' = [read EXCEPT ![cur] = Reactivated(@)]
            /\ pc' = "apply"
  /\ UNCHANGED <<runVars, left, cur, adminVars, historyVars>>

Reactivate ==
  /\ pc = "reactivate"
  /\ row[cur].exists
  /\ row' = [row EXCEPT ![cur] = Reactivated(@)]
  /\ read' = [read EXCEPT ![cur] = Reactivated(@)]
  /\ pc' = "apply"
  /\ UNCHANGED <<runVars, left, cur, adminVars, historyVars>>

Skip ==
  /\ pc = "apply"
  /\ \/ read[cur].exists /\ ~force
     \/ env[cur] = "invalid"
  /\ pc' = "find"
  /\ UNCHANGED <<runVars, row, left, cur, read, adminVars, historyVars>>

\* save() of an updated row writes every field, as it was read.
Apply ==
  /\ pc = "apply"
  /\ env[cur] # "invalid"
  /\ read[cur].exists => force
  /\ row' = [row EXCEPT ![cur] = IF read[cur].exists THEN read[cur] ELSE NewRow]
  /\ pc' = "find"
  /\ UNCHANGED <<runVars, left, cur, read, adminVars, historyVars>>

-----------------------------------------------------------------------------
(* check_connections.                                                      *)

StartCheck ==
  /\ pc = "find"
  /\ left = {}
  /\ pc' = "check"
  /\ left' = Existing
  /\ read' = row
  /\ UNCHANGED <<runVars, row, cur, adminVars, historyVars>>

Answer == {"ok", "bad_password", "http_error", "none"}

\* Mutant: a failed connection is saved with a status the model has no choice for.
StatusOfError(answer) ==
  CASE answer = "ok" -> "ok"
    [] answer = "bad_password" -> "auth_error"
    [] OTHER -> "error"

\* requests' HTTPError is an OSError, and the handler of OSError comes first.
StatusOf(answer) ==
  CASE answer = "ok" -> "ok"
    [] answer = "bad_password" -> "auth_error"
    [] OTHER -> "unreachable"

SaveStatus(p, status) ==
  /\ row[p].exists
  /\ row' = [row EXCEPT ![p].connection_status = status]
  /\ fell' = IF row[p].connection_status = "ok" /\ status = "unreachable"
             THEN fell \cup {p} ELSE fell

PassOverRemoved(p) ==
  /\ pc = "check"
  /\ p \in left
  /\ read[p].connection_status = "removed"
  /\ left' = left \ {p}
  /\ UNCHANGED <<runVars, row, pc, cur, read, adminVars, historyVars>>

NotConfigured(p) ==
  /\ pc = "check"
  /\ p \in left
  /\ read[p].connection_status # "removed"
  /\ env[p] \in {"unset", "no_password"}
  /\ left' = left \ {p}
  /\ SaveStatus(p, "not_configured")
  /\ UNCHANGED <<runVars, pc, cur, read, adminVars, notices>>

\* Mutant: the status before the check is read after it was assigned.
CheckAfterAssignment(p, answer) ==
  /\ pc = "check"
  /\ p \in left
  /\ read[p].connection_status # "removed"
  /\ env[p] \notin {"unset", "no_password"}
  /\ left' = left \ {p}
  /\ cur' = p
  /\ SaveStatus(p, StatusOf(answer))
  /\ UNCHANGED <<runVars, pc, read, adminVars, notices>>

\* An invalid value of another variable does not keep a client from connecting.
Check(p, answer) ==
  /\ pc = "check"
  /\ p \in left
  /\ read[p].connection_status # "removed"
  /\ env[p] \notin {"unset", "no_password"}
  /\ left' = left \ {p}
  /\ cur' = p
  /\ SaveStatus(p, StatusOf(answer))
  /\ pc' = IF read[p].connection_status = "ok" /\ StatusOf(answer) = "unreachable"
           THEN "announce" ELSE "check"
  /\ UNCHANGED <<runVars, read, adminVars, notices>>

Announce ==
  /\ pc = "announce"
  /\ notices' = notices \cup {cur}
  /\ pc' = "check"
  /\ UNCHANGED <<runVars, row, left, cur, read, adminVars, fell>>

\* A save with update_fields of a row that an operator has deleted raises, and nothing
\* catches it: the run ends there.
SaveFails(p) ==
  /\ ~row[p].exists
  /\ \/ pc = "mark" /\ p \in left \ Prefixes
     \/ pc = "reactivate" /\ p = cur
     \/ pc = "check" /\ p \in left
  /\ pc = "reactivate" \/ read[p].connection_status # "removed"
  /\ pc' = "idle"
  /\ UNCHANGED <<runVars, row, left, cur, read, adminVars, historyVars>>

\* The end of the command, or of its first half when it was called with --skip-check.
EndRun ==
  /\ pc \in {"find", "check"}
  /\ left = {}
  /\ pc' = "idle"
  /\ ended' = TRUE
  /\ UNCHANGED <<env, force, runs, crashes, row, left, cur, read, adminVars, historyVars>>

-----------------------------------------------------------------------------

\* The container stops.
Crash ==
  /\ pc # "idle"
  /\ crashes < MaxCrashes
  /\ crashes' = crashes + 1
  /\ pc' = "idle"
  /\ UNCHANGED <<env, force, runs, ended, row, left, cur, read, adminVars, historyVars>>

\* The admin shows a row.
OpenForm(p) ==
  /\ row[p].exists
  /\ edits < MaxEdits
  /\ edits' = edits + 1
  /\ form' = [form EXCEPT ![p] = row[p]]
  /\ UNCHANGED <<runVars, row, pc, left, cur, read, touched, historyVars>>

\* A row an operator has written.
Written(p, r) ==
  /\ row' = [row EXCEPT ![p] = r]
  /\ form' = [form EXCEPT ![p] = NoRow]
  /\ ended' = FALSE
  /\ touched' = (touched \/ pc # "idle")
  /\ UNCHANGED <<env, force, runs, crashes, pc, left, cur, read, historyVars>>

\* What is saved is what was shown, connection_status included, except the fields that
\* are read-only; the operator may have changed is_active.
SaveForm(p) ==
  /\ form[p].exists
  /\ LET shown == [form[p] EXCEPT !.backed_up = row[p].backed_up] IN
       \/ Written(p, shown)
       \/ Written(p, [shown EXCEPT !.is_active = ~@, !.author = "operator"])
  /\ UNCHANGED edits

DeleteRow(p) ==
  /\ row[p].exists
  /\ edits < MaxEdits
  /\ edits' = edits + 1
  /\ Written(p, NoRow)

Admin == \E p \in Prefix : OpenForm(p) \/ SaveForm(p) \/ DeleteRow(p)

\* create_backup saves two fields of the row and no others.
Backup(p) ==
  /\ row[p].exists
  /\ row' = [row EXCEPT ![p].backed_up = TRUE]
  /\ UNCHANGED <<runVars, pc, left, cur, read, adminVars, historyVars>>

Next ==
  \/ StartRun \/ MarkDone \/ Reactivate \/ Skip \/ Apply
  \/ StartCheck \/ Announce \/ EndRun \/ Crash \/ Admin
  \/ \E p \in Prefix :
       \/ Mark(p) \/ Find(p) \/ PassOverRemoved(p) \/ NotConfigured(p)
       \/ SaveFails(p) \/ Backup(p)
       \/ \E answer \in Answer : Check(p, answer)

Spec == Init /\ [][Next]_vars

-----------------------------------------------------------------------------
\* Each variable holds values of its kind.
TypeOK ==
  /\ env \in [Prefix -> EnvKind]
  /\ force \in BOOLEAN
  /\ row \in [Prefix -> Row]
  /\ pc \in {"idle", "mark", "find", "reactivate", "apply", "check", "announce"}
  /\ left \subseteq Prefix
  /\ cur \in Prefix
  /\ read \in [Prefix -> Row]
  /\ form \in [Prefix -> Row]
  /\ runs \in 0 .. MaxRuns /\ edits \in 0 .. MaxEdits /\ crashes \in 0 .. MaxCrashes
  /\ ended \in BOOLEAN /\ touched \in BOOLEAN
  /\ fell \subseteq Prefix /\ notices \subseteq Prefix

\* ADR-0019, finding 1.  A run that comes to its end repairs whatever an earlier
\* one, or a form saved between two of them, left: a valid prefix of the environment
\* has a row that is not removed, a row without a prefix is removed, and each is
\* active accordingly, unless an operator decided otherwise since the prefix was last
\* removed: its return overrules an earlier decision (see ReactivationSparesOthers).  A
\* form saved while a run is under way is the exception: it can undo a reactivation and
\* lose "removed" to the check of the connections, and such a row stays inactive for ever.
RunReconciles ==
  ended /\ ~touched =>
    \A p \in Prefix :
      /\ env[p] \in {"set", "no_password"} => row[p].exists
      /\ row[p].exists =>
           /\ row[p].connection_status = "removed" <=> env[p] = "unset"
           /\ row[p].is_active = (env[p] # "unset") \/ row[p].author = "operator"

\* A run that comes to its end has announced the connections it found lost, and no
\* others, whatever died before.  (A loss saved by a run that dies before it is
\* announced is never announced: the next run finds it unreachable already.)
LossIsAnnounced ==
  ended /\ ~touched => notices = fell

\* The time of the last backup is never lost to the discovery, whatever it had read
\* before that backup ended; only --force, which writes a whole row it read, can lose
\* it, and only a backup that ended between that read and that save.
BackupTimeIsKept ==
  [][\A p \in Prefix :
       row[p].backed_up /\ row'[p].exists /\ ~row'[p].backed_up =>
         force /\ pc = "apply" /\ cur = p]_vars

\* discovery_service.py:128 "Removal is the only path that sets is_active=False [...] so
\* this restores scheduled backups without clobbering instances that are inactive for
\* other reasons": a row that an operator deactivated is not activated again.  (A form
\* saved while a run is under way is left out.)
ReactivationSparesOthers ==
  [][\A p \in Prefix :
       /\ pc = "reactivate" /\ ~touched
       /\ ~row[p].is_active /\ row[p].author = "operator"
       => ~row'[p].is_active \/ row'[p].author = "operator"]_vars
=============================================================================
