----------------------- MODULE DiscoveryService_proofs -----------------------
(***************************************************************************)
(* Theorems about DiscoveryService: its types, that the time of a backup   *)
(* is kept, and that a run nobody disturbs reconciles the rows and         *)
(* announces the losses it found, whatever the runs before it left behind. *)
(***************************************************************************)
EXTENDS DiscoveryService, TLAPS

(***************************************************************************)
(* Rows are made by Apply only and go by the admin only.                   *)
(***************************************************************************)
RowsAreKnown ==
  /\ \A p \in Prefix : ~row[p].exists => row[p] = NoRow /\ ~form[p].exists
  /\ pc = "reactivate" => read[cur].exists
  /\ pc = "apply" /\ ~read[cur].exists => ~row[cur].exists
  /\ ended => pc = "idle"

(***************************************************************************)
(* As long as no form was saved during a run.  What discovery decided of a *)
(* row agrees with its status, so that a later run can tell from "removed" *)
(* alone whether it has to reactivate.                                     *)
(***************************************************************************)
Coherent(r) ==
  r.exists /\ r.author = "discovery" =>
    (r.is_active <=> r.connection_status # "removed")

DecisionsCohere == \A p \in Prefix : Coherent(row[p]) /\ Coherent(form[p])

(***************************************************************************)
(* What the loop has read differs from the row in the time of a backup     *)
(* only.                                                                   *)
(***************************************************************************)
Same(r, s) ==
  /\ r.exists = s.exists
  /\ r.is_active = s.is_active
  /\ r.connection_status = s.connection_status
  /\ r.author = s.author

ReadIsCurrent ==
  /\ pc \in {"find", "reactivate", "apply"} => left \subseteq Prefixes
  /\ pc \in {"mark", "check", "announce"} => \A p \in left : Same(read[p], row[p])
  /\ pc \in {"reactivate", "apply"} =>
       /\ Same(read[cur], row[cur])
       /\ cur \in Prefixes
       /\ pc = "reactivate" <=> read[cur].connection_status = "removed"

(***************************************************************************)
(* The prefixes the run has yet to come to, and what it left of the others.*)
(***************************************************************************)
Outstanding ==
  IF pc = "idle" THEN IF ended THEN {} ELSE Prefix
  ELSE IF pc = "mark" THEN left \cup Prefixes
  ELSE IF pc = "find" THEN left
  ELSE IF pc \in {"reactivate", "apply"} THEN left \cup {cur}
  ELSE {}

Settled(p) ==
  IF env[p] = "unset"
    THEN row[p].exists => row[p].connection_status = "removed"
    ELSE /\ env[p] # "invalid" => row[p].exists
         /\ row[p].exists => row[p].connection_status # "removed"

WorkIsDone == \A p \in Prefix \ Outstanding : Settled(p)

LossesAreTold ==
  pc # "idle" \/ ended =>
    fell = notices \cup (IF pc = "announce" THEN {cur} ELSE {})

Undisturbed == DecisionsCohere /\ ReadIsCurrent /\ WorkIsDone /\ LossesAreTold

DInv == TypeOK /\ RowsAreKnown /\ (~touched => Undisturbed)

-----------------------------------------------------------------------------
(* Types.                                                                  *)

\* What is written to a row is a row.
LEMMA RowsAreRows ==
  /\ NoRow \in Row
  /\ NewRow \in Row
  /\ \A r \in Row : Deactivated(r) \in Row /\ Reactivated(r) \in Row
  /\ \A r \in Row, s \in Status : [r EXCEPT !.connection_status = s] \in Row
  /\ \A r \in Row, b \in BOOLEAN : [r EXCEPT !.backed_up = b] \in Row
  /\ \A r \in Row : [r EXCEPT !.is_active = ~@, !.author = "operator"] \in Row
  BY DEF NoRow, NewRow, Deactivated, Reactivated, Row, Status

\* A check ends in a status the model has.
LEMMA AnswersHaveAStatus ==
  \A answer \in Answer : StatusOf(answer) \in Status \ {"removed"}
  BY DEF StatusOf, Answer, Status

LEMMA TypeInit ==
  ASSUME Init
  PROVE  TypeOK
  <1>1. row \in [Prefix -> Row] /\ read \in [Prefix -> Row] /\ form \in [Prefix -> Row]
    BY RowsAreRows DEF Init
  <1>2. env \in [Prefix -> EnvKind]
    BY DEF Init, EnvKind
  <1>3. runs \in 0 .. MaxRuns /\ edits \in 0 .. MaxEdits /\ crashes \in 0 .. MaxCrashes
    BY DiscoveryAssumption DEF Init
  <1> QED
    BY <1>1, <1>2, <1>3 DEF Init, TypeOK

LEMMA TypeStep ==
  ASSUME TypeOK, [Next]_vars
  PROVE  TypeOK'
  <1> USE DEF TypeOK
  <1>1. CASE StartRun
    <2>1. runs' \in 0 .. MaxRuns
      BY <1>1, DiscoveryAssumption DEF StartRun
    <2>2. left' \subseteq Prefix
      BY <1>1 DEF StartRun, Existing
    <2> QED
      BY <1>1, <2>1, <2>2 DEF StartRun
  <1>2. CASE MarkDone
    BY <1>2 DEF MarkDone, runVars, adminVars, historyVars, Prefixes
  <1>3. CASE Reactivate
    <2>1. Reactivated(row[cur]) \in Row /\ Reactivated(read[cur]) \in Row
      BY RowsAreRows
    <2> QED
      BY <1>3, <2>1 DEF Reactivate, runVars, adminVars, historyVars
  <1>4. CASE Skip
    BY <1>4 DEF Skip, runVars, adminVars, historyVars
  <1>5. CASE Apply
    BY <1>5, RowsAreRows DEF Apply, runVars, adminVars, historyVars
  <1>6. CASE StartCheck
    BY <1>6 DEF StartCheck, runVars, adminVars, historyVars, Existing
  <1>7. CASE Announce
    BY <1>7 DEF Announce, runVars, adminVars
  <1>8. CASE EndRun
    BY <1>8 DEF EndRun, adminVars, historyVars
  <1>9. CASE Crash
    BY <1>9, DiscoveryAssumption DEF Crash, adminVars, historyVars
  <1>10. ASSUME NEW p \in Prefix, OpenForm(p)
         PROVE  TypeOK'
    BY <1>10, DiscoveryAssumption DEF OpenForm, runVars, historyVars
  <1>11. ASSUME NEW p \in Prefix, NEW r \in Row, Written(p, r),
                edits' \in 0 .. MaxEdits
         PROVE  TypeOK'
    <2>1. touched' \in BOOLEAN
      BY <1>11, Zenon DEF Written
    <2>2. row' \in [Prefix -> Row] /\ form' \in [Prefix -> Row]
      BY <1>11, RowsAreRows DEF Written
    <2> QED
      BY <1>11, <2>1, <2>2 DEF Written, historyVars
  <1>12. ASSUME NEW p \in Prefix, SaveForm(p)
         PROVE  TypeOK'
    <2> DEFINE shown == [form[p] EXCEPT !.backed_up = row[p].backed_up]
    <2>1. row[p] \in Row /\ form[p] \in Row /\ row[p].backed_up \in BOOLEAN
      <3>1. row[p] \in Row /\ form[p] \in Row
        OBVIOUS
      <3> QED
        BY <3>1 DEF Row
    <2>2. shown \in Row
      BY <2>1, RowsAreRows
    <2>3. [shown EXCEPT !.is_active = ~@, !.author = "operator"] \in Row
      BY <2>2, RowsAreRows
    <2>4. \E r \in Row : Written(p, r)
      BY <1>12, <2>2, <2>3 DEF SaveForm
    <2> QED
      BY <1>11, <1>12, <2>4 DEF SaveForm
  <1>13. ASSUME NEW p \in Prefix, DeleteRow(p)
         PROVE  TypeOK'
    <2>1. edits' \in 0 .. MaxEdits
      BY <1>13, DiscoveryAssumption DEF DeleteRow
    <2> QED
      BY <1>11, <1>13, <2>1, RowsAreRows DEF DeleteRow
  <1>14. ASSUME NEW p \in Prefix, Mark(p)
         PROVE  TypeOK'
    <2>1. Deactivated(row[p]) \in Row
      BY RowsAreRows
    <2> QED
      BY <1>14, <2>1 DEF Mark, runVars, adminVars, historyVars
  <1>15. ASSUME NEW p \in Prefix, Find(p)
         PROVE  TypeOK'
    BY <1>15 DEF Find, runVars, adminVars, historyVars
  <1>16. ASSUME NEW p \in Prefix, PassOverRemoved(p)
         PROVE  TypeOK'
    BY <1>16 DEF PassOverRemoved, runVars, adminVars, historyVars
  <1>17. ASSUME NEW p \in Prefix, NotConfigured(p)
         PROVE  TypeOK'
    <2>1. [row[p] EXCEPT !.connection_status = "not_configured"] \in Row
      BY RowsAreRows DEF Status
    <2> QED
      BY <1>17, <2>1 DEF NotConfigured, SaveStatus, runVars, adminVars
  <1>18. ASSUME NEW p \in Prefix, SaveFails(p)
         PROVE  TypeOK'
    BY <1>18 DEF SaveFails, runVars, adminVars, historyVars
  <1>19. ASSUME NEW p \in Prefix, Backup(p)
         PROVE  TypeOK'
    <2>1. [row[p] EXCEPT !.backed_up = TRUE] \in Row
      BY RowsAreRows
    <2> QED
      BY <1>19, <2>1 DEF Backup, runVars, adminVars, historyVars
  <1>20. ASSUME NEW p \in Prefix, NEW answer \in Answer, Check(p, answer)
         PROVE  TypeOK'
    <2>1. [row[p] EXCEPT !.connection_status = StatusOf(answer)] \in Row
      BY RowsAreRows, AnswersHaveAStatus
    <2> QED
      BY <1>20, <2>1 DEF Check, SaveStatus, runVars, adminVars
  <1>21. CASE UNCHANGED vars
    BY <1>21 DEF vars, runVars, adminVars, historyVars
  <1> QED
    BY <1>1, <1>2, <1>3, <1>4, <1>5, <1>6, <1>7, <1>8, <1>9, <1>10, <1>12, <1>13, <1>14,
       <1>15, <1>16, <1>17, <1>18, <1>19, <1>20, <1>21
    DEF Next, Admin

\* Every variable of the discovery keeps its type, for any set of prefixes.
THEOREM DiscoveryTypes == Spec => []TypeOK
  BY TypeInit, TypeStep, PTL DEF Spec

-----------------------------------------------------------------------------
(* The time of a backup.                                                   *)

\* What the saves of discovery leave of a row, and what they change.
LEMMA SavesKeep ==
  /\ \A r \in Row :
       /\ Deactivated(r).exists = r.exists
       /\ Deactivated(r).backed_up = r.backed_up
       /\ Deactivated(r).is_active = FALSE
       /\ Deactivated(r).connection_status = "removed"
       /\ Reactivated(r).exists = r.exists
       /\ Reactivated(r).backed_up = r.backed_up
       /\ Reactivated(r).is_active = TRUE
       /\ Reactivated(r).connection_status = "unknown"
       /\ Reactivated(r).author = "discovery"
  /\ ~NoRow.exists /\ ~NoRow.backed_up /\ NoRow.connection_status = "unknown"
  /\ NewRow.exists /\ NewRow.is_active /\ NewRow.connection_status = "unknown"
  BY DEF Deactivated, Reactivated, Row, NoRow, NewRow

LEMMA RowsInit ==
  ASSUME Init
  PROVE  RowsAreKnown
  BY SavesKeep DEF Init, RowsAreKnown

LEMMA RowsStep ==
  ASSUME TypeOK, RowsAreKnown, [Next]_vars
  PROVE  RowsAreKnown'
  <1> USE DEF RowsAreKnown, TypeOK
  <1>1. CASE StartRun
    BY <1>1 DEF StartRun
  <1>2. CASE MarkDone
    BY <1>2 DEF MarkDone, runVars, adminVars
  <1>3. CASE Reactivate
    BY <1>3, SavesKeep DEF Reactivate, runVars, adminVars
  <1>4. CASE Skip
    BY <1>4 DEF Skip, runVars, adminVars
  <1>5. CASE Apply
    BY <1>5, SavesKeep DEF Apply, runVars, adminVars
  <1>6. CASE StartCheck
    BY <1>6 DEF StartCheck, runVars, adminVars
  <1>7. CASE Announce
    BY <1>7 DEF Announce, runVars, adminVars
  <1>8. CASE EndRun
    BY <1>8 DEF EndRun, adminVars
  <1>9. CASE Crash
    BY <1>9 DEF Crash, adminVars
  <1>10. ASSUME NEW p \in Prefix, OpenForm(p)
         PROVE  RowsAreKnown'
    BY <1>10 DEF OpenForm, runVars
  <1>11. ASSUME NEW p \in Prefix, SaveForm(p)
         PROVE  RowsAreKnown'
    <2> DEFINE shown == [form[p] EXCEPT !.backed_up = row[p].backed_up]
               decided == [shown EXCEPT !.is_active = ~@, !.author = "operator"]
    <2>3. form[p] \in Row /\ form[p].exists
      BY <1>11 DEF SaveForm
    <2>4. shown.exists /\ decided.exists
      BY <2>3 DEF Row
    <2>1. PICK r : Written(p, r) /\ r.exists
      <3> HIDE DEF shown, decided
      <3>1. Written(p, shown) \/ Written(p, decided)
        BY <1>11 DEF SaveForm, shown, decided
      <3> QED
        BY <2>4, <3>1
    <2>2. row[p].exists
      BY <1>11 DEF SaveForm
    <2> QED
      BY <2>1, <2>2, SavesKeep DEF Written
  <1>12. ASSUME NEW p \in Prefix, DeleteRow(p)
         PROVE  RowsAreKnown'
    BY <1>12, SavesKeep DEF DeleteRow, Written
  <1>13. ASSUME NEW p \in Prefix, Mark(p)
         PROVE  RowsAreKnown'
    <2>1. pc' = pc /\ read' = read /\ form' = form /\ ended' = ended /\ pc = "mark"
      BY <1>13 DEF Mark, runVars, adminVars
    <2>2. row' = row \/ (row[p].exists /\ row' = [row EXCEPT ![p] = Deactivated(row[p])])
      BY <1>13 DEF Mark
    <2>3. \A q \in Prefix : row'[q].exists = row[q].exists
      <3>1. row[p] \in Row
        OBVIOUS
      <3>2. Deactivated(row[p]).exists = row[p].exists
        BY <3>1, SavesKeep
      <3> QED
        BY <2>2, <3>2
    <2>4. \A q \in Prefix : ~row[q].exists => row'[q] = row[q]
      BY <2>2
    <2> QED
      BY <2>1, <2>3, <2>4
  <1>14. ASSUME NEW p \in Prefix, Find(p)
         PROVE  RowsAreKnown'
    BY <1>14, SavesKeep DEF Find, runVars, adminVars
  <1>15. ASSUME NEW p \in Prefix, PassOverRemoved(p)
         PROVE  RowsAreKnown'
    BY <1>15 DEF PassOverRemoved, runVars, adminVars
  <1>16. ASSUME NEW p \in Prefix, NotConfigured(p)
         PROVE  RowsAreKnown'
    BY <1>16 DEF NotConfigured, SaveStatus, runVars, adminVars, Row
  <1>17. ASSUME NEW p \in Prefix, SaveFails(p)
         PROVE  RowsAreKnown'
    BY <1>17 DEF SaveFails, runVars, adminVars
  <1>18. ASSUME NEW p \in Prefix, Backup(p)
         PROVE  RowsAreKnown'
    BY <1>18 DEF Backup, runVars, adminVars, Row
  <1>19. ASSUME NEW p \in Prefix, NEW answer \in Answer, Check(p, answer)
         PROVE  RowsAreKnown'
    BY <1>19 DEF Check, SaveStatus, runVars, adminVars, Row
  <1>20. CASE UNCHANGED vars
    BY <1>20 DEF vars, runVars, adminVars
  <1> QED
    BY <1>1, <1>2, <1>3, <1>4, <1>5, <1>6, <1>7, <1>8, <1>9, <1>10, <1>11, <1>12, <1>13,
       <1>14, <1>15, <1>16, <1>17, <1>18, <1>19, <1>20
    DEF Next, Admin

\* Deletion is the only other thing that takes the time of a backup from a row.
KeepsTime(p) ==
  row[p].backed_up /\ row'[p].exists /\ ~row'[p].backed_up =>
    force /\ pc = "apply" /\ cur = p

LEMMA TimeStep ==
  ASSUME TypeOK, RowsAreKnown, [Next]_vars
  PROVE  \A p \in Prefix : KeepsTime(p)
  <1> USE DEF TypeOK, KeepsTime
  <1>1. CASE UNCHANGED row
    BY <1>1
  <1>2. CASE Reactivate
    BY <1>2, SavesKeep DEF Reactivate
  <1>3. CASE Apply
    <2>1. CASE read[cur].exists
      BY <1>3, <2>1 DEF Apply
    <2>2. CASE ~read[cur].exists
      BY <1>3, <2>2, SavesKeep DEF Apply, RowsAreKnown
    <2> QED
      BY <2>1, <2>2
  <1>4. ASSUME NEW q \in Prefix, SaveForm(q)
        PROVE  \A p \in Prefix : KeepsTime(p)
    <2> DEFINE shown == [form[q] EXCEPT !.backed_up = row[q].backed_up]
               decided == [shown EXCEPT !.is_active = ~@, !.author = "operator"]
    <2>1. form[q] \in Row /\ row[q] \in Row
      OBVIOUS
    <2>2. shown.backed_up = row[q].backed_up /\ decided.backed_up = row[q].backed_up
      BY <2>1 DEF Row
    <2>3. row' = [row EXCEPT ![q] = shown] \/ row' = [row EXCEPT ![q] = decided]
      BY <1>4 DEF SaveForm, Written
    <2> HIDE DEF shown, decided
    <2> QED
      BY <2>2, <2>3
  <1>5. ASSUME NEW q \in Prefix, DeleteRow(q)
        PROVE  \A p \in Prefix : KeepsTime(p)
    BY <1>5, SavesKeep DEF DeleteRow, Written
  <1>6. ASSUME NEW q \in Prefix, Mark(q)
        PROVE  \A p \in Prefix : KeepsTime(p)
    <2>1. row' = row \/ row' = [row EXCEPT ![q] = Deactivated(row[q])]
      BY <1>6 DEF Mark
    <2>2. row[q] \in Row
      OBVIOUS
    <2>3. Deactivated(row[q]).backed_up = row[q].backed_up
      BY <2>2, SavesKeep
    <2> QED
      BY <2>1, <2>3
  <1>7. ASSUME NEW q \in Prefix, NotConfigured(q)
        PROVE  \A p \in Prefix : KeepsTime(p)
    BY <1>7 DEF NotConfigured, SaveStatus, Row
  <1>8. ASSUME NEW q \in Prefix, NEW answer \in Answer, Check(q, answer)
        PROVE  \A p \in Prefix : KeepsTime(p)
    BY <1>8 DEF Check, SaveStatus, Row
  <1>9. ASSUME NEW q \in Prefix, Backup(q)
        PROVE  \A p \in Prefix : KeepsTime(p)
    BY <1>9 DEF Backup, Row
  <1>10. CASE UNCHANGED vars
    BY <1>10 DEF vars
  <1>11. CASE \/ StartRun \/ MarkDone \/ Skip \/ StartCheck \/ Announce \/ EndRun \/ Crash
              \/ \E q \in Prefix : \/ OpenForm(q) \/ Find(q) \/ PassOverRemoved(q)
                                   \/ SaveFails(q)
    BY <1>1, <1>11 DEF StartRun, MarkDone, Skip, StartCheck, Announce, EndRun, Crash,
       OpenForm, Find, PassOverRemoved, SaveFails
  <1> QED
    BY <1>2, <1>3, <1>4, <1>5, <1>6, <1>7, <1>8, <1>9, <1>10, <1>11 DEF Next, Admin

\* Both are invariants, whatever is done to the rows.
LEMMA TypesAndRows == Spec => [](TypeOK /\ RowsAreKnown)
  <1>1. Init => TypeOK /\ RowsAreKnown
    BY TypeInit, RowsInit
  <1>2. TypeOK /\ RowsAreKnown /\ [Next]_vars => (TypeOK /\ RowsAreKnown)'
    BY TypeStep, RowsStep
  <1> QED
    BY <1>1, <1>2, PTL DEF Spec

\* No step of the discovery, of the admin or of a backup takes the time of a backup
\* from a row that stays, except the full save of a run with --force.
THEOREM NoBackupTimeIsLost == Spec => BackupTimeIsKept
  <1>1. TypeOK /\ RowsAreKnown /\ [Next]_vars =>
          [\A p \in Prefix :
             row[p].backed_up /\ row'[p].exists /\ ~row'[p].backed_up =>
               force /\ pc = "apply" /\ cur = p]_vars
    BY TimeStep DEF KeepsTime
  <1> QED
    BY <1>1, TypesAndRows, PTL DEF Spec, BackupTimeIsKept

-----------------------------------------------------------------------------
(* A run nobody disturbs.                                                  *)

LEMMA UndisturbedInit ==
  ASSUME Init
  PROVE  Undisturbed
  <1>1. DecisionsCohere
    BY SavesKeep DEF Init, DecisionsCohere, Coherent
  <1> QED
    BY <1>1 DEF Init, Undisturbed, ReadIsCurrent, WorkIsDone, Outstanding, LossesAreTold

\* A row the check reaches has not been marked, so no status replaces "removed".
LEMMA CheckedIsNotRemoved ==
  ASSUME ReadIsCurrent, pc = "check", NEW p \in left, read[p].connection_status # "removed"
  PROVE  row[p].connection_status # "removed"
  BY DEF ReadIsCurrent, Same

\* A form that does not disturb is saved between two runs.
LEMMA FormsBetweenRuns ==
  ASSUME NEW p, NEW r, Written(p, r), ~touched'
  PROVE  pc = "idle" /\ pc' = "idle" /\ ~ended'
  BY Zenon DEF Written

\* The row a form writes is as coherent as the form.
LEMMA FormsCohere ==
  ASSUME TypeOK, DecisionsCohere, NEW p \in Prefix, SaveForm(p)
  PROVE  \E r \in Row : Written(p, r) /\ Coherent(r)
  <1> DEFINE shown == [form[p] EXCEPT !.backed_up = row[p].backed_up]
             decided == [shown EXCEPT !.is_active = ~@, !.author = "operator"]
  <1>1. form[p] \in Row /\ row[p] \in Row /\ Coherent(form[p])
    BY DEF TypeOK, DecisionsCohere
  <1>2. row[p].backed_up \in BOOLEAN
    BY <1>1 DEF Row
  <1>3. shown \in Row
    BY <1>1, <1>2, RowsAreRows
  <1>4. decided \in Row
    BY <1>3, RowsAreRows
  <1>5. Coherent(shown)
    BY <1>1 DEF Coherent, Row
  <1>6. Coherent(decided)
    <2>1. decided.author = "operator"
      BY <1>1 DEF Row
    <2> QED
      BY <2>1 DEF Coherent
  <1>7. Written(p, shown) \/ Written(p, decided)
    BY DEF SaveForm
  <1> HIDE DEF shown, decided
  <1> QED
    BY <1>3, <1>4, <1>5, <1>6, <1>7

LEMMA CohereStep ==
  ASSUME TypeOK, Undisturbed, [Next]_vars, ~touched'
  PROVE  DecisionsCohere'
  <1> USE DEF TypeOK, DecisionsCohere, Undisturbed
  <1>1. CASE UNCHANGED <<row, form>>
    BY <1>1
  <1>2. CASE Reactivate
    <2>1. Coherent(Reactivated(row[cur]))
      BY SavesKeep DEF Coherent
    <2> QED
      BY <1>2, <2>1 DEF Reactivate, adminVars
  <1>3. CASE Apply
    <2>1. Coherent(NewRow)
      BY DEF Coherent, NewRow
    <2>2. Coherent(read[cur])
      BY <1>3 DEF Apply, ReadIsCurrent, Coherent, Same
    <2> QED
      BY <1>3, <2>1, <2>2 DEF Apply, adminVars
  <1>4. ASSUME NEW p \in Prefix, OpenForm(p)
        PROVE  DecisionsCohere'
    BY <1>4 DEF OpenForm
  <1>5. Coherent(NoRow)
    BY SavesKeep DEF Coherent
  <1>6. ASSUME NEW p \in Prefix, SaveForm(p)
        PROVE  DecisionsCohere'
    <2>1. PICK r \in Row : Written(p, r) /\ Coherent(r)
      BY <1>6, FormsCohere
    <2> QED
      BY <2>1, <1>5 DEF Written
  <1>7. ASSUME NEW p \in Prefix, DeleteRow(p)
        PROVE  DecisionsCohere'
    BY <1>7, <1>5 DEF DeleteRow, Written
  <1>8. ASSUME NEW p \in Prefix, Mark(p)
        PROVE  DecisionsCohere'
    <2>1. row' = row \/ row' = [row EXCEPT ![p] = Deactivated(row[p])]
      BY <1>8 DEF Mark
    <2>2. Deactivated(row[p]).connection_status = "removed"
          /\ Deactivated(row[p]).is_active = FALSE
      BY SavesKeep
    <2>3. Coherent(Deactivated(row[p]))
      BY <2>2 DEF Coherent
    <2> QED
      BY <1>8, <2>1, <2>3 DEF Mark, adminVars
  <1>9. ASSUME NEW p \in Prefix, NEW s \in Status \ {"removed"}, SaveStatus(p, s),
               row[p].connection_status # "removed", form' = form
        PROVE  DecisionsCohere'
    <2>1. Coherent([row[p] EXCEPT !.connection_status = s])
      <3>1. row[p] \in Row /\ Coherent(row[p])
        OBVIOUS
      <3> QED
        BY <1>9, <3>1 DEF Coherent, Row
    <2>2. row' = [row EXCEPT ![p] = [row[p] EXCEPT !.connection_status = s]]
      BY <1>9 DEF SaveStatus
    <2> QED
      BY <1>9, <2>1, <2>2
  <1>10. ASSUME NEW p \in Prefix, NotConfigured(p)
         PROVE  DecisionsCohere'
    BY <1>9, <1>10, CheckedIsNotRemoved DEF NotConfigured, adminVars, Status
  <1>11. ASSUME NEW p \in Prefix, NEW answer \in Answer, Check(p, answer)
         PROVE  DecisionsCohere'
    BY <1>9, <1>11, CheckedIsNotRemoved, AnswersHaveAStatus DEF Check, adminVars
  <1>12. ASSUME NEW p \in Prefix, Backup(p)
         PROVE  DecisionsCohere'
    <2>1. Coherent([row[p] EXCEPT !.backed_up = TRUE])
      <3>1. row[p] \in Row /\ Coherent(row[p])
        OBVIOUS
      <3> QED
        BY <3>1 DEF Coherent, Row
    <2> QED
      BY <1>12, <2>1 DEF Backup, adminVars
  <1>13. CASE UNCHANGED vars
    BY <1>1, <1>13 DEF vars, adminVars
  <1>14. CASE \/ StartRun \/ MarkDone \/ Skip \/ StartCheck \/ Announce \/ EndRun \/ Crash
              \/ \E p \in Prefix : Find(p) \/ PassOverRemoved(p) \/ SaveFails(p)
    BY <1>1, <1>14 DEF StartRun, MarkDone, Skip, StartCheck, Announce, EndRun, Crash,
       Find, PassOverRemoved, SaveFails, adminVars
  <1> QED
    BY <1>2, <1>3, <1>4, <1>6, <1>7, <1>8, <1>10, <1>11, <1>12, <1>13, <1>14
    DEF Next, Admin

LEMMA ReadStep ==
  ASSUME TypeOK, Undisturbed, [Next]_vars, ~touched'
  PROVE  ReadIsCurrent'
  <1> USE DEF TypeOK, ReadIsCurrent, Undisturbed
  <1>1. CASE pc' = "idle"
    BY <1>1
  <1>2. CASE StartRun
    BY <1>2 DEF StartRun, Same
  <1>3. CASE MarkDone
    BY <1>3 DEF MarkDone, runVars, Prefixes
  <1>4. CASE Reactivate
    <2>1. Same(Reactivated(read[cur]), Reactivated(row[cur]))
      <3>1. read[cur] \in Row /\ row[cur] \in Row
        OBVIOUS
      <3>2. read[cur].exists = row[cur].exists
        BY <1>4 DEF Reactivate, Same
      <3> QED
        BY <3>1, <3>2, SavesKeep DEF Same
    <2>2. /\ read'[cur'] = Reactivated(read[cur]) /\ row'[cur'] = Reactivated(row[cur])
          /\ pc = "reactivate" /\ pc' = "apply" /\ cur' = cur /\ left' = left /\ env' = env
      BY <1>4 DEF Reactivate, runVars
    <2>3. Reactivated(read[cur]).connection_status = "unknown"
      BY SavesKeep
    <2> QED
      BY <2>1, <2>2, <2>3 DEF Prefixes
  <1>5. CASE Skip \/ Apply
    BY <1>5 DEF Skip, Apply, runVars, Prefixes
  <1>6. CASE StartCheck
    BY <1>6 DEF StartCheck, Same
  <1>7. CASE Announce
    BY <1>7 DEF Announce
  <1>8. ASSUME NEW p \in Prefix, OpenForm(p)
        PROVE  ReadIsCurrent'
    BY <1>8 DEF OpenForm, runVars, Prefixes
  <1>9. ASSUME NEW p \in Prefix, SaveForm(p) \/ DeleteRow(p)
        PROVE  ReadIsCurrent'
    BY <1>1, <1>9, FormsBetweenRuns DEF SaveForm, DeleteRow
  <1>10. ASSUME NEW p \in Prefix, Mark(p)
         PROVE  ReadIsCurrent'
    BY <1>10 DEF Mark
  <1>11. ASSUME NEW p \in Prefix, Find(p)
         PROVE  ReadIsCurrent'
    BY <1>11 DEF Find, runVars, Prefixes, Same
  <1>12. ASSUME NEW p \in Prefix, PassOverRemoved(p) \/ NotConfigured(p)
         PROVE  ReadIsCurrent'
    BY <1>12 DEF PassOverRemoved, NotConfigured, SaveStatus
  <1>13. ASSUME NEW p \in Prefix, NEW answer \in Answer, Check(p, answer)
         PROVE  ReadIsCurrent'
    BY <1>13 DEF Check, SaveStatus
  <1>14. ASSUME NEW p \in Prefix, Backup(p)
         PROVE  ReadIsCurrent'
    <2>1. \A q \in Prefix : Same(row'[q], row[q])
      BY <1>14 DEF Backup, Same, Row
    <2>2. UNCHANGED <<pc, left, cur, read, env>>
      BY <1>14 DEF Backup, runVars
    <2> QED
      BY <2>1, <2>2 DEF Same, Prefixes
  <1>15. CASE UNCHANGED vars
    BY <1>15 DEF vars, runVars, Prefixes
  <1>16. CASE EndRun \/ Crash \/ \E p \in Prefix : SaveFails(p)
    BY <1>1, <1>16 DEF EndRun, Crash, SaveFails
  <1> QED
    BY <1>2, <1>3, <1>4, <1>5, <1>6, <1>7, <1>8, <1>9, <1>10, <1>11, <1>12, <1>13, <1>14,
       <1>15, <1>16
    DEF Next, Admin

LEMMA WorkStep ==
  ASSUME TypeOK, RowsAreKnown, Undisturbed, [Next]_vars, ~touched'
  PROVE  WorkIsDone'
  <1> USE DEF TypeOK, WorkIsDone, Undisturbed, Outstanding
  <1>1. CASE pc' = "idle" /\ ~ended'
    BY <1>1
  <1>2. CASE UNCHANGED <<env, row>> /\ Outstanding \subseteq Outstanding'
    BY <1>2 DEF Settled
  <1>3. CASE StartRun
    BY <1>3 DEF StartRun, Existing, Prefixes, Settled
  <1>4. CASE Reactivate
    BY <1>4 DEF Reactivate, runVars, Settled
  <1>5. CASE Skip
    <2>1. row[cur].connection_status # "removed" /\ env[cur] # "unset"
      BY <1>5 DEF Skip, ReadIsCurrent, Same, Prefixes
    <2>2. env[cur] # "invalid" => row[cur].exists
      BY <1>5 DEF Skip, ReadIsCurrent, Same
    <2>3. Settled(cur)
      BY <2>1, <2>2 DEF Settled
    <2> QED
      BY <1>5, <2>3 DEF Skip, runVars, Settled
  <1>6. CASE Apply
    <2>1. read[cur].connection_status # "removed" /\ env[cur] # "unset"
      BY <1>6 DEF Apply, ReadIsCurrent, Prefixes
    <2>2. row'[cur].exists /\ row'[cur].connection_status # "removed"
      BY <1>6, <2>1, SavesKeep DEF Apply
    <2>3. Settled(cur)'
      BY <1>6, <2>1, <2>2 DEF Settled, Apply, runVars
    <2>4. \A q \in Prefix \ {cur} : row'[q] = row[q]
      BY <1>6 DEF Apply
    <2> QED
      BY <1>6, <2>3, <2>4 DEF Apply, runVars, Settled
  <1>7. ASSUME NEW p \in Prefix, SaveForm(p) \/ DeleteRow(p)
        PROVE  WorkIsDone'
    BY <1>1, <1>7, FormsBetweenRuns DEF SaveForm, DeleteRow
  <1>8. ASSUME NEW p \in Prefix, Mark(p)
        PROVE  WorkIsDone'
    <2>1. \A q \in Prefix \ {p} : row'[q] = row[q]
      BY <1>8 DEF Mark
    <2>2. p \notin Prefixes => row'[p].connection_status = "removed"
      <3>1. CASE read[p].connection_status = "removed"
        BY <1>8, <3>1 DEF Mark, ReadIsCurrent, Same
      <3>2. CASE read[p].connection_status # "removed" /\ p \notin Prefixes
        BY <1>8, <3>2, SavesKeep DEF Mark
      <3> QED
        BY <3>1, <3>2
    <2>3. p \notin Prefixes => Settled(p)'
      BY <1>8, <2>2 DEF Settled, Mark, runVars, Prefixes
    <2>4. /\ Outstanding = left \cup Prefixes /\ Outstanding' = (left \ {p}) \cup Prefixes
          /\ env' = env
      BY <1>8 DEF Mark, runVars, Prefixes
    <2> QED
      BY <2>1, <2>3, <2>4 DEF Settled
  <1>9. ASSUME NEW p \in Prefix, NEW s \in Status \ {"removed"}, SaveStatus(p, s),
               pc = "check", row[p].connection_status # "removed", env' = env
        PROVE  WorkIsDone'
    <2>1. Settled(p)
      BY <1>9
    <2>2. env[p] # "unset"
      BY <1>9, <2>1 DEF Settled, SaveStatus
    <2>3. row'[p].connection_status = s /\ row'[p].exists
      BY <1>9 DEF SaveStatus, Row
    <2>4. \A q \in Prefix \ {p} : row'[q] = row[q]
      BY <1>9 DEF SaveStatus
    <2>5. Outstanding = {}
      BY <1>9
    <2> QED
      BY <1>9, <2>2, <2>3, <2>4, <2>5 DEF Settled
  <1>10. ASSUME NEW p \in Prefix, NotConfigured(p)
         PROVE  WorkIsDone'
    BY <1>9, <1>10, CheckedIsNotRemoved DEF NotConfigured, runVars, Status
  <1>11. ASSUME NEW p \in Prefix, NEW answer \in Answer, Check(p, answer)
         PROVE  WorkIsDone'
    BY <1>9, <1>11, CheckedIsNotRemoved, AnswersHaveAStatus DEF Check, runVars
  <1>12. ASSUME NEW p \in Prefix, Backup(p)
         PROVE  WorkIsDone'
    <2>1. \A q \in Prefix : /\ row'[q].exists = row[q].exists
                            /\ row'[q].connection_status = row[q].connection_status
      BY <1>12 DEF Backup, Row
    <2>2. UNCHANGED <<env, Outstanding>>
      BY <1>12 DEF Backup, runVars, Prefixes
    <2> QED
      BY <2>1, <2>2 DEF Settled
  <1>13. CASE Crash \/ \E p \in Prefix : SaveFails(p)
    BY <1>1, <1>13 DEF Crash, SaveFails, RowsAreKnown, runVars
  <1>14. CASE MarkDone \/ StartCheck \/ Announce \/ EndRun
    BY <1>2, <1>14 DEF MarkDone, StartCheck, Announce, EndRun, runVars, Prefixes
  <1>15. CASE \E p \in Prefix : OpenForm(p) \/ Find(p) \/ PassOverRemoved(p)
    BY <1>2, <1>15 DEF OpenForm, Find, PassOverRemoved, runVars, Prefixes
  <1>16. CASE UNCHANGED vars
    BY <1>2, <1>16 DEF vars, runVars, Prefixes
  <1> QED
    BY <1>3, <1>4, <1>5, <1>6, <1>7, <1>8, <1>10, <1>11, <1>12, <1>13, <1>14, <1>15, <1>16
    DEF Next, Admin

LEMMA LossStep ==
  ASSUME TypeOK, RowsAreKnown, Undisturbed, [Next]_vars, ~touched'
  PROVE  LossesAreTold'
  <1> USE DEF TypeOK, LossesAreTold, Undisturbed
  <1>1. CASE pc' = "idle" /\ ~ended'
    BY <1>1
  <1>2. CASE StartRun
    BY <1>2 DEF StartRun
  <1>3. CASE Announce
    BY <1>3 DEF Announce
  <1>4. ASSUME NEW p \in Prefix, SaveForm(p) \/ DeleteRow(p)
        PROVE  LossesAreTold'
    BY <1>1, <1>4, FormsBetweenRuns DEF SaveForm, DeleteRow
  <1>5. ASSUME NEW p \in Prefix, NotConfigured(p)
        PROVE  LossesAreTold'
    BY <1>5 DEF NotConfigured, SaveStatus
  <1>6. ASSUME NEW p \in Prefix, NEW answer \in Answer, Check(p, answer)
        PROVE  LossesAreTold'
    <2>1. row[p].connection_status = read[p].connection_status
      BY <1>6 DEF Check, ReadIsCurrent, Same
    <2> QED
      BY <1>6, <2>1 DEF Check, SaveStatus
  <1>7. CASE Crash \/ \E p \in Prefix : SaveFails(p)
    BY <1>1, <1>7 DEF Crash, SaveFails, RowsAreKnown, runVars
  <1>8. CASE MarkDone \/ Reactivate \/ Skip \/ Apply \/ StartCheck \/ EndRun
    BY <1>8 DEF MarkDone, Reactivate, Skip, Apply, StartCheck, EndRun, runVars, historyVars
  <1>9. CASE \E p \in Prefix : OpenForm(p) \/ Mark(p) \/ Find(p) \/ PassOverRemoved(p)
                                \/ Backup(p)
    BY <1>9 DEF OpenForm, Mark, Find, PassOverRemoved, Backup, runVars, historyVars
  <1>10. CASE UNCHANGED vars
    BY <1>10 DEF vars, runVars, historyVars
  <1> QED
    BY <1>2, <1>3, <1>4, <1>5, <1>6, <1>7, <1>8, <1>9, <1>10 DEF Next, Admin

\* A form once saved during a run stays on record.
LEMMA TouchedStays ==
  ASSUME [Next]_vars, touched
  PROVE  touched'
  <1>1. ASSUME NEW p, NEW r, Written(p, r)
        PROVE  touched'
    BY <1>1, Zenon DEF Written
  <1>2. CASE Admin
    BY <1>1, <1>2 DEF Admin, OpenForm, SaveForm, DeleteRow
  <1>3. CASE UNCHANGED vars
    BY <1>3 DEF vars, adminVars
  <1>4. CASE \/ StartRun \/ MarkDone \/ Reactivate \/ Skip \/ Apply
             \/ StartCheck \/ Announce \/ EndRun \/ Crash
    BY <1>4 DEF StartRun, MarkDone, Reactivate, Skip, Apply, StartCheck, Announce, EndRun,
       Crash, adminVars
  <1>5. CASE \E p \in Prefix :
               \/ Mark(p) \/ Find(p) \/ PassOverRemoved(p) \/ NotConfigured(p)
               \/ SaveFails(p) \/ Backup(p) \/ \E answer \in Answer : Check(p, answer)
    BY <1>5 DEF Mark, Find, PassOverRemoved, NotConfigured, SaveFails, Backup, Check,
       adminVars
  <1> QED
    BY <1>2, <1>3, <1>4, <1>5 DEF Next

LEMMA DInvariance == Spec => []DInv
  <1>1. Init => DInv
    BY TypeInit, RowsInit, UndisturbedInit DEF DInv
  <1>2. DInv /\ [Next]_vars => DInv'
    <2> SUFFICES ASSUME DInv, [Next]_vars
                 PROVE  DInv'
      OBVIOUS
    <2>1. TypeOK' /\ RowsAreKnown'
      BY TypeStep, RowsStep DEF DInv
    <2>2. ASSUME ~touched'
          PROVE  Undisturbed'
      <3>1. Undisturbed
        BY <2>2, TouchedStays DEF DInv
      <3> QED
        BY <2>2, <3>1, CohereStep, ReadStep, WorkStep, LossStep DEF DInv, Undisturbed
    <2> QED
      BY <2>1, <2>2 DEF DInv
  <1> QED
    BY <1>1, <1>2, PTL DEF Spec

\* However many prefixes, and whatever the runs before it, operators between runs and
\* crashes left behind, a run that ends undisturbed leaves every row as its environment
\* asks.
THEOREM ReconciledAtTheEnd == Spec => []RunReconciles
  <1>1. DInv => RunReconciles
    <2> SUFFICES ASSUME DInv, ended, ~touched, NEW p \in Prefix
                 PROVE  /\ env[p] \in {"set", "no_password"} => row[p].exists
                        /\ row[p].exists =>
                             /\ row[p].connection_status = "removed" <=> env[p] = "unset"
                             /\ row[p].is_active = (env[p] # "unset")
                                  \/ row[p].author = "operator"
      BY DEF RunReconciles
    <2>1. Settled(p) /\ Coherent(row[p]) /\ row[p] \in Row
      BY DEF DInv, TypeOK, RowsAreKnown, Undisturbed, DecisionsCohere, WorkIsDone, Outstanding
    <2>2. row[p].is_active \in BOOLEAN /\ row[p].author \in {"discovery", "operator"}
      BY <2>1 DEF Row
    <2> QED
      BY <2>1, <2>2 DEF Settled, Coherent
  <1> QED
    BY <1>1, DInvariance, PTL

\* A run that ends undisturbed has announced the losses it found and no others.
THEOREM LossesAnnounced == Spec => []LossIsAnnounced
  <1>1. DInv => LossIsAnnounced
    BY DEF DInv, RowsAreKnown, Undisturbed, LossesAreTold, LossIsAnnounced
  <1> QED
    BY <1>1, DInvariance, PTL
=============================================================================
