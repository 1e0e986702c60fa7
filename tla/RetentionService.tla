-------------------------- MODULE RetentionService --------------------------
(***************************************************************************)
(* services/retention_service.py, run by the scheduler once a day: for     *)
(* each active configuration prune by count, prune by age, and purge the   *)
(* rows of old failed attempts.                                            *)
(***************************************************************************)
EXTENDS BackupService

VARIABLE sweep   \* the locals of a thread's enforce_all and enforce_retention

Sweep == [left : SUBSET Config, config : Config \cup {None},
          todo : SUBSET BackupRecord, why : Why]

NoSweep == [left |-> {}, config |-> None, todo |-> {}, why |-> "count"]

RetentionInit == sweep = [t \in Thread |-> NoSweep]

\* The loop goes through the configurations that are active when it starts.
StartRetention(t) ==
  /\ "retention" \in Requests
  /\ Idle(t)
  /\ sweep' = [sweep EXCEPT ![t] = [NoSweep EXCEPT !.left = {c \in Config : row[c].is_active}]]
  /\ Goto(t, "enforce")
  /\ NoFault
  /\ UNCHANGED <<tableVars, fileVars, createVars, deleteVars, doomed>>

\* The records a query returned are the ones the loop below will delete.
Select(t, selected, why) ==
  doomed' = doomed \cup {[rec |-> r, why |-> why] : r \in selected}

SelectByCount(t, c) ==
  /\ pc[t] = "enforce"
  /\ c \in sweep[t].left
  /\ Select(t, Excess(c), "count")
  /\ sweep' = [sweep EXCEPT ![t] = [left |-> @.left \ {c}, config |-> c,
                                    todo |-> Excess(c), why |-> "count"]]
  /\ Goto(t, "prune")
  /\ NoFault
  /\ UNCHANGED <<tableVars, fileVars, createVars, deleteVars>>

\* enforce_all catches what enforce_retention raises and goes on with the next.
SkipConfig(t, c) ==
  /\ pc[t] = "enforce"
  /\ c \in sweep[t].left
  /\ Strike("enforce")
  /\ sweep' = [sweep EXCEPT ![t].left = @ \ {c}]
  /\ UNCHANGED <<pc, tableVars, fileVars, createVars, deleteVars, doomed>>

EndRetention(t) ==
  /\ pc[t] = "enforce"
  /\ sweep[t].left = {}
  /\ sweep' = [sweep EXCEPT ![t] = NoSweep]
  /\ Goto(t, "idle")
  /\ NoFault
  /\ UNCHANGED <<tableVars, fileVars, createVars, deleteVars, doomed>>

\* The loop takes the rows newest first.
PruneNext(t) ==
  /\ pc[t] = "prune"
  /\ \E r \in sweep[t].todo :
       /\ \A s \in sweep[t].todo : s.id <= r.id
       /\ victim' = [victim EXCEPT ![t] = [rec |-> r, why |-> sweep[t].why]]
       /\ sweep' = [sweep EXCEPT ![t].todo = @ \ {r}]
  /\ Goto(t, "exists")
  /\ NoFault
  /\ UNCHANGED refused
  /\ UNCHANGED <<tableVars, fileVars, createVars, doomed>>

PruneDone(t) ==
  /\ pc[t] = "prune"
  /\ sweep[t].todo = {}
  /\ Goto(t, IF sweep[t].why = "count" THEN "select_age" ELSE "purge_failed")
  /\ NoFault
  /\ UNCHANGED <<tableVars, fileVars, createVars, deleteVars, doomed, sweep>>

\* filter(created_at__lt=cutoff), skipped when max_age_days is 0.
Aged(c, cutoff) == {r \in Succeeded(c) : AgeLimit /\ r.id <= cutoff}

\* The cutoff is a moment of the past: any prefix of the creation order.
SelectByAge(t) ==
  /\ pc[t] = "select_age"
  /\ \E cutoff \in 0 .. lastId :
       LET old == Aged(sweep[t].config, cutoff) IN
         /\ Select(t, old, "age")
         /\ sweep' = [sweep EXCEPT ![t] = [@ EXCEPT !.todo = old, !.why = "age"]]
  /\ Goto(t, "prune")
  /\ NoFault
  /\ UNCHANGED <<tableVars, fileVars, createVars, deleteVars>>

PurgeFailed(t) ==
  /\ pc[t] = "purge_failed"
  /\ \E cutoff \in 0 .. lastId :
       records' = {r \in records : ~ (/\ r.config = sweep[t].config
                                      /\ r.status = "failed"
                                      /\ r.id <= cutoff)}
  /\ Goto(t, "enforce")
  /\ NoFault
  /\ UNCHANGED <<lastId, row, doomed, sweep>>
  /\ UNCHANGED <<fileVars, createVars, deleteVars>>

\* A statement on the tables raises: the rest of this configuration is skipped.
EnforceFails(t) ==
  /\ \/ pc[t] \in {"select_age", "purge_failed"}
     \/ pc[t] = "delete" /\ victim[t].why # "user"
  /\ Strike(pc[t])
  /\ victim' = [victim EXCEPT ![t] = NoVictim]
  /\ Goto(t, "enforce")
  /\ UNCHANGED <<refused, doomed, sweep>>
  /\ UNCHANGED <<tableVars, fileVars, createVars>>

RetentionStep(t) ==
  \/ \E c \in Config : SelectByCount(t, c) \/ SkipConfig(t, c)
  \/ EndRetention(t) \/ PruneNext(t) \/ PruneDone(t)
  \/ SelectByAge(t) \/ PurgeFailed(t) \/ EnforceFails(t)
=============================================================================
