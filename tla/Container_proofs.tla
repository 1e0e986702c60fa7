--------------------------- MODULE Container_proofs ---------------------------
(***************************************************************************)
(* One scheduler at a time, and none left by cleanup, for every set of     *)
(* process ids and every bound.                                            *)
(*                                                                         *)
(* Who knows the live scheduler changes hands: the main shell (started)    *)
(* until it has written the file, then the file, except between a fork of  *)
(* the monitor and its write, when only the monitor (watched) knows.       *)
(***************************************************************************)
EXTENDS Container, FiniteSetTheorems, TLAPS

\* Before the main shell starts a scheduler nothing runs.
NothingRunsYet ==
  main \in {"down", "key", "write_key", "migrate", "discover", "scheduler"} =>
    monitor = "off" /\ schedulers = {}

\* Until there is a monitor the main shell's variable is right.
MainKnows ==
  /\ main \in {"write_pid", "gunicorn", "monitor"} =>
       monitor = "off" /\ schedulers \subseteq {started}
  /\ main \in {"gunicorn", "monitor"} => pidfile = started

\* Its variable is right as long as the monitor runs, and so is the file unless
\* it has just forked.
MonitorKnows ==
  /\ monitor # "off" \/ missed => schedulers \subseteq {watched}
  /\ monitor \in {"look", "fork", "give_up"} => pidfile = watched
  /\ monitor \in {"fork", "give_up"} => schedulers = {}

\* The file is right once it is written.
FileKnows ==
  main \in Trapped \cup CleaningUp /\ monitor # "write" /\ ~missed =>
    schedulers \subseteq {pidfile}

\* What cleanup has done so far.
CleanupAdvances ==
  /\ missed => main \in CleaningUp \ {"kill_monitor"}
  /\ main \in CleaningUp \ {"kill_monitor"} => monitor = "off"
  /\ main = "kill_scheduler" => target = pidfile
  /\ main \in {"kill_gunicorn", "exit"} /\ ~missed => schedulers = {}

\* The monitor looks again only while it may restart, and it starts from zero.
CountIsBounded ==
  /\ monitor \in {"look", "fork", "write"} => restarts <= MaxRestarts
  /\ main \notin {"wait"} \cup CleaningUp => restarts = 0

IInv ==
  TypeOK /\ CountIsBounded /\ NothingRunsYet /\ MainKnows /\ MonitorKnows /\ FileKnows /\ CleanupAdvances

\* The live scheduler is the one somebody knows.
LEMMA AtMostOne ==
  ASSUME NEW S, NEW x, S \subseteq {x}
  PROVE  Cardinality(S) <= 1
<1>1. S = {} \/ S = {x}
  OBVIOUS
<1>2. Cardinality({}) = 0 /\ Cardinality({x}) = 1
  BY FS_EmptySet, FS_Singleton
<1> QED BY <1>1, <1>2

LEMMA InvImplies ==
  ASSUME IInv
  PROVE  OneScheduler /\ CleanupReachesTheScheduler
<1>1. PICK x : schedulers \subseteq {x}
  BY DEF IInv, TypeOK, NothingRunsYet, MainKnows, MonitorKnows, FileKnows, Preparing
<1>2. OneScheduler
  BY <1>1, AtMostOne DEF OneScheduler
<1>3. CleanupReachesTheScheduler
  BY DEF IInv, CleanupAdvances, CleanupReachesTheScheduler
<1> QED BY <1>2, <1>3

\* The end of the container keeps the types and resets the count.
LEMMA EndStep ==
  ASSUME End
  PROVE  /\ missed' \in BOOLEAN /\ gunicorn' \in BOOLEAN
         /\ restarts' \in 0 .. MaxRestarts + 1
         /\ schedulers' \subseteq Pid
         /\ CountIsBounded'
<1>1. missed' \in BOOLEAN /\ gunicorn' \in BOOLEAN
  BY DEF End
<1>2. restarts' = 0 /\ schedulers' = {}
  BY DEF End
<1> QED BY <1>1, <1>2, ContainerAssumption DEF CountIsBounded

\* The initial state has the invariant.
LEMMA InvInit ==
  ASSUME Init
  PROVE  IInv
<1>1. TypeOK
  <2>1. missed \in BOOLEAN /\ gunicorn \in BOOLEAN /\ stopped \in BOOLEAN
    BY DEF Init
  <2> QED BY <2>1, ContainerAssumption DEF Init, TypeOK
<1>2. NothingRunsYet /\ MainKnows /\ MonitorKnows /\ FileKnows /\ CleanupAdvances
  BY DEF Init, NothingRunsYet, MainKnows, MonitorKnows, FileKnows, CleanupAdvances, Trapped,
         CleaningUp
<1>3. CountIsBounded
  BY ContainerAssumption DEF Init, CountIsBounded
<1> QED BY <1>1, <1>2, <1>3 DEF IInv

\* Every step keeps the types, and the count of restarts within its bound.
LEMMA TypeNext ==
  ASSUME IInv, [Next]_vars
  PROVE  TypeOK' /\ CountIsBounded'
<1> USE ContainerAssumption DEF IInv, TypeOK, CountIsBounded, Preparing, Trapped,
        CleaningUp, mainVars, monitorVars, processVars, fileVars, dockerVars
<1>1. CASE GetKey
  BY <1>1 DEF GetKey, Proceed
<1>2. CASE WriteKey
  BY <1>2 DEF WriteKey, Proceed
<1>3. CASE Prepare
  BY <1>3 DEF Prepare, Proceed
<1>4. CASE StartScheduler
  BY <1>4 DEF StartScheduler, Proceed, NewPids
<1>5. CASE WritePid
  BY <1>5 DEF WritePid, Proceed
<1>6. CASE StartGunicorn
  BY <1>6 DEF StartGunicorn, Proceed
<1>7. CASE StartMonitor
  BY <1>7 DEF StartMonitor, Proceed
<1>8. CASE GunicornEnded
  BY <1>8, EndStep DEF GunicornEnded, End
<1>9. CASE KillMonitor
  <2>1. missed' \in BOOLEAN
    BY <1>9 DEF KillMonitor
  <2>2. main' = "read_file" /\ monitor' = "off"
    BY <1>9 DEF KillMonitor, Proceed
  <2>3. UNCHANGED <<started, target, watched, restarts, processVars, fileVars, dockerVars>>
    BY <1>9 DEF KillMonitor
  <2> QED BY <2>1, <2>2, <2>3
<1>10. CASE ReadFile
  BY <1>10 DEF ReadFile, Proceed
<1>11. CASE KillScheduler
  BY <1>11 DEF KillScheduler, Proceed
<1>12. CASE KillGunicorn
  BY <1>12 DEF KillGunicorn, Proceed
<1>13. CASE Exit
  BY <1>13, EndStep DEF Exit, End
<1>14. CASE Look
  <2>1. restarts' \in 0 .. MaxRestarts + 1 /\ (monitor' # "give_up" => restarts' <= MaxRestarts)
    BY <1>14 DEF Look
  <2>2. monitor' \in {"look", "fork", "give_up"}
    BY <1>14 DEF Look
  <2>3. main \in {"wait"} \cup CleaningUp
    BY <1>14 DEF Look, NothingRunsYet, MainKnows
  <2>4. UNCHANGED <<mainVars, watched, missed, processVars, fileVars, dockerVars>>
    BY <1>14 DEF Look
  <2> QED BY <2>1, <2>2, <2>3, <2>4
<1>15. CASE Fork
  BY <1>15 DEF Fork, NewPids
<1>16. CASE WriteNewPid
  BY <1>16 DEF WriteNewPid
<1>17. CASE GiveUp
  <2>1. gunicorn' \in BOOLEAN
    BY <1>17 DEF GiveUp
  <2>2. monitor' = "off"
    BY <1>17 DEF GiveUp
  <2>3. UNCHANGED <<mainVars, watched, restarts, missed, schedulers, fileVars, dockerVars>>
    BY <1>17 DEF GiveUp
  <2> QED BY <2>1, <2>2, <2>3
<1>18. CASE DockerRestarts
  BY <1>18 DEF DockerRestarts
<1>19. CASE OperatorStarts
  BY <1>19 DEF OperatorStarts
<1>20. CASE Killed
  <2>1. faults' \in 0 .. MaxFaults
    BY <1>20 DEF Killed, Fault
  <2>2. End /\ stopped' \in BOOLEAN /\ UNCHANGED fileVars
    BY <1>20 DEF Killed
  <2> QED BY <2>1, <2>2, EndStep DEF End
<1>21. CASE PrepareFails
  <2>1. faults' \in 0 .. MaxFaults
    BY <1>21 DEF PrepareFails, Fault
  <2>2. End /\ UNCHANGED <<fileVars, stopped>>
    BY <1>21 DEF PrepareFails
  <2> QED BY <2>1, <2>2, EndStep DEF End
<1>22. CASE Signal
  BY <1>22 DEF Signal
<1>23. CASE SchedulerDies
  BY <1>23 DEF SchedulerDies
<1>24. CASE GunicornDies
  <2>1. gunicorn' \in BOOLEAN
    BY <1>24 DEF GunicornDies
  <2>2. UNCHANGED <<mainVars, monitorVars, schedulers, fileVars, dockerVars>>
    BY <1>24 DEF GunicornDies
  <2> QED BY <2>1, <2>2
<1>25. CASE UNCHANGED vars
  BY <1>25 DEF vars
<1> QED
  BY <1>1, <1>2, <1>3, <1>4, <1>5, <1>6, <1>7, <1>8, <1>9, <1>10,
     <1>11, <1>12, <1>13, <1>14, <1>15, <1>16, <1>17, <1>18, <1>19, <1>20,
     <1>21, <1>22, <1>23, <1>24, <1>25
  DEF Next, Main, Monitor

\* Every step keeps who knows the live scheduler.
LEMMA KnowledgeNext ==
  ASSUME IInv, [Next]_vars
  PROVE  (NothingRunsYet /\ MainKnows /\ MonitorKnows /\ FileKnows /\ CleanupAdvances)'
<1> USE DEF IInv, NothingRunsYet, MainKnows, MonitorKnows, FileKnows, CleanupAdvances,
        Preparing, Trapped, CleaningUp, mainVars, monitorVars, processVars,
        fileVars, dockerVars
<1>1. CASE GetKey
  BY <1>1 DEF GetKey, Proceed
<1>2. CASE WriteKey
  BY <1>2 DEF WriteKey, Proceed
<1>3. CASE Prepare
  BY <1>3 DEF Prepare, Proceed
<1>4. CASE StartScheduler
  BY <1>4 DEF StartScheduler, Proceed, NewPids
<1>5. CASE WritePid
  BY <1>5 DEF WritePid, Proceed
<1>6. CASE StartGunicorn
  BY <1>6 DEF StartGunicorn, Proceed
<1>7. CASE StartMonitor
  BY <1>7 DEF StartMonitor, Proceed
<1>8. CASE GunicornEnded
  BY <1>8 DEF GunicornEnded, End
<1>9. CASE KillMonitor
  <2>1. main = "kill_monitor" /\ main' = "read_file" /\ monitor' = "off"
    BY <1>9 DEF KillMonitor, Proceed
  <2>2. UNCHANGED <<watched, schedulers, pidfile>>
    BY <1>9 DEF KillMonitor
  <2>3. CASE monitor = "write"
    <3>1. missed'
      BY <1>9, <2>3 DEF KillMonitor
    <3> QED BY <2>1, <2>2, <2>3, <3>1
  <2>4. CASE monitor # "write"
    <3>1. ~missed'
      BY <1>9, <2>4 DEF KillMonitor
    <3> QED BY <2>1, <2>2, <2>4, <3>1
  <2> QED BY <2>3, <2>4
<1>10. CASE ReadFile
  BY <1>10 DEF ReadFile, Proceed
<1>11. CASE KillScheduler
  BY <1>11 DEF KillScheduler, Proceed
<1>12. CASE KillGunicorn
  BY <1>12 DEF KillGunicorn, Proceed
<1>13. CASE Exit
  BY <1>13 DEF Exit, End
<1>14. CASE Look
  BY <1>14 DEF Look
<1>15. CASE Fork
  BY <1>15 DEF Fork, NewPids
<1>16. CASE WriteNewPid
  BY <1>16 DEF WriteNewPid
<1>17. CASE GiveUp
  BY <1>17 DEF GiveUp
<1>18. CASE DockerRestarts
  BY <1>18 DEF DockerRestarts
<1>19. CASE OperatorStarts
  BY <1>19 DEF OperatorStarts
<1>20. CASE Killed
  BY <1>20 DEF Killed, End
<1>21. CASE PrepareFails
  BY <1>21 DEF PrepareFails, End
<1>22. CASE Signal
  BY <1>22 DEF Signal
<1>23. CASE SchedulerDies
  BY <1>23 DEF SchedulerDies
<1>24. CASE GunicornDies
  BY <1>24 DEF GunicornDies
<1>25. CASE UNCHANGED vars
  BY <1>25 DEF vars
<1> QED
  BY <1>1, <1>2, <1>3, <1>4, <1>5, <1>6, <1>7, <1>8, <1>9, <1>10,
     <1>11, <1>12, <1>13, <1>14, <1>15, <1>16, <1>17, <1>18, <1>19, <1>20,
     <1>21, <1>22, <1>23, <1>24, <1>25
  DEF Next, Main, Monitor

\* The invariant holds in every reachable state.
THEOREM Invariant == Spec => []IInv
<1>1. Init => IInv
  BY InvInit
<1>2. IInv /\ [Next]_vars => IInv'
  BY TypeNext, KnowledgeNext DEF IInv
<1> QED BY <1>1, <1>2, PTL DEF Spec

\* Each variable holds values of its kind.
THEOREM ContainerTypes == Spec => []TypeOK
<1>1. IInv => TypeOK
  BY DEF IInv
<1> QED BY <1>1, Invariant, PTL

\* Two schedulers never run at once (monitor_scheduler and start_scheduler of
\* entrypoint.sh, and the restart of the container).
THEOREM NeverTwoSchedulers == Spec => []OneScheduler
<1>1. IInv => OneScheduler
  BY InvImplies
<1> QED BY <1>1, Invariant, PTL

\* No scheduler is left when cleanup exits, unless the monitor was killed after
\* it had forked one and before it wrote the file.
THEOREM CleanupLeavesNone == Spec => []CleanupReachesTheScheduler
<1>1. IInv => CleanupReachesTheScheduler
  BY InvImplies
<1> QED BY <1>1, Invariant, PTL
===============================================================================
