------------------------------ MODULE Container ------------------------------
(***************************************************************************)
(* entrypoint.sh: the main shell starts the processes and waits for        *)
(* gunicorn, a subshell watches the scheduler, and a trap cleans up.  The  *)
(* first command it runs may have to create the secret key of              *)
(* config/settings.py.                                                     *)
(*                                                                         *)
(* Docker starts a container again when it ends, unless an operator        *)
(* stopped it; what it wrote (the PID file, the key file) stays.  How long *)
(* the monitor sleeps is abstracted, and with it the back-off.  `uv run`   *)
(* and the process it runs are one process, and a process counts as ended  *)
(* once it has its SIGTERM: neither has a handler that starts new work.    *)
(***************************************************************************)
EXTENDS Naturals, FiniteSets

CONSTANTS
  Pid,          \* process ids a scheduler may get
  NoPid,
  MaxRestarts,  \* MAX_RESTARTS
  MaxFaults     \* bound on failed commands and killed containers

ASSUME ContainerAssumption ==
  /\ NoPid \notin Pid
  /\ MaxRestarts \in Nat
  /\ MaxFaults \in Nat

VARIABLES
  main,        \* the line the main shell is at
  started,     \* SCHEDULER_PID of the main shell
  target,      \* scheduler_pid of cleanup
  monitor,     \* the line the monitor's subshell is at
  watched,     \* SCHEDULER_PID of the subshell
  restarts,    \* restart_count
  schedulers,  \* the live scheduler processes
  gunicorn,    \* gunicorn runs
  pidfile,     \* the content of SCHEDULER_PID_FILE
  key,         \* the secret key: of the environment, or the state of its file
  stopped,     \* an operator stopped the container
  faults,
  missed       \* history: the monitor was killed between its fork and its write

mainVars == <<main, started, target>>
monitorVars == <<monitor, watched, restarts, missed>>
processVars == <<schedulers, gunicorn>>
fileVars == <<pidfile, key>>
dockerVars == <<stopped, faults>>
vars == <<mainVars, monitorVars, processVars, fileVars, dockerVars>>

\* The lines before the trap is set, those after, and those of cleanup.
Preparing == {"key", "write_key", "migrate", "discover", "scheduler", "write_pid"}
Trapped == {"gunicorn", "monitor", "wait"}
CleaningUp == {"kill_monitor", "read_file", "kill_scheduler", "kill_gunicorn", "exit"}

Init ==
  /\ main = "down" /\ started = NoPid /\ target = NoPid
  /\ monitor = "off" /\ watched = NoPid /\ restarts = 0 /\ missed = FALSE
  /\ schedulers = {} /\ gunicorn = FALSE
  /\ pidfile = NoPid /\ key \in {"environment", "absent"}
  /\ stopped = FALSE /\ faults = 0

-----------------------------------------------------------------------------
(* Docker.                                                                 *)

\* The container ends with its first process, and every other process with it.
End ==
  /\ main' = "down" /\ started' = NoPid /\ target' = NoPid
  /\ monitor' = "off" /\ watched' = NoPid /\ restarts' = 0 /\ missed' = FALSE
  /\ schedulers' = {} /\ gunicorn' = FALSE

Fault == faults < MaxFaults /\ faults' = faults + 1

DockerRestarts ==
  /\ main = "down"
  /\ ~stopped
  /\ main' = "key"
  /\ UNCHANGED <<started, target, monitorVars, processVars, fileVars, dockerVars>>

OperatorStarts ==
  /\ main = "down"
  /\ stopped
  /\ stopped' = FALSE
  /\ main' = "key"
  /\ UNCHANGED <<started, target, monitorVars, processVars, fileVars, faults>>

\* A power cut, or a stop that was not answered in time.
Killed ==
  /\ main # "down"
  /\ Fault
  /\ End
  /\ stopped' \in BOOLEAN
  /\ UNCHANGED fileVars

-----------------------------------------------------------------------------
(* The main shell.                                                         *)

Proceed(from, to) == main = from /\ main' = to

\* get_or_create_secret_key: O_CREAT | O_EXCL creates the file empty.
GetKey ==
  /\ IF key = "absent" THEN Proceed("key", "write_key") /\ key' = "empty"
                       ELSE Proceed("key", "migrate") /\ UNCHANGED key
  /\ UNCHANGED <<started, target, monitorVars, processVars, pidfile, dockerVars>>

WriteKey ==
  /\ Proceed("write_key", "migrate")
  /\ key' = "written"
  /\ UNCHANGED <<started, target, monitorVars, processVars, pidfile, dockerVars>>

Prepare ==
  /\ Proceed("migrate", "discover") \/ Proceed("discover", "scheduler")
  /\ UNCHANGED <<started, target, monitorVars, processVars, fileVars, dockerVars>>

\* set -e: the script ends with the first command that fails.
PrepareFails ==
  /\ main \in {"write_key", "migrate", "discover"}
  /\ Fault
  /\ End
  /\ UNCHANGED <<fileVars, stopped>>

\* A process id is not given again while the monitor looks for it.
NewPids == Pid \ (schedulers \cup {watched})

StartScheduler ==
  /\ Proceed("scheduler", "write_pid")
  /\ \E p \in NewPids : schedulers' = schedulers \cup {p} /\ started' = p
  /\ UNCHANGED <<target, monitorVars, gunicorn, fileVars, dockerVars>>

WritePid ==
  /\ Proceed("write_pid", "gunicorn")
  /\ pidfile' = started
  /\ UNCHANGED <<started, target, monitorVars, processVars, key, dockerVars>>

StartGunicorn ==
  /\ Proceed("gunicorn", "monitor")
  /\ gunicorn' = TRUE
  /\ UNCHANGED <<started, target, monitorVars, schedulers, fileVars, dockerVars>>

\* The subshell inherits the variables of its parent.
StartMonitor ==
  /\ Proceed("monitor", "wait")
  /\ monitor' = "look"
  /\ watched' = started
  /\ UNCHANGED <<started, target, restarts, missed, processVars, fileVars, dockerVars>>

GunicornEnded ==
  /\ main = "wait"
  /\ ~gunicorn
  /\ End
  /\ UNCHANGED <<fileVars, dockerVars>>

-----------------------------------------------------------------------------
(* monitor_scheduler.                                                      *)

\* Mutant: restart_count is not compared with MAX_RESTARTS.
LookForEver ==
  /\ monitor = "look"
  /\ IF watched \in schedulers
       THEN restarts' = 0 /\ UNCHANGED monitor
       ELSE restarts' = restarts + 1 /\ monitor' = "fork"
  /\ UNCHANGED <<mainVars, watched, missed, processVars, fileVars, dockerVars>>

\* kill -0; the count starts again with each healthy look.
Look ==
  /\ monitor = "look"
  /\ IF watched \in schedulers
       THEN restarts' = 0 /\ UNCHANGED monitor
       ELSE /\ restarts' = restarts + 1
            /\ monitor' = IF restarts' > MaxRestarts THEN "give_up" ELSE "fork"
  /\ UNCHANGED <<mainVars, watched, missed, processVars, fileVars, dockerVars>>

\* Mutant: start_scheduler in a subshell, whose SCHEDULER_PID is lost.
ForkInSubshell ==
  /\ monitor = "fork"
  /\ monitor' = "write"
  /\ \E p \in NewPids : schedulers' = schedulers \cup {p}
  /\ UNCHANGED <<mainVars, watched, restarts, missed, gunicorn, fileVars, dockerVars>>

Fork ==
  /\ monitor = "fork"
  /\ monitor' = "write"
  /\ \E p \in NewPids : schedulers' = schedulers \cup {p} /\ watched' = p
  /\ UNCHANGED <<mainVars, restarts, missed, gunicorn, fileVars, dockerVars>>

WriteNewPid ==
  /\ monitor = "write"
  /\ monitor' = "look"
  /\ pidfile' = watched
  /\ UNCHANGED <<mainVars, watched, restarts, missed, processVars, key, dockerVars>>

\* Mutant: the monitor returns and leaves gunicorn alone.
ReturnOnly ==
  /\ monitor = "give_up"
  /\ monitor' = "off"
  /\ UNCHANGED <<mainVars, watched, restarts, missed, processVars, fileVars, dockerVars>>

\* Killing gunicorn ends the main shell's wait, and so the container.
GiveUp ==
  /\ monitor = "give_up"
  /\ monitor' = "off"
  /\ gunicorn' = FALSE
  /\ UNCHANGED <<mainVars, watched, restarts, missed, schedulers, fileVars, dockerVars>>

-----------------------------------------------------------------------------
(* cleanup.                                                                *)

\* SIGTERM or SIGINT; before the trap is set the first process ignores them.
Signal ==
  /\ main \in Trapped
  /\ main' = "kill_monitor"
  /\ stopped' \in BOOLEAN
  /\ UNCHANGED <<started, target, monitorVars, processVars, fileVars, faults>>

KillMonitor ==
  /\ Proceed("kill_monitor", "read_file")
  /\ missed' = (monitor = "write")
  /\ monitor' = "off"
  /\ UNCHANGED <<started, target, watched, restarts, processVars, fileVars, dockerVars>>

\* Mutant: the main shell's own SCHEDULER_PID.
ReadVariable ==
  /\ Proceed("read_file", "kill_scheduler")
  /\ target' = started
  /\ UNCHANGED <<started, monitorVars, processVars, fileVars, dockerVars>>

ReadFile ==
  /\ Proceed("read_file", "kill_scheduler")
  /\ target' = pidfile
  /\ UNCHANGED <<started, monitorVars, processVars, fileVars, dockerVars>>

\* The waits of lines 75 and 76 are part of the two kills.
KillScheduler ==
  /\ Proceed("kill_scheduler", "kill_gunicorn")
  /\ schedulers' = schedulers \ {target}
  /\ UNCHANGED <<started, target, monitorVars, gunicorn, fileVars, dockerVars>>

KillGunicorn ==
  /\ Proceed("kill_gunicorn", "exit")
  /\ gunicorn' = FALSE
  /\ UNCHANGED <<started, target, monitorVars, schedulers, fileVars, dockerVars>>

Exit ==
  /\ main = "exit"
  /\ End
  /\ UNCHANGED <<fileVars, dockerVars>>

-----------------------------------------------------------------------------

SchedulerDies ==
  /\ \E p \in schedulers : schedulers' = schedulers \ {p}
  /\ UNCHANGED <<mainVars, monitorVars, gunicorn, fileVars, dockerVars>>

GunicornDies ==
  /\ gunicorn
  /\ gunicorn' = FALSE
  /\ UNCHANGED <<mainVars, monitorVars, schedulers, fileVars, dockerVars>>

Main ==
  \/ GetKey \/ WriteKey \/ Prepare \/ StartScheduler \/ WritePid
  \/ StartGunicorn \/ StartMonitor \/ GunicornEnded
  \/ KillMonitor \/ ReadFile \/ KillScheduler \/ KillGunicorn \/ Exit

Monitor == Look \/ Fork \/ WriteNewPid \/ GiveUp

Next ==
  \/ Main \/ Monitor
  \/ DockerRestarts \/ OperatorStarts \/ Killed \/ PrepareFails
  \/ Signal \/ SchedulerDies \/ GunicornDies

Spec == Init /\ [][Next]_vars

\* The shells are scheduled, sleeps end, and Docker follows its restart policy.
\* Processes may die as often as they like.
Fairness == WF_vars(Main) /\ WF_vars(Monitor) /\ WF_vars(DockerRestarts)

FairSpec == Spec /\ Fairness

-----------------------------------------------------------------------------
\* Each variable holds values of its kind.
TypeOK ==
  /\ main \in {"down"} \cup Preparing \cup Trapped \cup CleaningUp
  /\ started \in Pid \cup {NoPid} /\ target \in Pid \cup {NoPid}
  /\ monitor \in {"off", "look", "fork", "write", "give_up"}
  /\ watched \in Pid \cup {NoPid}
  /\ restarts \in 0 .. MaxRestarts + 1
  /\ missed \in BOOLEAN
  /\ schedulers \subseteq Pid /\ gunicorn \in BOOLEAN
  /\ pidfile \in Pid \cup {NoPid}
  /\ key \in {"environment", "absent", "empty", "written"}
  /\ stopped \in BOOLEAN
  /\ faults \in 0 .. MaxFaults

\* Whatever dies, two schedulers never run at once: the locks and the
\* max_instances=1 of runapscheduler hold within one process only.
OneScheduler == Cardinality(schedulers) <= 1

\* entrypoint.sh:14 "cleanup() reads this file to always signal the live process":
\* no scheduler is left when the script exits, unless the monitor was killed after
\* it had forked one and before it wrote the file.
CleanupReachesTheScheduler == main = "exit" => schedulers = {} \/ missed

\* A scheduler that dies, at once and every time included, is started again by the
\* monitor or by Docker, for as long as no operator stops the container.
SchedulerComesBack == []<>(schedulers # {} \/ stopped)

-----------------------------------------------------------------------------
\* config/settings.py:22 "generate and persist one (atomic)": no process goes on
\* with a key file that is still empty.
KeyIsUsable == key = "empty" => main \in {"down", "key", "write_key"}
=============================================================================
