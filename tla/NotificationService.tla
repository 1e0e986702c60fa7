------------------------ MODULE NotificationService ------------------------
(***************************************************************************)
(* services/notifications: how one process sends its notices.  Callers get *)
(* the service, a singleton that is made under a lock by the first to ask, *)
(* and hand their notice over to its pool of threads, made in the same     *)
(* way, once for each provider.  The pool sends.  The process may end      *)
(* orderly, while callers are still at work, or be killed.                 *)
(***************************************************************************)
EXTENDS Naturals, Sequences, FiniteSets, SequencesExt

CONSTANTS
  Thread,      \* the threads of the process that have a notice to send
  Provider,    \* the providers _load_providers knows
  MaxWorkers,  \* threads of one pool
  Event,       \* the kinds of notice: failure, success, connection lost
  NotifyOn     \* the kinds whose NOTIFY_ON_ switch is on

ASSUME NotificationAssumption ==
  /\ MaxWorkers \in Nat \ {0}
  /\ NotifyOn \subseteq Event
  /\ "none" \notin Thread

VARIABLES
  environment,   \* what the environment says of each provider
  pc,        \* the statement each thread executes next
  event,     \* the kind of its notice
  todo,      \* the providers its loop has not come to
  mine,      \* the service it was given
  service,   \* _service: the thread that made it
  serviceLock,
  executor,  \* _executor of each service: the thread that made the pool
  executorLock,
  queue,     \* the calls each pool has to make
  sending,   \* the calls its threads are making
  tried,     \* how often each notice was sent to each provider
  received,  \* how often it got there
  process,   \* what has become of the process
  late       \* history: the threads whose hand-over was refused

callerVars == <<pc, todo, mine>>
serviceVars == <<service, serviceLock>>
poolVars == <<executor, executorLock>>
workVars == <<queue, sending, tried, received>>
vars == <<environment, event, callerVars, serviceVars, poolVars, workVars, process, late>>

Call == Thread \X Provider

\* _load_providers: one that is enabled without what it needs is left out.  Their order
\* is abstracted: a loop over them takes any that is left.
providers == {p \in Provider : environment[p] = "usable"}

\* should_notify
ShouldNotify(e) == providers # {} /\ e \in NotifyOn

Init ==
  /\ environment \in [Provider -> {"off", "incomplete", "usable"}]
  /\ pc = [t \in Thread |-> "idle"]
  /\ event \in [Thread -> Event]
  /\ todo = [t \in Thread |-> {}]
  /\ mine = [t \in Thread |-> "none"]
  /\ service = "none"
  /\ serviceLock = "none"
  /\ executor = [s \in Thread |-> "none"]
  /\ executorLock = [s \in Thread |-> "none"]
  /\ queue = [x \in Thread |-> <<>>]
  /\ sending = [x \in Thread |-> {}]
  /\ tried = [k \in Call |-> 0]
  /\ received = [k \in Call |-> 0]
  /\ process = "up"
  /\ late = {}

Alive == process \in {"up", "draining"}

At(t, label) == Alive /\ pc[t] = label
Goto(t, label) == pc' = [pc EXCEPT ![t] = label]

Static == UNCHANGED <<environment, event>>

-----------------------------------------------------------------------------
(* A caller.                                                               *)

Begin(t) ==
  /\ At(t, "idle")
  /\ Goto(t, "check_service")
  /\ Static
  /\ UNCHANGED <<todo, mine, serviceVars, poolVars, workVars, process, late>>

\* The fast path reads _service without the lock.
CheckService(t) ==
  /\ At(t, "check_service")
  /\ IF service = "none"
       THEN Goto(t, "lock_service") /\ UNCHANGED mine
       ELSE Goto(t, "send") /\ mine' = [mine EXCEPT ![t] = service]
  /\ Static
  /\ UNCHANGED <<todo, serviceVars, poolVars, workVars, process, late>>

\* Mutant: nothing waits for the lock.
LockServiceAtOnce(t) ==
  /\ At(t, "lock_service")
  /\ serviceLock' = t
  /\ Goto(t, "recheck_service")
  /\ Static
  /\ UNCHANGED <<todo, mine, service, poolVars, workVars, process, late>>

LockService(t) ==
  /\ At(t, "lock_service")
  /\ serviceLock = "none"
  /\ serviceLock' = t
  /\ Goto(t, "recheck_service")
  /\ Static
  /\ UNCHANGED <<todo, mine, service, poolVars, workVars, process, late>>

\* The double check; leaving the block releases the lock.
RecheckService(t) ==
  /\ At(t, "recheck_service")
  /\ IF service = "none"
       THEN Goto(t, "new_service") /\ UNCHANGED <<mine, serviceLock>>
       ELSE /\ Goto(t, "send")
            /\ mine' = [mine EXCEPT ![t] = service]
            /\ serviceLock' = "none"
  /\ Static
  /\ UNCHANGED <<todo, service, poolVars, workVars, process, late>>

\* Mutant: acquire() instead of "with", and no release.
NewServiceKeepLock(t) ==
  /\ At(t, "new_service")
  /\ service' = t
  /\ mine' = [mine EXCEPT ![t] = t]
  /\ Goto(t, "send")
  /\ Static
  /\ UNCHANGED <<todo, serviceLock, poolVars, workVars, process, late>>

\* NotificationService() and the release.  The settings are loaded here: their own lock is
\* only ever taken by a thread that holds this one.
NewService(t) ==
  /\ At(t, "new_service")
  /\ service' = t
  /\ mine' = [mine EXCEPT ![t] = t]
  /\ serviceLock' = "none"
  /\ Goto(t, "send")
  /\ Static
  /\ UNCHANGED <<todo, poolVars, workVars, process, late>>

SendNotification(t) ==
  /\ At(t, "send")
  /\ IF ShouldNotify(event[t])
       THEN Goto(t, "loop") /\ todo' = [todo EXCEPT ![t] = providers]
       ELSE Goto(t, "done") /\ UNCHANGED todo
  /\ Static
  /\ UNCHANGED <<mine, serviceVars, poolVars, workVars, process, late>>

\* The property "executor": its fast path, once for each provider.
NextProvider(t) ==
  /\ At(t, "loop")
  /\ Goto(t, IF todo[t] = {} THEN "done"
             ELSE IF executor[mine[t]] = "none" THEN "lock_executor" ELSE "submit")
  /\ Static
  /\ UNCHANGED <<todo, mine, serviceVars, poolVars, workVars, process, late>>

LockExecutor(t) ==
  /\ At(t, "lock_executor")
  /\ executorLock[mine[t]] = "none"
  /\ executorLock' = [executorLock EXCEPT ![mine[t]] = t]
  /\ Goto(t, "recheck_executor")
  /\ Static
  /\ UNCHANGED <<todo, mine, serviceVars, executor, workVars, process, late>>

RecheckExecutor(t) ==
  /\ At(t, "recheck_executor")
  /\ IF executor[mine[t]] = "none"
       THEN Goto(t, "new_executor") /\ UNCHANGED executorLock
       ELSE /\ Goto(t, "submit")
            /\ executorLock' = [executorLock EXCEPT ![mine[t]] = "none"]
  /\ Static
  /\ UNCHANGED <<todo, mine, serviceVars, executor, workVars, process, late>>

\* The pool, its exit handler and the release.
NewExecutor(t) ==
  /\ At(t, "new_executor")
  /\ executor' = [executor EXCEPT ![mine[t]] = t]
  /\ executorLock' = [executorLock EXCEPT ![mine[t]] = "none"]
  /\ Goto(t, "submit")
  /\ Static
  /\ UNCHANGED <<todo, mine, serviceVars, workVars, process, late>>

\* Mutant: the loop is left after the first provider.
SubmitOnce(t) ==
  /\ At(t, "submit")
  /\ process = "up"
  /\ \E p \in todo[t] :
       /\ queue' = [queue EXCEPT ![executor[mine[t]]] = Append(@, <<t, p>>)]
       /\ todo' = [todo EXCEPT ![t] = {}]
  /\ Goto(t, "loop")
  /\ Static
  /\ UNCHANGED <<mine, serviceVars, poolVars, sending, tried, received, process, late>>

Submit(t) ==
  /\ At(t, "submit")
  /\ process = "up"
  /\ \E p \in todo[t] :
       /\ queue' = [queue EXCEPT ![executor[mine[t]]] = Append(@, <<t, p>>)]
       /\ todo' = [todo EXCEPT ![t] = @ \ {p}]
  /\ Goto(t, "loop")
  /\ Static
  /\ UNCHANGED <<mine, serviceVars, poolVars, sending, tried, received, process, late>>

\* Mutant: what submit() raises is not caught.
SubmitRaises(t) ==
  /\ At(t, "submit")
  /\ process = "draining"
  /\ late' = late \cup {t}
  /\ Goto(t, "raised")
  /\ Static
  /\ UNCHANGED <<todo, mine, serviceVars, poolVars, workVars, process>>

\* submit() raises after interpreter shutdown; safe_send_notification catches it.
SubmitRefused(t) ==
  /\ At(t, "submit")
  /\ process = "draining"
  /\ late' = late \cup {t}
  /\ Goto(t, "done")
  /\ Static
  /\ UNCHANGED <<todo, mine, serviceVars, poolVars, workVars, process>>

CallerStep(t) ==
  \/ CheckService(t) \/ LockService(t) \/ RecheckService(t) \/ NewService(t)
  \/ SendNotification(t) \/ NextProvider(t)
  \/ LockExecutor(t) \/ RecheckExecutor(t) \/ NewExecutor(t)
  \/ Submit(t) \/ SubmitRefused(t)

-----------------------------------------------------------------------------
(* The pool of threads, and the process.                                   *)

Take(x) ==
  /\ Alive
  /\ queue[x] # <<>>
  /\ Cardinality(sending[x]) < MaxWorkers
  /\ sending' = [sending EXCEPT ![x] = @ \cup {Head(queue[x])}]
  /\ queue' = [queue EXCEPT ![x] = Tail(@)]
  /\ Static
  /\ UNCHANGED <<callerVars, serviceVars, poolVars, tried, received, process, late>>

\* Mutant: what failed is submitted again.
SendAgainOnFailure(x) ==
  /\ Alive
  /\ \E k \in sending[x], got, ok \in BOOLEAN :
       /\ ok => got
       /\ tried' = [tried EXCEPT ![k] = IF @ = 2 THEN 2 ELSE @ + 1]
       /\ received' = [received EXCEPT ![k] = IF got /\ @ < 2 THEN @ + 1 ELSE @]
       /\ sending' = [sending EXCEPT ![x] = @ \ {k}]
       /\ queue' = [queue EXCEPT ![x] = IF ok THEN @ ELSE Append(@, k)]
  /\ Static
  /\ UNCHANGED <<callerVars, serviceVars, poolVars, process, late>>

\* The provider's answer is a status, or the request raises, and then the notice may
\* have got there or not.  Either way _send_to_provider logs it and is done.
SendToProvider(x) ==
  /\ Alive
  /\ \E k \in sending[x] :
       /\ tried' = [tried EXCEPT ![k] = @ + 1]
       /\ received' \in {received, [received EXCEPT ![k] = @ + 1]}
       /\ sending' = [sending EXCEPT ![x] = @ \ {k}]
  /\ Static
  /\ UNCHANGED <<callerVars, serviceVars, poolVars, queue, process, late>>

\* The main thread returns, or an exception ends it while jobs are running in theirs.
Exit ==
  /\ process = "up"
  /\ process' = "draining"
  /\ Static
  /\ UNCHANGED <<callerVars, serviceVars, poolVars, workVars, late>>

\* The interpreter waits for the threads of all pools; _shutdown runs after that.
Shutdown ==
  /\ process = "draining"
  /\ \A t \in Thread : pc[t] \in {"idle", "done"}
  /\ \A x \in Thread : queue[x] = <<>> /\ sending[x] = {}
  /\ process' = "ended"
  /\ executor' = [s \in Thread |-> "none"]
  /\ Static
  /\ UNCHANGED <<callerVars, serviceVars, executorLock, workVars, late>>

\* SIGTERM for the scheduler, SIGKILL for any: the queue is gone.
Kill ==
  /\ Alive
  /\ process' = "killed"
  /\ Static
  /\ UNCHANGED <<callerVars, serviceVars, poolVars, workVars, late>>

Next ==
  \/ \E t \in Thread : Begin(t) \/ CallerStep(t)
  \/ \E x \in Thread : Take(x) \/ SendToProvider(x)
  \/ Exit \/ Shutdown \/ Kill

Spec == Init /\ [][Next]_vars

\* Requests have a timeout of ten seconds, so a thread of the pool comes back too.
FairSpec ==
  /\ Spec
  /\ \A t \in Thread : WF_vars(CallerStep(t))
  /\ \A x \in Thread : WF_vars(Take(x)) /\ WF_vars(SendToProvider(x))
  /\ WF_vars(Shutdown)

-----------------------------------------------------------------------------
Label == {"idle", "check_service", "lock_service", "recheck_service", "new_service", "send",
          "loop", "lock_executor", "recheck_executor", "new_executor", "submit", "done"}

\* Each variable holds values of its kind.
TypeOK ==
  /\ environment \in [Provider -> {"off", "incomplete", "usable"}]
  /\ pc \in [Thread -> Label]
  /\ event \in [Thread -> Event]
  /\ todo \in [Thread -> SUBSET Provider]
  /\ mine \in [Thread -> Thread \cup {"none"}]
  /\ service \in Thread \cup {"none"}
  /\ serviceLock \in Thread \cup {"none"}
  /\ executor \in [Thread -> Thread \cup {"none"}]
  /\ executorLock \in [Thread -> Thread \cup {"none"}]
  /\ queue \in [Thread -> Seq(Call)]
  /\ sending \in [Thread -> SUBSET Call]
  /\ tried \in [Call -> 0 .. 2]
  /\ received \in [Call -> 0 .. 2]
  /\ process \in {"up", "draining", "ended", "killed"}
  /\ late \subseteq Thread

\* The process never makes more than MaxWorkers requests to providers at a time: however
\* callers race for the singletons, there is one service and one pool.
OnePool == Cardinality(UNION Range(sending)) <= MaxWorkers

Wanted(t, p) == event[t] \in NotifyOn /\ p \in providers

Pending(k) == \E x \in Thread : k \in sending[x] \/ Contains(queue[x], k)

\* A notice handed over in time is sent exactly once to every usable provider before an
\* orderly end of the process, and until then is in the pool; only a kill loses it.
\* Nothing goes to a provider that is off, or about an event nobody asked for.
NothingIsDropped ==
  \A t \in Thread, p \in Provider :
    /\ pc[t] = "done" /\ t \notin late /\ Wanted(t, p) /\ process # "killed" =>
         IF process = "ended" \/ ~Pending(<<t, p>>) THEN tried[<<t, p>>] = 1
                                                    ELSE tried[<<t, p>>] = 0
    /\ tried[<<t, p>>] # 0 => pc[t] # "idle" /\ Wanted(t, p)

\* A provider gets a notice at most once, although the answers to it may be lost.
ReceivedOnce == \A k \in Call : received[k] <= 1

pendingCalls == {k \in Call : Pending(k)}
sentCalls == {k \in Call : tried[k] # 0}
deliveredCalls == {k \in Call : received[k] # 0}

Outbox == INSTANCE NoticeOutbox
  WITH pending <- pendingCalls, sent <- sentCalls, delivered <- deliveredCalls

\* services/notifications keeps the promise of an outbox: a call is handed over once, by
\* the one caller whose notice it is, and leaves the pool when it was made, not before,
\* and for good; the process ends when the outbox is empty.
ImplementsOutbox == Outbox!Spec

\* The callers come back, whatever the providers and the other callers do.
CallersReturn ==
  \A t \in Thread : pc[t] = "check_service" ~> pc[t] = "done" \/ process = "killed"

\* The pool gets rid of what was handed over, although providers fail: a notice that
\* cannot be sent does not stay in the way of others, nor of the end of the process.
PoolKeepsGoing ==
  \A k \in Call : Pending(k) ~> ~Pending(k) \/ process = "killed"
=============================================================================
