--------------------- MODULE NotificationService_proofs ---------------------
(***************************************************************************)
(* One service and one pool, however callers race for them, and no notice  *)
(* dropped, for any number of threads and providers.                       *)
(***************************************************************************)
EXTENDS NotificationService, TLAPS, FiniteSetTheorems, SequenceTheorems

InService == {"recheck_service", "new_service"}
InExecutor == {"recheck_executor", "new_executor"}
Handing == {"loop", "lock_executor", "submit"} \cup InExecutor

\* Each lock is held by the one thread that is in its block, and what that thread found
\* missing is missing until it makes it.
LocksExclude ==
  \A t \in Thread :
    /\ pc[t] \in InService <=> serviceLock = t
    /\ pc[t] = "new_service" => service = "none"
    /\ pc[t] \in InExecutor => executorLock[mine[t]] = t
    /\ pc[t] = "new_executor" => executor[mine[t]] = "none"

\* There is one service, and only it has a pool.
OneService ==
  /\ \A t \in Thread :
       /\ mine[t] \in {"none", service}
       /\ pc[t] \in {"send"} \cup Handing => mine[t] # "none"
       /\ pc[t] = "submit" => executor[mine[t]] # "none"
  /\ \A s \in Thread : executor[s] # "none" => s = service

\* Only that pool has work, never more than its threads can do.
OnePoolWorks ==
  \A x \in Thread :
    /\ queue[x] # <<>> \/ sending[x] # {} => service # "none" /\ x = executor[service]
    /\ IsFiniteSet(sending[x]) /\ Cardinality(sending[x]) <= MaxWorkers

PoolInv ==
  /\ TypeOK
  /\ LocksExclude
  /\ OneService
  /\ OnePoolWorks

InPool(k) == \E x \in Thread : k \in sending[x] \/ k \in ToSet(queue[x])

Offered(t, p) == Wanted(t, p) /\ pc[t] \in Handing \cup {"done"} /\ p \notin todo[t]

\* A call is in one place only: still to be handed over, queued, in a thread's hands, or
\* made.
CallsAreInOnePlace ==
  /\ \A x \in Thread :
       /\ IsInjective(queue[x])
       /\ ToSet(queue[x]) \cap sending[x] = {}
  /\ \A t \in Thread, p \in Provider :
       LET k == <<t, p>> IN
       /\ InPool(k) \/ tried[k] # 0 => Offered(t, p)
       /\ InPool(k) => tried[k] = 0
       /\ tried[k] \in {0, 1} /\ received[k] <= tried[k]

\* What a caller has gone past was handed over, and it goes past everything.
CallersHandOver ==
  /\ \A t \in Thread, p \in Provider :
       Offered(t, p) /\ t \notin late => InPool(<<t, p>>) \/ tried[<<t, p>>] = 1
  /\ \A t \in Thread :
       /\ todo[t] \subseteq providers
       /\ pc[t] \notin Handing /\ t \notin late => todo[t] = {}
       /\ pc[t] \in Handing => event[t] \in NotifyOn
       /\ pc[t] \in Handing \ {"loop"} => todo[t] # {}
       /\ t \in late => pc[t] = "done"

\* An orderly end leaves nothing behind.
EndIsOrderly ==
  process = "ended" =>
    /\ \A t \in Thread : pc[t] \in {"idle", "done"}
    /\ \A x \in Thread : queue[x] = <<>> /\ sending[x] = {}

NoticeInv ==
  /\ CallsAreInOnePlace
  /\ CallersHandOver
  /\ EndIsOrderly

-----------------------------------------------------------------------------

\* What Append and Tail do to the elements of a queue.
LEMMA QueueElements ==
  ASSUME NEW S, NEW q \in Seq(S)
  PROVE  /\ ToSet(<<>>) = {} /\ IsInjective(<<>>)
         /\ \A e \in S :
              /\ Append(q, e) \in Seq(S) /\ Append(q, e) # <<>>
              /\ ToSet(Append(q, e)) = ToSet(q) \cup {e}
              /\ IsInjective(q) /\ e \notin ToSet(q) => IsInjective(Append(q, e))
         /\ q # <<>> =>
              /\ Head(q) \in S /\ Tail(q) \in Seq(S)
              /\ ToSet(q) = ToSet(Tail(q)) \cup {Head(q)}
              /\ IsInjective(q) => IsInjective(Tail(q)) /\ Head(q) \notin ToSet(Tail(q))
<1>1. ToSet(<<>>) = {} /\ IsInjective(<<>>)
  BY DEF ToSet, IsInjective
<1>2. ASSUME NEW e \in S
      PROVE  /\ Append(q, e) \in Seq(S) /\ Append(q, e) # <<>>
             /\ ToSet(Append(q, e)) = ToSet(q) \cup {e}
             /\ IsInjective(q) /\ e \notin ToSet(q) => IsInjective(Append(q, e))
  <2> DEFINE r == Append(q, e)
  <2>1. /\ r \in Seq(S) /\ r # <<>> /\ Len(r) = Len(q) + 1
        /\ \A i \in 1 .. Len(q) : r[i] = q[i]
        /\ r[Len(q) + 1] = e
    BY AppendProperties
  <2>2. DOMAIN r = 1 .. Len(q) + 1 /\ DOMAIN q = 1 .. Len(q) /\ Len(q) \in Nat
    BY <2>1, LenProperties
  <2> HIDE DEF r
  <2>3. ToSet(r) = ToSet(q) \cup {e}
    BY <2>1, <2>2 DEF ToSet
  <2>4. IsInjective(q) /\ e \notin ToSet(q) => IsInjective(r)
    BY <2>1, <2>2 DEF ToSet, IsInjective
  <2> QED BY <2>1, <2>3, <2>4 DEF r
<1>3. ASSUME q # <<>>
      PROVE  /\ Head(q) \in S /\ Tail(q) \in Seq(S)
             /\ ToSet(q) = ToSet(Tail(q)) \cup {Head(q)}
             /\ IsInjective(q) => IsInjective(Tail(q)) /\ Head(q) \notin ToSet(Tail(q))
  <2> DEFINE h == Head(q)
             r == Tail(q)
  <2>1. /\ h \in S /\ r \in Seq(S) /\ Len(r) = Len(q) - 1
        /\ \A i \in 1 .. Len(r) : r[i] = q[i + 1]
    BY <1>3, HeadTailProperties
  <2>2. h = q[1]
    BY <1>3
  <2>3. DOMAIN r = 1 .. Len(r) /\ DOMAIN q = 1 .. Len(q) /\ Len(q) \in Nat \ {0}
    BY <1>3, <2>1, LenProperties, EmptySeq
  <2> HIDE DEF h, r
  <2>4. \A i \in 2 .. Len(q) : i - 1 \in DOMAIN r /\ q[i] = r[i - 1]
    BY <2>1, <2>3
  <2>5. ToSet(q) = ToSet(r) \cup {h}
    <3>1. \A i \in DOMAIN q : q[i] \in {r[j] : j \in DOMAIN r} \cup {h}
      <4> SUFFICES ASSUME NEW i \in DOMAIN q, i # 1
                   PROVE  q[i] \in {r[j] : j \in DOMAIN r}
        BY <2>2
      <4> QED BY <2>3, <2>4
    <3>2. \A j \in DOMAIN r : r[j] \in {q[i] : i \in DOMAIN q}
      BY <2>1, <2>3
    <3>3. h \in {q[i] : i \in DOMAIN q}
      BY <2>2, <2>3
    <3> QED BY <3>1, <3>2, <3>3 DEF ToSet
  <2>6. IsInjective(q) => IsInjective(r) /\ h \notin ToSet(r)
    <3> SUFFICES ASSUME IsInjective(q)
                 PROVE  IsInjective(r) /\ h \notin ToSet(r)
      OBVIOUS
    <3>1. \A a, b \in DOMAIN r : a + 1 \in DOMAIN q /\ (a + 1 = b + 1 => a = b)
      BY <2>1, <2>3
    <3>2. IsInjective(r)
      BY <2>1, <2>3, <3>1 DEF IsInjective
    <3>3. \A a \in DOMAIN r : 1 \in DOMAIN q /\ a + 1 # 1
      BY <2>3
    <3>4. h \notin ToSet(r)
      BY <2>1, <2>2, <2>3, <3>1, <3>3 DEF IsInjective, ToSet
    <3> QED BY <3>2, <3>4
  <2> QED BY <2>1, <2>5, <2>6 DEF h, r
<1> QED BY <1>1, <1>2, <1>3

\* A queue contains its elements.
LEMMA ContainsElement ==
  ASSUME NEW S, NEW q \in Seq(S), NEW e
  PROVE  Contains(q, e) <=> e \in ToSet(q)
<1>1. DOMAIN q = 1 .. Len(q)
  BY LenProperties
<1> QED BY <1>1 DEF Contains, ToSet

\* Types, and at most one call in the hands of each thread of the pool.
LEMMA TypeStep ==
  ASSUME TypeOK, CallsAreInOnePlace, [Next]_vars
  PROVE  TypeOK'
<1> USE DEF TypeOK, Goto, At, Static, callerVars, serviceVars, poolVars, workVars, vars, Label
<1>1. ASSUME NEW t \in Thread, Begin(t) \/ CheckService(t) \/ LockService(t) \/ RecheckService(t)
                                 \/ NewService(t)
      PROVE  TypeOK'
  <2>1. CASE Begin(t)
    BY <2>1 DEF Begin
  <2>2. CASE CheckService(t)
    BY <2>2 DEF CheckService
  <2>3. CASE LockService(t)
    BY <2>3 DEF LockService
  <2>4. CASE RecheckService(t)
    BY <2>4 DEF RecheckService
  <2>5. CASE NewService(t)
    BY <2>5 DEF NewService
  <2> QED BY <1>1, <2>1, <2>2, <2>3, <2>4, <2>5
<1>2. ASSUME NEW t \in Thread, SendNotification(t) \/ NextProvider(t)
      PROVE  TypeOK'
  <2>1. CASE SendNotification(t)
    <3>1. providers \in SUBSET Provider
      BY DEF providers
    <3>2. todo' \in [Thread -> SUBSET Provider]
      BY <2>1, <3>1 DEF SendNotification
    <3>3. pc' \in [Thread -> Label]
      <4>1. pc' = [pc EXCEPT ![t] = "loop"] \/ pc' = [pc EXCEPT ![t] = "done"]
        BY <2>1 DEF SendNotification
      <4> QED BY <4>1
    <3> QED BY <2>1, <3>2, <3>3 DEF SendNotification
  <2>2. CASE NextProvider(t)
    BY <2>2 DEF NextProvider
  <2> QED BY <1>2, <2>1, <2>2
<1>3. ASSUME NEW t \in Thread, LockExecutor(t) \/ RecheckExecutor(t) \/ NewExecutor(t)
                                 \/ SubmitRefused(t)
      PROVE  TypeOK'
  <2>1. CASE LockExecutor(t)
    BY <2>1 DEF LockExecutor
  <2>2. CASE RecheckExecutor(t)
    BY <2>2 DEF RecheckExecutor
  <2>3. CASE NewExecutor(t)
    BY <2>3 DEF NewExecutor
  <2>4. CASE SubmitRefused(t)
    BY <2>4 DEF SubmitRefused
  <2> QED BY <1>3, <2>1, <2>2, <2>3, <2>4
<1>4. ASSUME NEW t \in Thread, Submit(t)
      PROVE  TypeOK'
  <2> PICK p \in todo[t] :
        /\ queue' = [queue EXCEPT ![executor[mine[t]]] = Append(@, <<t, p>>)]
        /\ todo' = [todo EXCEPT ![t] = @ \ {p}]
    BY <1>4 DEF Submit
  <2>1. <<t, p>> \in Call
    BY DEF Call
  <2>2. \A x \in Thread : Append(queue[x], <<t, p>>) \in Seq(Call)
    BY <2>1, AppendProperties
  <2>3. queue' \in [Thread -> Seq(Call)] /\ todo' \in [Thread -> SUBSET Provider]
    BY <2>2
  <2> QED BY <1>4, <2>3 DEF Submit
<1>5. ASSUME NEW x \in Thread, Take(x)
      PROVE  TypeOK'
  <2>1. Head(queue[x]) \in Call /\ Tail(queue[x]) \in Seq(Call)
    BY <1>5, QueueElements DEF Take
  <2> QED BY <1>5, <2>1 DEF Take
<1>6. ASSUME NEW x \in Thread, SendToProvider(x)
      PROVE  TypeOK'
  <2> PICK k \in sending[x] :
        /\ tried' = [tried EXCEPT ![k] = @ + 1]
        /\ received' \in {received, [received EXCEPT ![k] = @ + 1]}
        /\ sending' = [sending EXCEPT ![x] = @ \ {k}]
    BY <1>6 DEF SendToProvider
  <2>1. PICK t \in Thread, p \in Provider : k = <<t, p>>
    BY DEF Call
  <2>2. tried[k] = 0 /\ received[k] = 0
    <3>1. InPool(<<t, p>>)
      BY <2>1 DEF InPool
    <3>2. tried[<<t, p>>] = 0 /\ received[<<t, p>>] <= tried[<<t, p>>]
      BY <3>1 DEF CallsAreInOnePlace
    <3>3. received[k] \in 0 .. 2
      OBVIOUS
    <3> QED BY <2>1, <3>2, <3>3
  <2>3. tried' \in [Call -> 0 .. 2]
    BY <2>2
  <2>4. [received EXCEPT ![k] = @ + 1] \in [Call -> 0 .. 2]
    BY <2>2
  <2> QED BY <1>6, <2>3, <2>4 DEF SendToProvider
<1>7. ASSUME Exit \/ Shutdown \/ Kill \/ UNCHANGED vars
      PROVE  TypeOK'
  BY <1>7 DEF Exit, Shutdown, Kill
<1> QED BY <1>1, <1>2, <1>3, <1>4, <1>5, <1>6, <1>7 DEF Next, CallerStep

\* A lock is given to one thread at a time.
LEMMA LocksStep ==
  ASSUME TypeOK, LocksExclude, OneService, [Next]_vars
  PROVE  LocksExclude'
<1> USE DEF TypeOK, LocksExclude, OneService, Goto, At, Static, callerVars, serviceVars, poolVars,
            workVars, vars, InService, InExecutor, Handing
<1>1. ASSUME NEW t \in Thread, Begin(t)
      PROVE  LocksExclude'
  BY <1>1, NotificationAssumption DEF Begin
<1>2. ASSUME NEW t \in Thread, CheckService(t)
      PROVE  LocksExclude'
  BY <1>2, NotificationAssumption DEF CheckService
<1>3. ASSUME NEW t \in Thread, LockService(t)
      PROVE  LocksExclude'
  BY <1>3, NotificationAssumption DEF LockService
<1>4. ASSUME NEW t \in Thread, RecheckService(t)
      PROVE  LocksExclude'
  BY <1>4, NotificationAssumption DEF RecheckService
<1>5. ASSUME NEW t \in Thread, NewService(t)
      PROVE  LocksExclude'
  BY <1>5, NotificationAssumption DEF NewService
<1>6. ASSUME NEW t \in Thread, SendNotification(t)
      PROVE  LocksExclude'
  BY <1>6, NotificationAssumption DEF SendNotification
<1>7. ASSUME NEW t \in Thread, NextProvider(t)
      PROVE  LocksExclude'
  BY <1>7, NotificationAssumption DEF NextProvider
<1>8. ASSUME NEW t \in Thread, LockExecutor(t)
      PROVE  LocksExclude'
  BY <1>8, NotificationAssumption DEF LockExecutor
<1>9. ASSUME NEW t \in Thread, RecheckExecutor(t)
      PROVE  LocksExclude'
  BY <1>9, NotificationAssumption DEF RecheckExecutor
<1>10. ASSUME NEW t \in Thread, NewExecutor(t)
      PROVE  LocksExclude'
  BY <1>10, NotificationAssumption DEF NewExecutor
<1>11. ASSUME NEW t \in Thread, Submit(t)
      PROVE  LocksExclude'
  BY <1>11, NotificationAssumption DEF Submit
<1>12. ASSUME NEW t \in Thread, SubmitRefused(t)
      PROVE  LocksExclude'
  BY <1>12, NotificationAssumption DEF SubmitRefused
<1>13. ASSUME NEW x \in Thread, Take(x) \/ SendToProvider(x)
      PROVE  LocksExclude'
  BY <1>13 DEF Take, SendToProvider
<1>14. CASE Exit \/ Kill \/ UNCHANGED vars
  BY <1>14 DEF Exit, Kill
<1>15. CASE Shutdown
  BY <1>15 DEF Shutdown
<1> QED BY <1>1, <1>2, <1>3, <1>4, <1>5, <1>6, <1>7, <1>8, <1>9, <1>10, <1>11, <1>12, <1>13, <1>14, <1>15 DEF Next, CallerStep

\* The service is made once, and its pool too.
LEMMA ServiceStep ==
  ASSUME TypeOK, LocksExclude, OneService, [Next]_vars
  PROVE  OneService'
<1> USE DEF TypeOK, LocksExclude, OneService, Goto, At, Static, callerVars, serviceVars, poolVars,
            workVars, vars, InService, InExecutor, Handing
<1>1. ASSUME NEW t \in Thread, Begin(t)
      PROVE  OneService'
  BY <1>1, NotificationAssumption DEF Begin
<1>2. ASSUME NEW t \in Thread, CheckService(t)
      PROVE  OneService'
  BY <1>2, NotificationAssumption DEF CheckService
<1>3. ASSUME NEW t \in Thread, LockService(t)
      PROVE  OneService'
  BY <1>3, NotificationAssumption DEF LockService
<1>4. ASSUME NEW t \in Thread, RecheckService(t)
      PROVE  OneService'
  BY <1>4, NotificationAssumption DEF RecheckService
<1>5. ASSUME NEW t \in Thread, NewService(t)
      PROVE  OneService'
  BY <1>5, NotificationAssumption DEF NewService
<1>6. ASSUME NEW t \in Thread, SendNotification(t)
      PROVE  OneService'
  BY <1>6, NotificationAssumption DEF SendNotification
<1>7. ASSUME NEW t \in Thread, NextProvider(t)
      PROVE  OneService'
  BY <1>7, NotificationAssumption DEF NextProvider
<1>8. ASSUME NEW t \in Thread, LockExecutor(t)
      PROVE  OneService'
  BY <1>8, NotificationAssumption DEF LockExecutor
<1>9. ASSUME NEW t \in Thread, RecheckExecutor(t)
      PROVE  OneService'
  BY <1>9, NotificationAssumption DEF RecheckExecutor
<1>10. ASSUME NEW t \in Thread, NewExecutor(t)
      PROVE  OneService'
  BY <1>10, NotificationAssumption DEF NewExecutor
<1>11. ASSUME NEW t \in Thread, Submit(t)
      PROVE  OneService'
  BY <1>11, NotificationAssumption DEF Submit
<1>12. ASSUME NEW t \in Thread, SubmitRefused(t)
      PROVE  OneService'
  BY <1>12, NotificationAssumption DEF SubmitRefused
<1>13. ASSUME NEW x \in Thread, Take(x) \/ SendToProvider(x)
      PROVE  OneService'
  BY <1>13 DEF Take, SendToProvider
<1>14. CASE Exit \/ Kill \/ UNCHANGED vars
  BY <1>14 DEF Exit, Kill
<1>15. CASE Shutdown
  BY <1>15 DEF Shutdown
<1> QED BY <1>1, <1>2, <1>3, <1>4, <1>5, <1>6, <1>7, <1>8, <1>9, <1>10, <1>11, <1>12, <1>13, <1>14, <1>15 DEF Next, CallerStep





\* Work comes to the one pool there is, and as much as it has threads for.
LEMMA WorksStep ==
  ASSUME PoolInv, [Next]_vars
  PROVE  OnePoolWorks'
<1> USE DEF PoolInv, TypeOK, OnePoolWorks, Goto, At, Static, callerVars, serviceVars, poolVars,
            workVars, vars
<1>1. ASSUME NEW t \in Thread, Begin(t) \/ CheckService(t) \/ LockService(t) \/ RecheckService(t) \/ SendNotification(t)
                 \/ NextProvider(t) \/ LockExecutor(t) \/ RecheckExecutor(t) \/ SubmitRefused(t)
      PROVE  OnePoolWorks'
  BY <1>1 DEF Begin, CheckService, LockService, RecheckService, SendNotification,
              NextProvider, LockExecutor, RecheckExecutor, SubmitRefused
<1>2. ASSUME NEW t \in Thread, NewService(t)
      PROVE  OnePoolWorks'
  <2>1. service = "none" /\ UNCHANGED workVars
    BY <1>2 DEF NewService, LocksExclude
  <2> QED BY <2>1
<1>3. ASSUME NEW t \in Thread, NewExecutor(t)
      PROVE  OnePoolWorks'
  <2>1. /\ mine[t] = service /\ executor[service] = "none"
        /\ UNCHANGED workVars
    BY <1>3 DEF NewExecutor, LocksExclude, OneService, Handing, InExecutor
  <2>2. \A x \in Thread : queue[x] = <<>> /\ sending[x] = {}
    BY <2>1, NotificationAssumption
  <2> QED BY <2>1, <2>2
<1>4. ASSUME NEW t \in Thread, Submit(t)
      PROVE  OnePoolWorks'
  <2>1. mine[t] = service /\ service # "none" /\ UNCHANGED <<sending, service, executor>>
    BY <1>4 DEF Submit, OneService, Handing
  <2>2. \A x \in Thread : x # executor[service] => queue'[x] = queue[x]
    BY <1>4, <2>1 DEF Submit
  <2> QED BY <2>1, <2>2
<1>5. ASSUME NEW x \in Thread, Take(x)
      PROVE  OnePoolWorks'
  <2> DEFINE k == Head(queue[x])
  <2>1. /\ sending' = [sending EXCEPT ![x] = @ \cup {k}]
        /\ queue' = [queue EXCEPT ![x] = Tail(@)]
        /\ queue[x] # <<>> /\ Cardinality(sending[x]) < MaxWorkers
        /\ UNCHANGED <<service, executor>>
    BY <1>5 DEF Take
  <2> HIDE DEF k
  <2>2. /\ IsFiniteSet(sending[x] \cup {k})
        /\ Cardinality(sending[x] \cup {k}) <= MaxWorkers
    <3>1. IsFiniteSet(sending[x]) /\ Cardinality(sending[x]) \in Nat
      BY FS_CardinalityType
    <3>2. /\ IsFiniteSet(sending[x] \cup {k})
          /\ Cardinality(sending[x] \cup {k}) \in {Cardinality(sending[x]), Cardinality(sending[x]) + 1}
      BY <3>1, FS_AddElement
    <3> QED BY <2>1, <3>1, <3>2, NotificationAssumption
  <2> QED BY <2>1, <2>2
<1>6. ASSUME NEW x \in Thread, SendToProvider(x)
      PROVE  OnePoolWorks'
  <2> PICK k \in sending[x] : sending' = [sending EXCEPT ![x] = @ \ {k}]
    BY <1>6 DEF SendToProvider
  <2>1. /\ IsFiniteSet(sending[x] \ {k})
        /\ Cardinality(sending[x] \ {k}) <= MaxWorkers
    BY FS_Subset, FS_CardinalityType, NotificationAssumption
  <2>2. UNCHANGED <<queue, service, executor>>
    BY <1>6 DEF SendToProvider
  <2> QED BY <2>1, <2>2
<1>7. CASE Exit \/ Kill \/ UNCHANGED vars
  BY <1>7 DEF Exit, Kill
<1>8. CASE Shutdown
  BY <1>8 DEF Shutdown
<1> QED BY <1>1, <1>2, <1>3, <1>4, <1>5, <1>6, <1>7, <1>8 DEF Next, CallerStep

\* Taking a call from the queue leaves it in the pool.
LEMMA TakeMoves ==
  ASSUME PoolInv, NEW x \in Thread, Take(x), NEW k \in Call
  PROVE  InPool(k)' <=> InPool(k)
<1>1. /\ queue' = [queue EXCEPT ![x] = Tail(@)] /\ queue[x] # <<>>
      /\ sending' = [sending EXCEPT ![x] = @ \cup {Head(queue[x])}]
  BY DEF Take
<1>2. ToSet(queue[x]) = ToSet(Tail(queue[x])) \cup {Head(queue[x])}
  BY <1>1, QueueElements DEF PoolInv, TypeOK
<1>3. \A y \in Thread :
        k \in sending'[y] \/ k \in ToSet(queue'[y]) <=> k \in sending[y] \/ k \in ToSet(queue[y])
  BY <1>1, <1>2 DEF PoolInv, TypeOK
<1> QED BY <1>3 DEF InPool

\* Handing a call over puts it into the pool, and no other.
LEMMA SubmitMoves ==
  ASSUME PoolInv, NEW t \in Thread, NEW p \in todo[t], NEW k \in Call, pc[t] = "submit",
         queue' = [queue EXCEPT ![executor[mine[t]]] = Append(@, <<t, p>>)],
         UNCHANGED sending
  PROVE  InPool(k)' <=> InPool(k) \/ k = <<t, p>>
<1> USE DEF PoolInv, TypeOK
<1> DEFINE x == executor[mine[t]]
           c == <<t, p>>
<1>1. x \in Thread /\ c \in Call
  BY DEF OneService, Handing, Call
<1>2. queue'[x] = Append(queue[x], c) /\ \A y \in Thread : y # x => queue'[y] = queue[y]
  BY <1>1
<1> HIDE DEF x, c
<1>3. ToSet(queue'[x]) = ToSet(queue[x]) \cup {c}
  <2>1. queue[x] \in Seq(Call)
    BY <1>1
  <2>2. ToSet(Append(queue[x], c)) = ToSet(queue[x]) \cup {c}
    BY <1>1, <2>1, QueueElements
  <2> QED BY <1>2, <2>2
<1>4. InPool(k)' <=> InPool(k) \/ k = c
  <2>1. \A y \in Thread : k \in ToSet(queue'[y]) <=> k \in ToSet(queue[y]) \/ (y = x /\ k = c)
    BY <1>2, <1>3
  <2>2. \A y \in Thread : sending'[y] = sending[y]
    OBVIOUS
  <2> QED BY <1>1, <2>1, <2>2 DEF InPool
<1> QED BY <1>4 DEF c

\* A call that was made is in the pool no more.
LEMMA SendMoves ==
  ASSUME PoolInv, CallsAreInOnePlace, NEW x \in Thread, NEW j \in sending[x], NEW k \in Call,
         sending' = [sending EXCEPT ![x] = @ \ {j}], UNCHANGED queue
  PROVE  InPool(k)' <=> InPool(k) /\ k # j
<1> USE DEF PoolInv, TypeOK
<1>1. j \notin ToSet(queue[x])
  BY DEF CallsAreInOnePlace
<1>2. \A y \in Thread : y # x => sending[y] = {} /\ queue[y] = <<>>
  BY DEF OnePoolWorks
<1>3. ToSet(<<>>) = {}
  BY QueueElements
<1>4. \A y \in Thread : j \notin ToSet(queue[y])
  BY <1>1, <1>2, <1>3
<1> QED BY <1>2, <1>4 DEF InPool

\* Whatever does not touch the pool offers nothing new to it.
LEMMA QuietStep ==
  ASSUME PoolInv, CallersHandOver, [Next]_vars, ~\E t \in Thread : Submit(t),
         ~\E x \in Thread : Take(x) \/ SendToProvider(x)
  PROVE  /\ UNCHANGED workVars
         /\ \A u \in Thread, p \in Provider :
              /\ Offered(u, p) => Offered(u, p)'
              /\ Offered(u, p)' /\ u \notin late' => Offered(u, p) /\ u \notin late
<1> DEFINE Quiet == /\ UNCHANGED workVars
                    /\ \A u \in Thread, p \in Provider :
                         /\ Offered(u, p) => Offered(u, p)'
                         /\ Offered(u, p)' /\ u \notin late' => Offered(u, p) /\ u \notin late
<1> USE DEF PoolInv, TypeOK, CallersHandOver, Goto, At, Static, callerVars, serviceVars, poolVars,
            workVars, vars, Offered, Wanted, providers, ShouldNotify, Handing, InExecutor
<1>1. ASSUME NEW t \in Thread, Begin(t)
      PROVE  Quiet
  BY <1>1 DEF Begin
<1>2. ASSUME NEW t \in Thread, CheckService(t)
      PROVE  Quiet
  BY <1>2 DEF CheckService
<1>3. ASSUME NEW t \in Thread, LockService(t)
      PROVE  Quiet
  BY <1>3 DEF LockService
<1>4. ASSUME NEW t \in Thread, RecheckService(t)
      PROVE  Quiet
  BY <1>4 DEF RecheckService
<1>5. ASSUME NEW t \in Thread, NewService(t)
      PROVE  Quiet
  BY <1>5 DEF NewService
<1>6. ASSUME NEW t \in Thread, SendNotification(t)
      PROVE  Quiet
  BY <1>6 DEF SendNotification
<1>7. ASSUME NEW t \in Thread, NextProvider(t)
      PROVE  Quiet
  BY <1>7 DEF NextProvider
<1>8. ASSUME NEW t \in Thread, LockExecutor(t)
      PROVE  Quiet
  BY <1>8 DEF LockExecutor
<1>9. ASSUME NEW t \in Thread, RecheckExecutor(t)
      PROVE  Quiet
  BY <1>9 DEF RecheckExecutor
<1>10. ASSUME NEW t \in Thread, NewExecutor(t)
      PROVE  Quiet
  BY <1>10 DEF NewExecutor
<1>11. ASSUME NEW t \in Thread, SubmitRefused(t)
      PROVE  Quiet
  BY <1>11 DEF SubmitRefused
<1>12. CASE Exit \/ Shutdown \/ Kill \/ UNCHANGED vars
  BY <1>12 DEF Exit, Shutdown, Kill
<1> QED BY <1>1, <1>2, <1>3, <1>4, <1>5, <1>6, <1>7, <1>8, <1>9, <1>10, <1>11, <1>12 DEF Next, CallerStep

\* A call goes from the loop of its caller through the pool, and never back.
LEMMA PlaceStep ==
  ASSUME PoolInv, CallsAreInOnePlace, CallersHandOver, [Next]_vars
  PROVE  CallsAreInOnePlace'
<1> DEFINE Placed(t, p) ==
      LET k == <<t, p>> IN
      /\ InPool(k)' \/ tried'[k] # 0 => Offered(t, p)'
      /\ InPool(k)' => tried'[k] = 0
      /\ tried'[k] \in {0, 1} /\ received'[k] <= tried'[k]
<1> SUFFICES /\ \A y \in Thread : IsInjective(queue'[y]) /\ ToSet(queue'[y]) \cap sending'[y] = {}
             /\ \A t \in Thread, p \in Provider : Placed(t, p)
  BY DEF CallsAreInOnePlace
<1>0. \A t \in Thread, p \in Provider : <<t, p>> \in Call
  BY DEF Call
<1>1. CASE /\ ~\E t \in Thread : Submit(t)
           /\ ~\E x \in Thread : Take(x) \/ SendToProvider(x)
  <2>1. UNCHANGED workVars
    BY <1>1, QuietStep
  <2>2. \A k \in Call : InPool(k)' <=> InPool(k)
    BY <2>1 DEF InPool, workVars
  <2> QED BY <1>0, <1>1, <2>1, <2>2, QuietStep DEF CallsAreInOnePlace, workVars
<1>2. ASSUME NEW t \in Thread, Submit(t)
      PROVE  /\ \A y \in Thread : IsInjective(queue'[y]) /\ ToSet(queue'[y]) \cap sending'[y] = {}
             /\ \A u \in Thread, q \in Provider : Placed(u, q)
  <2> PICK p \in todo[t] :
        /\ queue' = [queue EXCEPT ![executor[mine[t]]] = Append(@, <<t, p>>)]
        /\ todo' = [todo EXCEPT ![t] = @ \ {p}]
    BY <1>2 DEF Submit
  <2> DEFINE x == executor[mine[t]]
             c == <<t, p>>
  <2>1. /\ pc[t] = "submit" /\ pc' = [pc EXCEPT ![t] = "loop"]
        /\ UNCHANGED <<environment, event, sending, tried, received>>
    BY <1>2 DEF Submit, At, Goto, Static
  <2>2. p \in Provider /\ c \in Call /\ x \in Thread /\ queue[x] \in Seq(Call)
    BY <1>0, <2>1 DEF PoolInv, TypeOK, OneService, Handing
  <2>3. Wanted(t, p) /\ ~InPool(c) /\ tried[c] = 0 /\ received[c] = 0
    <3>1. ~Offered(t, p) /\ Wanted(t, p)
      BY <2>1, <2>2 DEF Offered, CallersHandOver, Wanted, Handing
    <3>2. received[c] \in 0 .. 2
      BY <2>2 DEF PoolInv, TypeOK
    <3> QED BY <2>2, <3>1, <3>2 DEF CallsAreInOnePlace
  <2>4. \A u \in Thread, q \in Provider : Offered(u, q)' <=> Offered(u, q) \/ <<u, q>> = c
    BY <2>1, <2>2, <2>3 DEF Offered, Wanted, providers, Handing, PoolInv, TypeOK
  <2>5. \A k \in Call : InPool(k)' <=> InPool(k) \/ k = c
    BY <2>1, SubmitMoves
  <2>6. queue'[x] = Append(queue[x], c) /\ \A y \in Thread : y # x => queue'[y] = queue[y]
    BY <2>2 DEF PoolInv, TypeOK
  <2> HIDE DEF x, c
  <2>7. c \notin ToSet(queue[x]) /\ c \notin sending[x]
    BY <2>2, <2>3 DEF InPool
  <2>8. IsInjective(Append(queue[x], c)) /\ ToSet(Append(queue[x], c)) = ToSet(queue[x]) \cup {c}
    BY <2>2, <2>7, QueueElements DEF CallsAreInOnePlace
  <2>9. \A y \in Thread : IsInjective(queue'[y]) /\ ToSet(queue'[y]) \cap sending'[y] = {}
    BY <2>1, <2>2, <2>6, <2>7, <2>8 DEF CallsAreInOnePlace
  <2>10. \A u \in Thread, q \in Provider : Placed(u, q)
    BY <1>0, <2>1, <2>3, <2>4, <2>5 DEF CallsAreInOnePlace
  <2> QED BY <2>9, <2>10
<1>3. ASSUME NEW x \in Thread, Take(x)
      PROVE  /\ \A y \in Thread : IsInjective(queue'[y]) /\ ToSet(queue'[y]) \cap sending'[y] = {}
             /\ \A u \in Thread, q \in Provider : Placed(u, q)
  <2>1. /\ queue' = [queue EXCEPT ![x] = Tail(@)] /\ queue[x] # <<>>
        /\ sending' = [sending EXCEPT ![x] = @ \cup {Head(queue[x])}]
        /\ UNCHANGED <<environment, event, pc, todo, tried, received>>
    BY <1>3 DEF Take, Static, callerVars
  <2>2. queue[x] \in Seq(Call)
    BY DEF PoolInv, TypeOK
  <2>3. /\ ToSet(queue[x]) = ToSet(Tail(queue[x])) \cup {Head(queue[x])}
        /\ IsInjective(Tail(queue[x])) /\ Head(queue[x]) \notin ToSet(Tail(queue[x]))
    BY <2>1, <2>2, QueueElements DEF CallsAreInOnePlace
  <2>4. \A y \in Thread : IsInjective(queue'[y]) /\ ToSet(queue'[y]) \cap sending'[y] = {}
    BY <2>1, <2>3 DEF CallsAreInOnePlace, PoolInv, TypeOK
  <2>5. \A k \in Call : InPool(k)' <=> InPool(k)
    BY <1>3, TakeMoves
  <2>6. \A u \in Thread, q \in Provider : Offered(u, q)' <=> Offered(u, q)
    BY <2>1 DEF Offered, Wanted, providers
  <2>7. \A u \in Thread, q \in Provider : Placed(u, q)
    BY <1>0, <2>1, <2>5, <2>6 DEF CallsAreInOnePlace
  <2> QED BY <2>4, <2>7
<1>4. ASSUME NEW x \in Thread, SendToProvider(x)
      PROVE  /\ \A y \in Thread : IsInjective(queue'[y]) /\ ToSet(queue'[y]) \cap sending'[y] = {}
             /\ \A u \in Thread, q \in Provider : Placed(u, q)
  <2> PICK c \in sending[x] :
        /\ tried' = [tried EXCEPT ![c] = @ + 1]
        /\ received' \in {received, [received EXCEPT ![c] = @ + 1]}
        /\ sending' = [sending EXCEPT ![x] = @ \ {c}]
    BY <1>4 DEF SendToProvider
  <2>1. UNCHANGED <<environment, event, pc, todo, queue>>
    BY <1>4 DEF SendToProvider, Static, callerVars
  <2>2. c \in Call /\ InPool(c)
    BY DEF PoolInv, TypeOK, InPool
  <2>3. tried[c] = 0 /\ received[c] = 0
    <3>1. PICK t \in Thread, p \in Provider : c = <<t, p>>
      BY <2>2 DEF Call
    <3>2. tried[<<t, p>>] = 0 /\ received[<<t, p>>] <= tried[<<t, p>>]
      BY <2>2, <3>1 DEF CallsAreInOnePlace
    <3>3. received[c] \in 0 .. 2
      BY <2>2 DEF PoolInv, TypeOK
    <3> QED BY <3>1, <3>2, <3>3
  <2>4. \A k \in Call : InPool(k)' <=> InPool(k) /\ k # c
    BY <2>1, SendMoves
  <2>5. \A u \in Thread, q \in Provider : Offered(u, q)' <=> Offered(u, q)
    BY <2>1 DEF Offered, Wanted, providers
  <2>6. \A y \in Thread : IsInjective(queue'[y]) /\ ToSet(queue'[y]) \cap sending'[y] = {}
    BY <2>1 DEF CallsAreInOnePlace, PoolInv, TypeOK
  <2>7. /\ tried'[c] = 1 /\ received'[c] \in {0, 1}
        /\ \A k \in Call : k # c => tried'[k] = tried[k] /\ received'[k] = received[k]
    BY <2>2, <2>3 DEF PoolInv, TypeOK
  <2>8. ASSUME NEW u \in Thread, NEW q \in Provider
        PROVE  Placed(u, q)
    <3>1. CASE <<u, q>> = c
      <4>1. Offered(u, q)
        BY <2>2, <3>1 DEF CallsAreInOnePlace
      <4> QED BY <2>2, <2>4, <2>5, <2>7, <3>1, <4>1
    <3>2. CASE <<u, q>> # c
      BY <1>0, <2>4, <2>5, <2>7, <3>2 DEF CallsAreInOnePlace
    <3> QED BY <3>1, <3>2
  <2> QED BY <2>6, <2>8
<1> QED BY <1>1, <1>2, <1>3, <1>4

\* A caller leaves its loop when nothing is left, or when it is refused.
LEMMA LoopStep ==
  ASSUME TypeOK, CallersHandOver, [Next]_vars
  PROVE  \A u \in Thread :
           /\ todo'[u] \subseteq providers'
           /\ pc'[u] \notin Handing /\ u \notin late' => todo'[u] = {}
           /\ pc'[u] \in Handing => event'[u] \in NotifyOn
           /\ pc'[u] \in Handing \ {"loop"} => todo'[u] # {}
           /\ u \in late' => pc'[u] = "done"
<1> DEFINE Loop == \A u \in Thread :
                     /\ todo'[u] \subseteq providers'
                     /\ pc'[u] \notin Handing /\ u \notin late' => todo'[u] = {}
                     /\ pc'[u] \in Handing => event'[u] \in NotifyOn
                     /\ pc'[u] \in Handing \ {"loop"} => todo'[u] # {}
                     /\ u \in late' => pc'[u] = "done"
<1> USE DEF TypeOK, CallersHandOver, Goto, At, Static, callerVars, serviceVars, poolVars,
            workVars, vars, providers, ShouldNotify, Handing, InExecutor
<1>1. ASSUME NEW t \in Thread, Begin(t)
      PROVE  Loop
  BY <1>1 DEF Begin
<1>2. ASSUME NEW t \in Thread, CheckService(t)
      PROVE  Loop
  BY <1>2 DEF CheckService
<1>3. ASSUME NEW t \in Thread, LockService(t)
      PROVE  Loop
  BY <1>3 DEF LockService
<1>4. ASSUME NEW t \in Thread, RecheckService(t)
      PROVE  Loop
  BY <1>4 DEF RecheckService
<1>5. ASSUME NEW t \in Thread, NewService(t)
      PROVE  Loop
  BY <1>5 DEF NewService
<1>6. ASSUME NEW t \in Thread, SendNotification(t)
      PROVE  Loop
  <2>1. CASE ShouldNotify(event[t])
    <3>1. /\ pc' = [pc EXCEPT ![t] = "loop"] /\ todo' = [todo EXCEPT ![t] = providers]
          /\ providers # {} /\ event[t] \in NotifyOn
      BY <1>6, <2>1 DEF SendNotification
    <3> QED BY <1>6, <3>1 DEF SendNotification
  <2>2. CASE ~ShouldNotify(event[t])
    <3>1. pc' = [pc EXCEPT ![t] = "done"] /\ todo' = todo
      BY <1>6, <2>2 DEF SendNotification
    <3> QED BY <1>6, <3>1 DEF SendNotification
  <2> QED BY <2>1, <2>2
<1>7. ASSUME NEW t \in Thread, NextProvider(t)
      PROVE  Loop
  BY <1>7 DEF NextProvider
<1>8. ASSUME NEW t \in Thread, LockExecutor(t)
      PROVE  Loop
  BY <1>8 DEF LockExecutor
<1>9. ASSUME NEW t \in Thread, RecheckExecutor(t)
      PROVE  Loop
  BY <1>9 DEF RecheckExecutor
<1>10. ASSUME NEW t \in Thread, NewExecutor(t)
      PROVE  Loop
  BY <1>10 DEF NewExecutor
<1>11. ASSUME NEW t \in Thread, Submit(t)
      PROVE  Loop
  BY <1>11 DEF Submit
<1>12. ASSUME NEW t \in Thread, SubmitRefused(t)
      PROVE  Loop
  BY <1>12 DEF SubmitRefused
<1>13. ASSUME NEW x \in Thread, Take(x) \/ SendToProvider(x)
      PROVE  Loop
  BY <1>13 DEF Take, SendToProvider
<1>14. CASE Exit \/ Shutdown \/ Kill \/ UNCHANGED vars
  BY <1>14 DEF Exit, Shutdown, Kill
<1> QED BY <1>1, <1>2, <1>3, <1>4, <1>5, <1>6, <1>7, <1>8, <1>9,
           <1>10, <1>11, <1>12, <1>13, <1>14 DEF Next, CallerStep

\* What a caller went past is in the pool, or was sent.
LEMMA HandOverStep ==
  ASSUME PoolInv, CallsAreInOnePlace, CallersHandOver, [Next]_vars
  PROVE  CallersHandOver'
<1> SUFFICES ASSUME NEW u \in Thread, NEW q \in Provider, Offered(u, q)', u \notin late'
             PROVE  InPool(<<u, q>>)' \/ tried'[<<u, q>>] = 1
  BY LoopStep DEF CallersHandOver, PoolInv
<1>0. <<u, q>> \in Call
  BY DEF Call
<1>1. CASE /\ ~\E t \in Thread : Submit(t)
           /\ ~\E x \in Thread : Take(x) \/ SendToProvider(x)
  BY <1>1, QuietStep DEF CallersHandOver, workVars, InPool
<1>2. ASSUME NEW t \in Thread, Submit(t)
      PROVE  InPool(<<u, q>>)' \/ tried'[<<u, q>>] = 1
  <2> PICK p \in todo[t] :
        /\ queue' = [queue EXCEPT ![executor[mine[t]]] = Append(@, <<t, p>>)]
        /\ todo' = [todo EXCEPT ![t] = @ \ {p}]
    BY <1>2 DEF Submit
  <2>1. /\ pc[t] = "submit" /\ pc' = [pc EXCEPT ![t] = "loop"]
        /\ UNCHANGED <<environment, event, sending, tried, received, late>>
    BY <1>2 DEF Submit, At, Goto, Static
  <2>2. Offered(u, q) \/ <<u, q>> = <<t, p>>
    BY <2>1 DEF Offered, Wanted, providers, Handing, PoolInv, TypeOK
  <2>3. InPool(<<u, q>>)' <=> InPool(<<u, q>>) \/ <<u, q>> = <<t, p>>
    BY <1>0, <2>1, SubmitMoves
  <2> QED BY <2>1, <2>2, <2>3 DEF CallersHandOver
<1>3. ASSUME NEW x \in Thread, Take(x)
      PROVE  InPool(<<u, q>>)' \/ tried'[<<u, q>>] = 1
  <2>1. UNCHANGED <<environment, event, pc, todo, tried, late>>
    BY <1>3 DEF Take, Static, callerVars
  <2>2. Offered(u, q)
    BY <2>1 DEF Offered, Wanted, providers
  <2> QED BY <1>0, <1>3, <2>1, <2>2, TakeMoves DEF CallersHandOver
<1>4. ASSUME NEW x \in Thread, SendToProvider(x)
      PROVE  InPool(<<u, q>>)' \/ tried'[<<u, q>>] = 1
  <2> PICK c \in sending[x] :
        /\ tried' = [tried EXCEPT ![c] = @ + 1]
        /\ sending' = [sending EXCEPT ![x] = @ \ {c}]
    BY <1>4 DEF SendToProvider
  <2>1. UNCHANGED <<environment, event, pc, todo, queue, late>>
    BY <1>4 DEF SendToProvider, Static, callerVars
  <2>2. Offered(u, q)
    BY <2>1 DEF Offered, Wanted, providers
  <2>3. CASE <<u, q>> = c
    <3>1. InPool(<<u, q>>)
      BY <2>3 DEF InPool
    <3>2. tried[<<u, q>>] = 0
      BY <3>1 DEF CallsAreInOnePlace
    <3>3. c \in Call /\ tried[c] = 0
      BY <1>0, <2>3, <3>2
    <3>4. tried'[c] = 1
      BY <3>3 DEF PoolInv, TypeOK
    <3> QED BY <2>3, <3>4
  <2>4. CASE <<u, q>> # c
    <3>1. InPool(<<u, q>>)' <=> InPool(<<u, q>>)
      BY <1>0, <2>1, <2>4, SendMoves
    <3>2. tried'[<<u, q>>] = tried[<<u, q>>]
      BY <1>0, <2>4 DEF PoolInv, TypeOK
    <3> QED BY <2>1, <2>2, <3>1, <3>2 DEF CallersHandOver
  <2> QED BY <2>3, <2>4
<1> QED BY <1>1, <1>2, <1>3, <1>4

\* Nothing happens after the end.
LEMMA EndStep ==
  ASSUME TypeOK, EndIsOrderly, [Next]_vars
  PROVE  EndIsOrderly'
<1> USE DEF TypeOK, EndIsOrderly
<1>1. ASSUME NEW t \in Thread, Begin(t) \/ CallerStep(t)
      PROVE  process' # "ended"
  BY <1>1 DEF Begin, CallerStep, At, Alive, CheckService, LockService, RecheckService, NewService, SendNotification,
              NextProvider, LockExecutor, RecheckExecutor, NewExecutor, Submit, SubmitRefused
<1>2. ASSUME NEW x \in Thread, Take(x) \/ SendToProvider(x)
      PROVE  process' # "ended"
  BY <1>2 DEF Take, SendToProvider, Alive
<1>3. CASE Exit \/ Kill
  BY <1>3 DEF Exit, Kill
<1>4. CASE Shutdown
  BY <1>4 DEF Shutdown, callerVars, workVars
<1>5. CASE UNCHANGED vars
  BY <1>5 DEF vars, callerVars, workVars
<1> QED BY <1>1, <1>2, <1>3, <1>4, <1>5 DEF Next

NInv == PoolInv /\ NoticeInv

\* At the start nobody holds a lock and nothing is in a pool.
LEMMA NoticeInit ==
  ASSUME Init
  PROVE  NInv
<1> USE NotificationAssumption DEF Init
<1>1. TypeOK
  <2>1. <<>> \in Seq(Call)
    BY EmptySeq
  <2> QED BY <2>1 DEF TypeOK, Label
<1>2. LocksExclude /\ OneService
  BY DEF LocksExclude, OneService, InService, InExecutor, Handing
<1>3. OnePoolWorks
  BY FS_EmptySet DEF OnePoolWorks
<1>4. \A k \in Call : ~InPool(k)
  <2>1. ToSet(<<>>) = {}
    BY QueueElements, EmptySeq
  <2> QED BY <2>1 DEF InPool
<1>5. CallsAreInOnePlace
  <2>1. \A t \in Thread, p \in Provider : <<t, p>> \in Call
    BY DEF Call
  <2>2. ToSet(<<>>) = {} /\ IsInjective(<<>>)
    BY QueueElements, EmptySeq
  <2> QED BY <1>4, <2>1, <2>2 DEF CallsAreInOnePlace
<1>6. CallersHandOver /\ EndIsOrderly
  BY DEF CallersHandOver, EndIsOrderly, Offered, Handing, InExecutor
<1> QED BY <1>1, <1>2, <1>3, <1>5, <1>6 DEF NInv, PoolInv, NoticeInv

\* The invariant holds throughout.
THEOREM NoticeInvariance == Spec => []NInv
<1>1. ASSUME NInv, [Next]_vars
      PROVE  NInv'
  BY <1>1, TypeStep, LocksStep, ServiceStep, WorksStep, PlaceStep, HandOverStep, EndStep
     DEF NInv, PoolInv, NoticeInv
<1> QED BY <1>1, NoticeInit, PTL DEF Spec

\* Every variable always has its type: an answer that is lost never makes the pool send
\* again, so a call is counted at most once.
THEOREM NoticeTypes == Spec => []TypeOK
<1>1. NInv => TypeOK
  BY DEF NInv, PoolInv
<1> QED BY <1>1, NoticeInvariance, PTL

\* However many callers race for the service and for its pool, the process never makes
\* more than MaxWorkers requests to providers at a time.
THEOREM OnePoolOnly == Spec => []OnePool
<1>1. NInv => OnePool
  <2> SUFFICES ASSUME NInv
               PROVE  Cardinality(UNION Range(sending)) <= MaxWorkers
    BY DEF OnePool
  <2> USE DEF NInv, PoolInv, TypeOK, OnePoolWorks
  <2>1. CASE \A x \in Thread : sending[x] = {}
    <3>1. UNION Range(sending) = {}
      BY <2>1 DEF Range
    <3>2. Cardinality({}) = 0 /\ 0 <= MaxWorkers
      BY FS_EmptySet, NotificationAssumption
    <3> QED BY <3>1, <3>2
  <2>2. ASSUME NEW x \in Thread, sending[x] # {}
        PROVE  Cardinality(UNION Range(sending)) <= MaxWorkers
    <3>1. \A y \in Thread : y # x => sending[y] = {}
      BY <2>2
    <3>2. UNION Range(sending) = sending[x]
      BY <3>1 DEF Range
    <3> QED BY <3>2
  <2> QED BY <2>1, <2>2
<1> QED BY <1>1, NoticeInvariance, PTL

\* A notice is sent exactly once to every usable provider before an orderly end of the
\* process, whatever callers, providers and the pool do, unless it came too late.
THEOREM NoNoticeDropped == Spec => []NothingIsDropped
<1>1. NInv => NothingIsDropped
  <2> SUFFICES ASSUME NInv, NEW t \in Thread, NEW p \in Provider
               PROVE  /\ pc[t] = "done" /\ t \notin late /\ Wanted(t, p) /\ process # "killed" =>
                           IF process = "ended" \/ ~Pending(<<t, p>>) THEN tried[<<t, p>>] = 1
                                                                      ELSE tried[<<t, p>>] = 0
                      /\ tried[<<t, p>>] # 0 => pc[t] # "idle" /\ Wanted(t, p)
    BY DEF NothingIsDropped
  <2> USE DEF NInv, NoticeInv
  <2>1. Pending(<<t, p>>) <=> InPool(<<t, p>>)
    BY ContainsElement DEF Pending, InPool, PoolInv, TypeOK
  <2>2. process = "ended" => ~InPool(<<t, p>>)
    <3>1. ToSet(<<>>) = {}
      BY QueueElements, EmptySeq
    <3> QED BY <3>1 DEF EndIsOrderly, InPool
  <2>3. pc[t] = "done" /\ t \notin late /\ Wanted(t, p) => Offered(t, p)
    BY DEF Offered, CallersHandOver, Handing, InExecutor
  <2>4. Offered(t, p) => pc[t] # "idle" /\ Wanted(t, p)
    BY DEF Offered, Handing, InExecutor
  <2> QED BY <2>1, <2>2, <2>3, <2>4 DEF CallsAreInOnePlace, CallersHandOver
<1> QED BY <1>1, NoticeInvariance, PTL

\* No provider gets a notice twice, although its answer may be lost.
THEOREM NoticeReceivedOnce == Spec => []ReceivedOnce
<1>1. NInv => ReceivedOnce
  <2> SUFFICES ASSUME NInv, NEW k \in Call
               PROVE  received[k] <= 1
    BY DEF ReceivedOnce
  <2>1. PICK t \in Thread, p \in Provider : k = <<t, p>>
    BY DEF Call
  <2>2. received[k] \in 0 .. 2
    BY DEF NInv, PoolInv, TypeOK
  <2> QED BY <2>1, <2>2 DEF NInv, NoticeInv, CallsAreInOnePlace
<1> QED BY <1>1, NoticeInvariance, PTL

-----------------------------------------------------------------------------
(* The refinement of NoticeOutbox.                                         *)

\* What does not touch the pools leaves the outbox alone.
LEMMA OutboxUnchanged ==
  ASSUME UNCHANGED workVars
  PROVE  UNCHANGED <<pendingCalls, sentCalls, deliveredCalls>>
BY DEF workVars, pendingCalls, sentCalls, deliveredCalls, Pending

\* An outbox that starts with nothing in it.
LEMMA OutboxInit ==
  ASSUME Init
  PROVE  Outbox!Init
<1>1. \A e : ~Contains(<<>>, e)
  BY DEF Contains
<1> QED BY <1>1 DEF Init, Outbox!Init, Pending, pendingCalls, sentCalls, deliveredCalls

\* Handing a call over is new to the outbox: nobody else has the notice, and its
\* caller comes to each provider once.
LEMMA OutboxSubmit ==
  ASSUME NInv, TypeOK', NEW t \in Thread, Submit(t)
  PROVE  \E k \in Call : Outbox!HandOver(k)
<1> USE DEF NInv, PoolInv, NoticeInv
<1>1. PICK p \in todo[t] :
        /\ queue' = [queue EXCEPT ![executor[mine[t]]] = Append(@, <<t, p>>)]
        /\ UNCHANGED <<sending, tried, received, process>>
        /\ pc[t] = "submit" /\ process = "up"
  BY DEF Submit, At
<1> DEFINE k == <<t, p>>
<1>2. p \in Provider /\ k \in Call
  BY DEF TypeOK, Call
<1>3. ~InPool(k) /\ tried[k] = 0
  <2>1. tried[k] \in {0, 1} /\ ~Offered(t, p)
    BY <1>2 DEF CallsAreInOnePlace, Offered
  <2> QED BY <1>2, <2>1 DEF CallsAreInOnePlace
<1>4. \A j \in Call : InPool(j)' <=> InPool(j) \/ j = k
  BY <1>1, SubmitMoves
<1> HIDE DEF k
<1>5. /\ \A j \in Call : Pending(j) <=> InPool(j)
      /\ \A j \in Call : Pending(j)' <=> InPool(j)'
  BY ContainsElement DEF Pending, InPool, TypeOK
<1>6. k \notin pendingCalls \cup sentCalls /\ pendingCalls' = pendingCalls \cup {k}
  BY <1>2, <1>3, <1>4, <1>5 DEF pendingCalls, sentCalls
<1> QED BY <1>1, <1>2, <1>6 DEF Outbox!HandOver, pendingCalls, sentCalls, deliveredCalls

\* Taking a call from a queue does not take it out of the outbox.
LEMMA OutboxTake ==
  ASSUME NInv, TypeOK', NEW x \in Thread, Take(x)
  PROVE  UNCHANGED <<pendingCalls, sentCalls, deliveredCalls, process>>
<1> USE DEF NInv, PoolInv
<1>1. \A j \in Call : InPool(j)' <=> InPool(j)
  BY TakeMoves
<1>2. /\ \A j \in Call : Pending(j) <=> InPool(j)
      /\ \A j \in Call : Pending(j)' <=> InPool(j)'
  BY ContainsElement DEF Pending, InPool, TypeOK
<1> QED BY <1>1, <1>2 DEF Take, pendingCalls, sentCalls, deliveredCalls

\* Sending takes one call out of the outbox that was never sent before.
LEMMA OutboxSend ==
  ASSUME NInv, TypeOK', NEW x \in Thread, SendToProvider(x)
  PROVE  \E k \in Call : Outbox!Send(k)
<1> USE DEF NInv, PoolInv, NoticeInv
<1>1. PICK k \in sending[x] :
        /\ tried' = [tried EXCEPT ![k] = @ + 1]
        /\ received' \in {received, [received EXCEPT ![k] = @ + 1]}
        /\ sending' = [sending EXCEPT ![x] = @ \ {k}]
  BY DEF SendToProvider
<1>2. UNCHANGED <<queue, process>> /\ process \in {"up", "draining"}
  BY DEF SendToProvider, Alive
<1>3. k \in Call /\ InPool(k)
  BY DEF TypeOK, InPool
<1>4. \A j \in Call : InPool(j)' <=> InPool(j) /\ j # k
  BY <1>1, <1>2, SendMoves
<1>5. /\ \A j \in Call : Pending(j) <=> InPool(j)
      /\ \A j \in Call : Pending(j)' <=> InPool(j)'
  BY ContainsElement DEF Pending, InPool, TypeOK
<1>6. k \in pendingCalls /\ pendingCalls' = pendingCalls \ {k}
  BY <1>3, <1>4, <1>5 DEF pendingCalls
<1>7. tried[k] \in 0 .. 2 /\ received[k] \in 0 .. 2
  BY <1>3 DEF TypeOK
<1>8. sentCalls' = sentCalls \cup {k}
  <2>1. tried'[k] # 0 /\ \A j \in Call : j # k => tried'[j] = tried[j]
    BY <1>1, <1>3, <1>7 DEF TypeOK
  <2> QED BY <1>3, <2>1 DEF sentCalls
<1>9. deliveredCalls' \in {deliveredCalls, deliveredCalls \cup {k}}
  <2>1. CASE received' = received
    BY <2>1 DEF deliveredCalls
  <2>2. CASE received' = [received EXCEPT ![k] = @ + 1]
    <3>1. deliveredCalls' = deliveredCalls \cup {k}
      BY <1>3, <1>7, <2>2 DEF deliveredCalls, TypeOK
    <3> QED BY <3>1
  <2> QED BY <1>1, <2>1, <2>2
<1> QED BY <1>2, <1>3, <1>6, <1>8, <1>9 DEF Outbox!Send, pendingCalls, sentCalls, deliveredCalls

\* Every step of the service and its pool is one of the outbox, or none.
LEMMA OutboxStep ==
  ASSUME NInv, TypeOK', [Next]_vars
  PROVE  [Outbox!Next]_<<pendingCalls, sentCalls, deliveredCalls, process>>
<1>1. ASSUME NEW t \in Thread,
             Begin(t) \/ CheckService(t) \/ LockService(t) \/ RecheckService(t)
             \/ NewService(t) \/ SendNotification(t) \/ NextProvider(t) \/ LockExecutor(t)
             \/ RecheckExecutor(t) \/ NewExecutor(t) \/ SubmitRefused(t)
      PROVE  UNCHANGED <<workVars, process>>
  BY <1>1 DEF Begin, CheckService, LockService, RecheckService, NewService, SendNotification,
              NextProvider, LockExecutor, RecheckExecutor, NewExecutor, SubmitRefused
<1>2. ASSUME NEW t \in Thread, Submit(t)
      PROVE  Outbox!Next
  BY <1>2, OutboxSubmit DEF Outbox!Next
<1>3. ASSUME NEW x \in Thread, SendToProvider(x)
      PROVE  Outbox!Next
  BY <1>3, OutboxSend DEF Outbox!Next
<1>4. CASE Exit
  BY <1>4, OutboxUnchanged DEF Exit, Outbox!Next, Outbox!Drain, pendingCalls, sentCalls, deliveredCalls
<1>5. CASE Shutdown
  <2>1. pendingCalls = {}
    <3>1. \A e : ~Contains(<<>>, e)
      BY DEF Contains
    <3> QED BY <1>5, <3>1 DEF Shutdown, pendingCalls, Pending
  <2> QED BY <1>5, <2>1, OutboxUnchanged
          DEF Shutdown, Outbox!Next, Outbox!End, pendingCalls, sentCalls, deliveredCalls
<1>6. CASE Kill
  BY <1>6, OutboxUnchanged
     DEF Kill, Alive, Outbox!Next, Outbox!Lose, pendingCalls, sentCalls, deliveredCalls
<1>7. CASE UNCHANGED vars
  BY <1>7, OutboxUnchanged DEF vars
<1>8. CASE UNCHANGED <<workVars, process>>
  BY <1>8, OutboxUnchanged
<1> QED BY <1>1, <1>2, <1>3, <1>4, <1>5, <1>6, <1>7, <1>8, OutboxTake DEF Next, CallerStep

\* services/notifications implements the outbox: what was handed over in time is sent
\* once, for good, and before an orderly end of the process.
THEOREM NoticesOutbox == Spec => ImplementsOutbox
<1>1. Init => Outbox!Init
  BY OutboxInit
<1>2. NInv /\ NInv' /\ [Next]_vars
      => [Outbox!Next]_(Outbox!outboxVars)
  BY OutboxStep DEF NInv, PoolInv, Outbox!outboxVars
<1> QED BY <1>1, <1>2, NoticeInvariance, PTL DEF Spec, ImplementsOutbox, Outbox!Spec
=============================================================================
