------------------------ MODULE PiholeClient_proofs ------------------------
(***************************************************************************)
(* The client keeps the promise of PiholeCall, for every set of calls and  *)
(* any number of failures.                                                 *)
(***************************************************************************)
EXTENDS PiholeClient, TLAPS

\* What is known of one call.
\*  - the Pi-hole performs nothing before a request is on its way;
\*  - a request that was performed is neither on its way nor answered 401;
\*  - "done" means performed, JSON from a proxy that the call is forged, and only a
\*    call that ended has a result;
\*  - a call reported as denied has nothing on its way that could be performed.
CallInv(c) ==
  /\ times[c] \in {0, 1}
  /\ times[c] = 1 =>
       /\ wire[c] = "none"
       /\ pc[c] \in {"await", "ended", "killed"}
       /\ pc[c] = "await" => answer[c] # "refused"
       /\ result[c] # "denied"
  /\ wire[c] = "request" =>
       /\ pc[c] \in {"await", "ended", "killed"}
       /\ answer[c] = "none"
       /\ result[c] \in {"open", "failed"}
  /\ answer[c] = "done" => times[c] = 1
  /\ pc[c] = "await" /\ answer[c] = "json" => c \in forged
  /\ pc[c] \notin {"await_login", "await", "ended", "killed"} =>
       wire[c] = "none" /\ answer[c] = "none"
  /\ pc[c] = "await_login" => wire[c] # "request"
  /\ wire[c] = "login" => answer[c] = "none"
  /\ pc[c] # "ended" => result[c] = "open"
  /\ result[c] = "ok" => times[c] = 1 \/ (op[c] # "download" /\ c \in forged)

IInv == TypeOK /\ \A c \in Call : CallInv(c)

\* Every step of one call, its session or its answers keeps the types.
LEMMA CallStepTypes ==
  ASSUME TypeOK, NEW c \in Call,
         ClientStep(c) \/ Serve(c) \/ Expire(c) \/ GiveNoSession(c)
           \/ Intercept(c) \/ Lose(c) \/ Kill(c)
  PROVE  TypeOK'
<1> USE ClientAssumption DEF TypeOK, Answer, Op, clientVars, netVars, callVars, faultVars
<1>1. ASSUME NoCredentials(c) PROVE TypeOK'
  BY <1>1 DEF NoCredentials, End, Goto, NoFault
<1>2. ASSUME EnsureAuthenticated(c) PROVE TypeOK'
  BY <1>2 DEF EnsureAuthenticated, Goto, NoFault
<1>3. ASSUME SendLogin(c) PROVE TypeOK'
  BY <1>3 DEF SendLogin, Goto, NoFault
<1>4. ASSUME Authenticated(c) PROVE TypeOK'
  BY <1>4 DEF Authenticated, Goto, Consumed, NoFault
<1>5. ASSUME LoginRaises(c) PROVE TypeOK'
  BY <1>5 DEF LoginRaises, End, Goto, Consumed, NoFault
<1>6. ASSUME SendRequest(c) PROVE TypeOK'
  BY <1>6 DEF SendRequest, Goto, NoFault
<1>7. ASSUME Reauthenticate(c) PROVE TypeOK'
  BY <1>7 DEF Reauthenticate, Relogin, Goto, Consumed, NoFault
<1>8. ASSUME RequestRaises(c) PROVE TypeOK'
  BY <1>8 DEF RequestRaises, Accepted, End, Goto, Consumed, NoFault
<1>9. ASSUME Return(c) PROVE TypeOK'
  BY <1>9 DEF Return, Accepted, End, Goto, Consumed, NoFault
<1>10. ASSUME TimeOut(c) PROVE TypeOK'
  BY <1>10 DEF TimeOut, End, Goto, NoFault, Strike
<1>11. ASSUME ServeLogin(c) PROVE TypeOK'
  BY <1>11 DEF ServeLogin, NoFault
<1>12. ASSUME ServeRequest(c) PROVE TypeOK'
  BY <1>12 DEF ServeRequest, NoFault
<1>13. ASSUME Expire(c) PROVE TypeOK'
  BY <1>13 DEF Expire, Setback, NoFault
<1>14. ASSUME GiveNoSession(c) PROVE TypeOK'
  BY <1>14 DEF GiveNoSession, Setback, NoFault
<1>15. ASSUME Intercept(c) PROVE TypeOK'
  BY <1>15 DEF Intercept, Strike
<1>16. ASSUME Lose(c) PROVE TypeOK'
  BY <1>16 DEF Lose, Strike
<1>17. ASSUME Kill(c) PROVE TypeOK'
  BY <1>17 DEF Kill, Goto, Strike
<1>18. ASSUME NEW method \in Op, NEW credentials \in {"right", "wrong"},
             Start(c, method, credentials)
      PROVE  TypeOK'
  BY <1>18 DEF Start, Goto, NoFault
<1> QED BY <1>1, <1>2, <1>3, <1>4, <1>5, <1>6, <1>7, <1>8, <1>9, <1>10, <1>11, <1>12, <1>13, <1>14, <1>15, <1>16, <1>17, <1>18 DEF ClientStep, Serve
\* A step of one call keeps what is known of that call.
LEMMA CallStepKeeps ==
  ASSUME TypeOK, NEW c \in Call, CallInv(c),
         ClientStep(c) \/ Serve(c) \/ Expire(c) \/ GiveNoSession(c)
           \/ Intercept(c) \/ Lose(c) \/ Kill(c)
  PROVE  CallInv(c)'
<1> USE DEF TypeOK, Answer, CallInv, clientVars, netVars, callVars
<1>1. ASSUME NoCredentials(c) PROVE CallInv(c)'
  BY <1>1 DEF NoCredentials, End, Goto
<1>2. ASSUME EnsureAuthenticated(c) PROVE CallInv(c)'
  BY <1>2 DEF EnsureAuthenticated, Goto
<1>3. ASSUME SendLogin(c) PROVE CallInv(c)'
  BY <1>3 DEF SendLogin, Goto
<1>4. ASSUME Authenticated(c) PROVE CallInv(c)'
  BY <1>4 DEF Authenticated, Goto, Consumed
<1>5. ASSUME LoginRaises(c) PROVE CallInv(c)'
  BY <1>5 DEF LoginRaises, End, Goto, Consumed
<1>6. ASSUME SendRequest(c) PROVE CallInv(c)'
  BY <1>6 DEF SendRequest, Goto
<1>7. ASSUME Reauthenticate(c) PROVE CallInv(c)'
  BY <1>7 DEF Reauthenticate, Relogin, Goto, Consumed
<1>8. ASSUME RequestRaises(c) PROVE CallInv(c)'
  BY <1>8 DEF RequestRaises, Accepted, End, Goto, Consumed
<1>9. ASSUME Return(c) PROVE CallInv(c)'
  BY <1>9 DEF Return, Accepted, End, Goto, Consumed
<1>10. ASSUME TimeOut(c) PROVE CallInv(c)'
  BY <1>10 DEF TimeOut, End, Goto
<1>11. ASSUME ServeLogin(c) PROVE CallInv(c)'
  BY <1>11 DEF ServeLogin
<1>12. ASSUME ServeRequest(c) PROVE CallInv(c)'
  BY <1>12 DEF ServeRequest
<1>13. ASSUME Expire(c) PROVE CallInv(c)'
  BY <1>13 DEF Expire
<1>14. ASSUME GiveNoSession(c) PROVE CallInv(c)'
  BY <1>14 DEF GiveNoSession
<1>15. ASSUME Intercept(c) PROVE CallInv(c)'
  BY <1>15 DEF Intercept
<1>16. ASSUME Lose(c) PROVE CallInv(c)'
  BY <1>16 DEF Lose
<1>17. ASSUME Kill(c) PROVE CallInv(c)'
  BY <1>17 DEF Kill, Goto
<1>18. ASSUME NEW method \in Op, NEW credentials \in {"right", "wrong"},
             Start(c, method, credentials)
      PROVE  CallInv(c)'
  BY <1>18 DEF Start, Goto
<1> QED BY <1>1, <1>2, <1>3, <1>4, <1>5, <1>6, <1>7, <1>8, <1>9, <1>10, <1>11, <1>12, <1>13, <1>14, <1>15, <1>16, <1>17, <1>18 DEF ClientStep, Serve

\* Nothing of a call changes.
Untouched(d) ==
  /\ pc'[d] = pc[d] /\ op'[d] = op[d] /\ retried'[d] = retried[d] /\ session'[d] = session[d]
  /\ password'[d] = password[d] /\ after'[d] = after[d]
  /\ wire'[d] = wire[d] /\ answer'[d] = answer[d]
  /\ times'[d] = times[d] /\ result'[d] = result[d] /\ setbacks'[d] = setbacks[d]
  /\ (d \in hit' <=> d \in hit) /\ (d \in forged' <=> d \in forged)

\* A step of one call leaves the others alone.
LEMMA CallStepIsLocal ==
  ASSUME TypeOK, NEW c \in Call, NEW d \in Call \ {c},
         ClientStep(c) \/ Serve(c) \/ Expire(c) \/ GiveNoSession(c)
           \/ Intercept(c) \/ Lose(c) \/ Kill(c)
  PROVE  Untouched(d)
<1> USE DEF Untouched, TypeOK, clientVars, netVars, callVars, faultVars, NoFault
<1>1. ASSUME NoCredentials(c) PROVE Untouched(d)
  BY <1>1 DEF NoCredentials, End, Goto
<1>2. ASSUME EnsureAuthenticated(c) PROVE Untouched(d)
  BY <1>2 DEF EnsureAuthenticated, Goto
<1>3. ASSUME SendLogin(c) PROVE Untouched(d)
  BY <1>3 DEF SendLogin, Goto
<1>4. ASSUME Authenticated(c) PROVE Untouched(d)
  BY <1>4 DEF Authenticated, Goto, Consumed
<1>5. ASSUME LoginRaises(c) PROVE Untouched(d)
  BY <1>5 DEF LoginRaises, End, Goto, Consumed
<1>6. ASSUME SendRequest(c) PROVE Untouched(d)
  BY <1>6 DEF SendRequest, Goto
<1>7. ASSUME Reauthenticate(c) PROVE Untouched(d)
  BY <1>7 DEF Reauthenticate, Relogin, Goto, Consumed
<1>8. ASSUME RequestRaises(c) PROVE Untouched(d)
  BY <1>8 DEF RequestRaises, Accepted, End, Goto, Consumed
<1>9. ASSUME Return(c) PROVE Untouched(d)
  BY <1>9 DEF Return, Accepted, End, Goto, Consumed
<1>10. ASSUME TimeOut(c) PROVE Untouched(d)
  BY <1>10 DEF TimeOut, End, Goto, Strike
<1>11. ASSUME ServeLogin(c) PROVE Untouched(d)
  BY <1>11 DEF ServeLogin
<1>12. ASSUME ServeRequest(c) PROVE Untouched(d)
  BY <1>12 DEF ServeRequest
<1>13. ASSUME Expire(c) PROVE Untouched(d)
  BY <1>13 DEF Expire, Setback
<1>14. ASSUME GiveNoSession(c) PROVE Untouched(d)
  BY <1>14 DEF GiveNoSession, Setback
<1>15. ASSUME Intercept(c) PROVE Untouched(d)
  BY <1>15 DEF Intercept, Strike
<1>16. ASSUME Lose(c) PROVE Untouched(d)
  BY <1>16 DEF Lose, Strike
<1>17. ASSUME Kill(c) PROVE Untouched(d)
  BY <1>17 DEF Kill, Goto, Strike
<1>18. ASSUME NEW method \in Op, NEW credentials \in {"right", "wrong"},
             Start(c, method, credentials)
      PROVE  Untouched(d)
  BY <1>18 DEF Start, Goto
<1> QED BY <1>1, <1>2, <1>3, <1>4, <1>5, <1>6, <1>7, <1>8, <1>9, <1>10, <1>11, <1>12, <1>13, <1>14, <1>15, <1>16, <1>17, <1>18 DEF ClientStep, Serve

\* A changed password changes what the Pi-hole thinks of sessions and nothing else.
LEMMA PasswordChange ==
  ASSUME TypeOK, ChangePassword
  PROVE  TypeOK' /\ UNCHANGED <<pc, op, wire, answer, times, forged, result>>
  BY ClientAssumption DEF TypeOK, ChangePassword, Strike, netVars, callVars

LEMMA StepKeepsIInv ==
  ASSUME IInv, [Next]_vars
  PROVE  IInv'
<1>1. CASE ChangePassword
  BY <1>1, PasswordChange DEF IInv, CallInv
<1>2. CASE UNCHANGED vars
  BY <1>2 DEF IInv, TypeOK, CallInv, vars, clientVars, netVars, callVars, faultVars
<1>3. ASSUME NEW c \in Call,
             ClientStep(c) \/ Serve(c) \/ Expire(c) \/ GiveNoSession(c)
               \/ Intercept(c) \/ Lose(c) \/ Kill(c)
      PROVE  IInv'
  <2>1. TypeOK'
    BY <1>3, CallStepTypes DEF IInv
  <2>2. CallInv(c)'
    BY <1>3, CallStepKeeps DEF IInv
  <2>3. ASSUME NEW d \in Call \ {c}
        PROVE  CallInv(d)'
    BY <1>3, <2>3, CallStepIsLocal DEF IInv, CallInv, Untouched
  <2> QED BY <2>1, <2>2, <2>3 DEF IInv
<1> QED BY <1>1, <1>2, <1>3 DEF Next

\* The variables keep their types, and each call what is known of it.
THEOREM ClientInvariant == Spec => []IInv
<1>1. Init => IInv
  BY ClientAssumption DEF Init, IInv, TypeOK, CallInv, Op, Answer
<1>2. IInv /\ [Next]_vars => IInv'
  BY StepKeepsIInv
<1> QED BY <1>1, <1>2, PTL DEF Spec

\* TypeOK of the client, for every set of calls.
THEOREM ClientTypes == Spec => []TypeOK
<1>1. IInv => TypeOK
  BY DEF IInv
<1> QED BY <1>1, ClientInvariant, PTL

-----------------------------------------------------------------------------
(* Refinement.                                                             *)

\* Nothing but the steps below changes what the Pi-hole did or the caller knows.
LEMMA QuietSteps ==
  ASSUME NEW c \in Call,
         \/ EnsureAuthenticated(c) \/ SendLogin(c) \/ Authenticated(c) \/ SendRequest(c)
         \/ Reauthenticate(c) \/ ServeLogin(c) \/ Expire(c) \/ GiveNoSession(c)
         \/ Lose(c) \/ Kill(c) \/ ChangePassword
  PROVE  UNCHANGED Abstract!promiseVars
  BY DEF EnsureAuthenticated, SendLogin, Authenticated, SendRequest, Reauthenticate,
         Relogin, ServeLogin, Expire, GiveNoSession, Lose, Kill, ChangePassword,
         clientVars, callVars, Abstract!promiseVars

\* A call begins before the Pi-hole has performed anything.
LEMMA StartBegins ==
  ASSUME IInv, NEW c \in Call, NEW method \in Op, NEW credentials \in {"right", "wrong"},
         Start(c, method, credentials)
  PROVE  Abstract!Begin(c, method)
<1>1. result[c] = "open" /\ times[c] = 0
  BY DEF IInv, CallInv, Start
<1> QED BY <1>1 DEF Start, callVars, Abstract!Begin

\* A proxy forges the answer of a call that waits, or nothing the promise is about.
LEMMA InterceptForges ==
  ASSUME IInv, NEW c \in Call, Intercept(c)
  PROVE  Abstract!Forge(c) \/ UNCHANGED Abstract!promiseVars
<1>1. UNCHANGED <<op, times, result>>
  BY DEF Intercept, clientVars, callVars
<1>2. forged' = forged \/ (forged' = forged \cup {c} /\ pc[c] = "await")
  BY DEF Intercept
<1>3. pc[c] = "await" => result[c] = "open"
  BY DEF IInv, CallInv
<1> QED BY <1>1, <1>2, <1>3 DEF Abstract!Forge, Abstract!promiseVars

\* The Pi-hole performs only what it has not performed and nobody was denied.
LEMMA ServePerforms ==
  ASSUME IInv, NEW c \in Call, ServeRequest(c)
  PROVE  Abstract!Perform(c) \/ UNCHANGED Abstract!promiseVars
<1>1. times[c] = 0 /\ result[c] \in {"open", "failed"}
  BY DEF IInv, CallInv, ServeRequest
<1>2. UNCHANGED <<op, forged, result>>
  BY DEF ServeRequest, clientVars
<1>3. CASE session[c] = "valid"
  BY <1>1, <1>2, <1>3 DEF IInv, TypeOK, ServeRequest, Abstract!Perform
<1>4. CASE session[c] # "valid"
  BY <1>2, <1>4 DEF ServeRequest, Abstract!promiseVars
<1> QED BY <1>3, <1>4

\* A call returns what it may say.
LEMMA EndReturns ==
  ASSUME IInv, NEW c \in Call,
         \/ NoCredentials(c) \/ LoginRaises(c) \/ RequestRaises(c)
         \/ Return(c) \/ TimeOut(c)
  PROVE  Abstract!Return(c)
<1> USE DEF IInv, TypeOK, CallInv, End, Abstract!Return
<1>1. CASE NoCredentials(c)
  BY <1>1 DEF NoCredentials
<1>2. CASE LoginRaises(c)
  BY <1>2 DEF LoginRaises
<1>3. CASE RequestRaises(c)
  BY <1>3 DEF RequestRaises
<1>4. CASE Return(c)
  BY <1>4 DEF Return, Accepted
<1>5. CASE TimeOut(c)
  BY <1>5 DEF TimeOut
<1> QED BY <1>1, <1>2, <1>3, <1>4, <1>5

\* The client implements PiholeCall: whatever is lost, late, expired or answered by
\* somebody else, the operation is performed at most once and the caller is told what
\* PiholeCall allows; in particular a download that returns came from the Pi-hole,
\* whereas a test and an upload may have been answered by a proxy.
THEOREM ClientKeepsPromise == Spec => ImplementsCall
<1>1. Init => Abstract!Init
  BY DEF Init, Abstract!Init
<1>2. IInv /\ [Next]_vars => [Abstract!Next]_(Abstract!promiseVars)
  <2> SUFFICES ASSUME IInv, [Next]_vars
               PROVE  Abstract!Next \/ UNCHANGED Abstract!promiseVars
    BY DEF Abstract!promiseVars
  <2>1. CASE UNCHANGED vars
    BY <2>1 DEF vars, clientVars, callVars, Abstract!promiseVars
  <2>2. CASE ChangePassword
    BY <2>2 DEF ChangePassword, callVars, Abstract!promiseVars
  <2>3. ASSUME NEW c \in Call,
               ClientStep(c) \/ Serve(c) \/ Expire(c) \/ GiveNoSession(c)
                 \/ Intercept(c) \/ Lose(c) \/ Kill(c)
        PROVE  Abstract!Next \/ UNCHANGED Abstract!promiseVars
    <3>1. ASSUME NEW method \in Op, NEW credentials \in {"right", "wrong"},
                 Start(c, method, credentials)
          PROVE  Abstract!Next
      <4>1. Abstract!Begin(c, method) /\ method \in Abstract!Op
        BY <3>1, StartBegins DEF Op, Abstract!Op
      <4> QED BY <4>1 DEF Abstract!Next
    <3>2. CASE NoCredentials(c) \/ LoginRaises(c) \/ RequestRaises(c) \/ Return(c)
                 \/ TimeOut(c)
      BY <3>2, EndReturns DEF Abstract!Next
    <3>3. CASE ServeRequest(c)
      BY <3>3, ServePerforms DEF Abstract!Next
    <3>4. CASE Intercept(c)
      BY <3>4, InterceptForges DEF Abstract!Next
    <3> QED BY <2>3, <3>1, <3>2, <3>3, <3>4, QuietSteps DEF ClientStep, Serve
  <2> QED BY <2>1, <2>2, <2>3 DEF Next
<1> QED BY <1>1, <1>2, ClientInvariant, PTL DEF Spec, ImplementsCall, Abstract!Spec
-----------------------------------------------------------------------------
(* Lost sessions.                                                          *)

\* The setbacks a call must have had to be answered 401: one for each time.
Needed(c) == IF retried[c] THEN 2 ELSE 1

\* What is known of a call that has the right password and that no failure fell upon.
\*  - it logs in only without a session, and its logins are not refused;
\*  - a request is refused only for want of a session, and each missing one counts;
\*  - something is on its way whenever the call waits.
UnhurtInv(c) ==
  /\ retried[c] => setbacks[c] >= 1
  /\ session[c] = "expired" => setbacks[c] >= Needed(c)
  /\ session[c] = "none" /\ pc[c] \in {"request", "await"} => setbacks[c] >= Needed(c)
  /\ answer[c] = "no_sid" => setbacks[c] >= Needed(c)
  /\ answer[c] \notin {"error", "page", "json"}
  /\ answer[c] = "refused" => session[c] # "valid" /\ pc[c] \in {"await", "killed"}
  /\ answer[c] \in {"granted", "no_sid", "refused", "done"} => wire[c] = "none"
  /\ wire[c] = "login" => pc[c] = "await_login"
  /\ wire[c] = "request" => pc[c] = "await"
  /\ answer[c] = "done" => pc[c] = "await"
  /\ answer[c] \in {"granted", "no_sid"} => pc[c] = "await_login"
  /\ pc[c] \in {"idle", "login", "await_login"} => session[c] = "none"
  /\ pc[c] \in {"await_login", "await"} => wire[c] # "none" \/ answer[c] # "none"
  /\ pc[c] = "killed" => FALSE
  /\ result[c] \in {"denied", "failed"} => setbacks[c] = 2

SInv(c) == c \notin hit /\ password[c] = "right" => UnhurtInv(c)

\* A call that has not begun has nothing, and one that retried has logged in again.
Fresh(c) ==
  /\ pc[c] = "idle" =>
       /\ session[c] = "none" /\ wire[c] = "none" /\ answer[c] = "none"
       /\ result[c] = "open" /\ ~retried[c] /\ password[c] = "missing" /\ setbacks[c] = 0
  /\ pc[c] = "ensure" => ~retried[c]
  /\ pc[c] \in {"login", "await_login"} /\ retried[c] => after[c] = "request"

SessionInv == \A c \in Call : SInv(c) /\ Fresh(c)

\* A step of one call keeps what is known of its sessions.
LEMMA CallStepKeepsSession ==
  ASSUME TypeOK, NEW c \in Call, CallInv(c), SInv(c), Fresh(c),
         ClientStep(c) \/ Serve(c) \/ Expire(c) \/ GiveNoSession(c)
           \/ Intercept(c) \/ Lose(c) \/ Kill(c)
  PROVE  SInv(c)' /\ Fresh(c)'
<1> USE DEF TypeOK, Answer, CallInv, SInv, UnhurtInv, Needed, Fresh, clientVars, netVars, callVars, faultVars
<1>1. ASSUME NoCredentials(c) PROVE SInv(c)' /\ Fresh(c)'
  BY <1>1 DEF NoCredentials, End, Goto, NoFault
<1>2. ASSUME EnsureAuthenticated(c) PROVE SInv(c)' /\ Fresh(c)'
  BY <1>2 DEF EnsureAuthenticated, Goto, NoFault
<1>3. ASSUME SendLogin(c) PROVE SInv(c)' /\ Fresh(c)'
  BY <1>3 DEF SendLogin, Goto, NoFault
<1>4. ASSUME Authenticated(c) PROVE SInv(c)' /\ Fresh(c)'
  BY <1>4 DEF Authenticated, Goto, Consumed, NoFault
<1>5. ASSUME LoginRaises(c) PROVE SInv(c)' /\ Fresh(c)'
  BY <1>5 DEF LoginRaises, End, Goto, Consumed, NoFault
<1>6. ASSUME SendRequest(c) PROVE SInv(c)' /\ Fresh(c)'
  BY <1>6 DEF SendRequest, Goto, NoFault
<1>7. ASSUME Reauthenticate(c) PROVE SInv(c)' /\ Fresh(c)'
  BY <1>7 DEF Reauthenticate, Relogin, Goto, Consumed, NoFault
<1>8. ASSUME RequestRaises(c) PROVE SInv(c)' /\ Fresh(c)'
  BY <1>8 DEF RequestRaises, Accepted, End, Goto, Consumed, NoFault
<1>9. ASSUME Return(c) PROVE SInv(c)' /\ Fresh(c)'
  BY <1>9 DEF Return, Accepted, End, Goto, Consumed, NoFault
<1>10. ASSUME TimeOut(c) PROVE SInv(c)' /\ Fresh(c)'
  BY <1>10 DEF TimeOut, End, Goto, NoFault, Strike
<1>11. ASSUME ServeLogin(c) PROVE SInv(c)' /\ Fresh(c)'
  BY <1>11 DEF ServeLogin, NoFault
<1>12. ASSUME ServeRequest(c) PROVE SInv(c)' /\ Fresh(c)'
  BY <1>12 DEF ServeRequest, NoFault
<1>13. ASSUME Expire(c) PROVE SInv(c)' /\ Fresh(c)'
  BY <1>13 DEF Expire, Setback, NoFault
<1>14. ASSUME GiveNoSession(c) PROVE SInv(c)' /\ Fresh(c)'
  BY <1>14 DEF GiveNoSession, Setback, NoFault
<1>15. ASSUME Intercept(c) PROVE SInv(c)' /\ Fresh(c)'
  BY <1>15 DEF Intercept, Strike
<1>16. ASSUME Lose(c) PROVE SInv(c)' /\ Fresh(c)'
  BY <1>16 DEF Lose, Strike
<1>17. ASSUME Kill(c) PROVE SInv(c)' /\ Fresh(c)'
  BY <1>17 DEF Kill, Goto, Strike
<1>18. ASSUME NEW method \in Op, NEW credentials \in {"right", "wrong"},
             Start(c, method, credentials)
      PROVE  SInv(c)' /\ Fresh(c)'
  BY <1>18 DEF Start, Goto, NoFault
<1> QED BY <1>1, <1>2, <1>3, <1>4, <1>5, <1>6, <1>7, <1>8, <1>9, <1>10, <1>11, <1>12, <1>13, <1>14, <1>15, <1>16, <1>17, <1>18 DEF ClientStep, Serve

\* An expired session, or one that was not given, is not seen by the caller, for
\* every set of calls and any number of failures.
THEOREM ClientHidesExpiry == Spec => []ExpiryIsTransparent
<1>1. Init => SessionInv
  BY DEF Init, SessionInv, SInv, Fresh
<1>2. IInv /\ SessionInv /\ [Next]_vars => SessionInv'
  <2> SUFFICES ASSUME IInv, SessionInv, [Next]_vars
               PROVE  SessionInv'
    OBVIOUS
  <2>1. CASE UNCHANGED vars
    BY <2>1 DEF vars, clientVars, netVars, callVars, faultVars, SessionInv, SInv,
                UnhurtInv, Needed, Fresh
  <2>2. CASE ChangePassword
    BY <2>2 DEF ChangePassword, Strike, netVars, callVars, IInv, TypeOK, SessionInv,
                SInv, Fresh
  <2>3. ASSUME NEW c \in Call,
               ClientStep(c) \/ Serve(c) \/ Expire(c) \/ GiveNoSession(c)
                 \/ Intercept(c) \/ Lose(c) \/ Kill(c)
        PROVE  SessionInv'
    <3>1. SInv(c)' /\ Fresh(c)'
      BY <2>3, CallStepKeepsSession DEF IInv, SessionInv
    <3>2. ASSUME NEW d \in Call \ {c}
          PROVE  SInv(d)' /\ Fresh(d)'
      BY <2>3, <3>2, CallStepIsLocal DEF IInv, SessionInv, SInv, UnhurtInv, Needed,
                                         Fresh, Untouched
    <3> QED BY <3>1, <3>2 DEF SessionInv
  <2> QED BY <2>1, <2>2, <2>3 DEF Next
<1>3. IInv /\ SessionInv => ExpiryIsTransparent
  BY DEF SessionInv, SInv, UnhurtInv, ExpiryIsTransparent
<1> QED BY <1>1, <1>2, <1>3, ClientInvariant, PTL DEF Spec
=============================================================================
