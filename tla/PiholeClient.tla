---------------------------- MODULE PiholeClient ----------------------------
(***************************************************************************)
(* services/pihole_client.py and the three calls the application makes     *)
(* with it: the connection test, the Teleporter download of a backup and   *)
(* the upload of a restore.  Each call has a client object of its own,     *)
(* logs in, sends its request, and logs in and sends it once more when the *)
(* Pi-hole answers 401.  Sessions expire, passwords change, a proxy may    *)
(* answer in the Pi-hole's place, and requests and answers get lost.       *)
(***************************************************************************)
EXTENDS Naturals

CONSTANTS
  Call,       \* the calls, each with a client object of its own
  MaxFaults   \* bound on the failures of network, proxy and processes

ASSUME ClientAssumption == MaxFaults \in Nat

VARIABLES
  pc,         \* the statement each call executes next
  op,         \* the method that was called
  after,      \* where authenticate() returns to
  retried,    \* the request was answered 401 before
  session,    \* the client's session_id, and what the Pi-hole thinks of it
  password,   \* PIHOLE_{PREFIX}_PASSWORD
  wire,       \* the HTTP request on its way to the Pi-hole
  answer,     \* the HTTP answer on its way back
  times,      \* how often the Pi-hole performed the operation
  result,     \* what the caller gets
  setbacks,   \* history: sessions lost or not given, up to two
  forged,     \* history: the calls whose request a proxy answered with 200 and JSON
  hit,        \* history: the calls a failure fell upon
  faults

clientVars == <<pc, op, after, retried, session, password>>
netVars == <<wire, answer>>
callVars == <<times, result>>
faultVars == <<hit, faults>>
vars == <<clientVars, netVars, callVars, setbacks, forged, faultVars>>

Op == {"test", "download", "upload"}

\* An answer of 200 may come from a proxy: a page, or JSON that says something else.
Answer == {"none", "granted", "no_sid", "refused", "error", "page", "json", "done"}

Init ==
  /\ pc = [c \in Call |-> "idle"]
  /\ op = [c \in Call |-> "test"]
  /\ after = [c \in Call |-> "request"]
  /\ retried = [c \in Call |-> FALSE]
  /\ session = [c \in Call |-> "none"]
  /\ password = [c \in Call |-> "missing"]
  /\ wire = [c \in Call |-> "none"]
  /\ answer = [c \in Call |-> "none"]
  /\ times = [c \in Call |-> 0]
  /\ result = [c \in Call |-> "open"]
  /\ setbacks = [c \in Call |-> 0]
  /\ forged = {}
  /\ hit = {}
  /\ faults = 0

Goto(c, label) == pc' = [pc EXCEPT ![c] = label]

NoFault == UNCHANGED faultVars

Strike(C) ==
  /\ faults < MaxFaults
  /\ faults' = faults + 1
  /\ hit' = hit \cup C

\* The answer has been read.
Consumed(c) == answer' = [answer EXCEPT ![c] = "none"] /\ UNCHANGED wire

\* Return to the caller, or raise to it.
End(c, r) ==
  /\ Goto(c, "ended")
  /\ result' = [result EXCEPT ![c] = r]
  /\ UNCHANGED <<op, after, retried, session, password, times, setbacks, forged>>

-----------------------------------------------------------------------------
(* The client.                                                             *)

\* get_credentials raises before any client exists.
NoCredentials(c) ==
  /\ pc[c] = "idle"
  /\ End(c, "denied")
  /\ NoFault
  /\ UNCHANGED netVars

\* test_connection logs in first, the other methods let _request_with_reauth do it.
Start(c, method, credentials) ==
  /\ pc[c] = "idle"
  /\ op' = [op EXCEPT ![c] = method]
  /\ password' = [password EXCEPT ![c] = credentials]
  /\ Goto(c, IF method = "test" THEN "login" ELSE "ensure")
  /\ after' = [after EXCEPT ![c] = "ensure"]
  /\ NoFault
  /\ UNCHANGED <<retried, session, netVars, callVars, setbacks, forged>>

EnsureAuthenticated(c) ==
  /\ pc[c] = "ensure"
  /\ Goto(c, IF session[c] = "none" THEN "login" ELSE "request")
  /\ after' = [after EXCEPT ![c] = "request"]
  /\ NoFault
  /\ UNCHANGED <<op, retried, session, password, netVars, callVars, setbacks, forged>>

SendLogin(c) ==
  /\ pc[c] = "login"
  /\ wire' = [wire EXCEPT ![c] = "login"]
  /\ Goto(c, "await_login")
  /\ NoFault
  /\ UNCHANGED <<op, after, retried, session, password, answer, callVars, setbacks, forged>>

\* An answer without a sid makes authenticate() return False; nobody looks.
Authenticated(c) ==
  /\ pc[c] = "await_login"
  /\ answer[c] \in {"granted", "no_sid", "json"}
  /\ session' = [session EXCEPT ![c] = IF answer[c] = "granted" THEN "valid" ELSE @]
  /\ Goto(c, after[c])
  /\ Consumed(c)
  /\ NoFault
  /\ UNCHANGED <<op, after, retried, password, callVars, setbacks, forged>>

\* Mutant: a result the callers do not know.
LoginRaisesTrue(c) ==
  /\ pc[c] = "await_login"
  /\ answer[c] \in {"refused", "error", "page"}
  /\ End(c, IF answer[c] = "refused" THEN "refused" ELSE "failed")
  /\ Consumed(c)
  /\ NoFault

\* 401 is "Invalid Pi-hole password"; any other error and a page that is not JSON
\* raise too.
LoginRaises(c) ==
  /\ pc[c] = "await_login"
  /\ answer[c] \in {"refused", "error", "page"}
  /\ End(c, IF answer[c] = "refused" THEN "denied" ELSE "failed")
  /\ Consumed(c)
  /\ NoFault

\* _get_headers sends the session id if there is one.
SendRequest(c) ==
  /\ pc[c] = "request"
  /\ wire' = [wire EXCEPT ![c] = "request"]
  /\ Goto(c, "await")
  /\ NoFault
  /\ UNCHANGED <<op, after, retried, session, password, answer, callVars, setbacks, forged>>

Relogin(c) ==
  /\ session' = [session EXCEPT ![c] = "none"]
  /\ retried' = [retried EXCEPT ![c] = TRUE]
  /\ after' = [after EXCEPT ![c] = "request"]
  /\ Goto(c, "login")
  /\ Consumed(c)
  /\ NoFault
  /\ UNCHANGED <<op, password, callVars, setbacks, forged>>

\* Mutant: any error status is retried, not only 401.
ReauthenticateOnError(c) ==
  /\ pc[c] = "await"
  /\ answer[c] \in {"refused", "error"}
  /\ ~retried[c]
  /\ Relogin(c)

\* Mutant: every 401 is retried.
ReauthenticateAgain(c) ==
  /\ pc[c] = "await"
  /\ answer[c] = "refused"
  /\ Relogin(c)

\* Mutant: the retried request carries the headers of the first.
ResendOldSession(c) ==
  /\ pc[c] = "await"
  /\ answer[c] = "refused"
  /\ ~retried[c]
  /\ retried' = [retried EXCEPT ![c] = TRUE]
  /\ Goto(c, "request")
  /\ Consumed(c)
  /\ NoFault
  /\ UNCHANGED <<op, after, session, password, callVars, setbacks, forged>>

Reauthenticate(c) ==
  /\ pc[c] = "await"
  /\ answer[c] = "refused"
  /\ ~retried[c]
  /\ Relogin(c)

\* Mutant: _validate_zip_content accepts what is no ZIP archive.
AcceptsJson(c) == {"done", "json"}

\* test_connection and upload_teleporter_backup return response.json() of whatever
\* was answered with 200; a download is looked at by _validate_zip_content.
Accepted(c) == {"done"} \cup (IF op[c] = "download" THEN {} ELSE {"json"})

\* raise_for_status, response.json() or _validate_zip_content.
RequestRaises(c) ==
  /\ pc[c] = "await"
  /\ answer[c] \notin Accepted(c) \cup {"none"}
  /\ answer[c] = "refused" => retried[c]
  /\ End(c, "failed")
  /\ Consumed(c)
  /\ NoFault

Return(c) ==
  /\ pc[c] = "await"
  /\ answer[c] \in Accepted(c)
  /\ End(c, "ok")
  /\ Consumed(c)
  /\ NoFault

\* No connection, a broken one, or no answer in time.  The Pi-hole may still be at
\* work on what it was sent.
TimeOut(c) ==
  /\ pc[c] \in {"await_login", "await"}
  /\ answer[c] = "none"
  /\ IF wire[c] = "none" THEN NoFault ELSE Strike({c})
  /\ End(c, "failed")
  /\ UNCHANGED netVars

ClientStep(c) ==
  \/ NoCredentials(c)
  \/ \E method \in Op, credentials \in {"right", "wrong"} : Start(c, method, credentials)
  \/ EnsureAuthenticated(c) \/ SendLogin(c) \/ Authenticated(c) \/ LoginRaises(c)
  \/ SendRequest(c) \/ Reauthenticate(c) \/ RequestRaises(c) \/ Return(c) \/ TimeOut(c)

-----------------------------------------------------------------------------
(* The Pi-hole, and what lies between.                                     *)

ServeLogin(c) ==
  /\ wire[c] = "login"
  /\ wire' = [wire EXCEPT ![c] = "none"]
  /\ answer' = [answer EXCEPT
                  ![c] = IF password[c] = "right" THEN "granted" ELSE "refused"]
  /\ NoFault
  /\ UNCHANGED <<clientVars, callVars, setbacks, forged>>

\* Without a valid session nothing is performed.
ServeRequest(c) ==
  /\ wire[c] = "request"
  /\ wire' = [wire EXCEPT ![c] = "none"]
  /\ IF session[c] = "valid"
       THEN /\ times' = [times EXCEPT ![c] = @ + 1]
            /\ answer' = [answer EXCEPT ![c] = "done"]
       ELSE /\ answer' = [answer EXCEPT ![c] = "refused"]
            /\ UNCHANGED times
  /\ NoFault
  /\ UNCHANGED <<clientVars, result, setbacks, forged>>

Setback(c) ==
  setbacks' = [setbacks EXCEPT ![c] = IF @ = 2 THEN 2 ELSE @ + 1]

\* Sessions time out, and end when the Pi-hole restarts.
Expire(c) ==
  /\ session[c] = "valid"
  /\ session' = [session EXCEPT ![c] = "expired"]
  /\ Setback(c)
  /\ NoFault
  /\ UNCHANGED <<pc, op, after, retried, password, netVars, callVars, forged>>

\* A login is answered without a sid.
GiveNoSession(c) ==
  /\ wire[c] = "login"
  /\ setbacks[c] < 2
  /\ wire' = [wire EXCEPT ![c] = "none"]
  /\ answer' = [answer EXCEPT ![c] = "no_sid"]
  /\ Setback(c)
  /\ NoFault
  /\ UNCHANGED <<clientVars, callVars, forged>>

\* The Pi-hole's password is changed, which ends its sessions.
ChangePassword ==
  /\ Strike(Call)
  /\ password' = [c \in Call |-> IF password[c] = "right" THEN "wrong" ELSE password[c]]
  /\ session' = [c \in Call |-> IF session[c] = "valid" THEN "expired" ELSE session[c]]
  /\ UNCHANGED <<pc, op, after, retried, netVars, callVars, setbacks, forged>>

\* A proxy answers a request it did not pass on, with a 401 of its own perhaps, or
\* replaces the Pi-hole's answer.
Intercept(c) ==
  /\ Strike({c})
  /\ \E a \in {"error", "page", "json", "refused"} :
       /\ \/ wire[c] # "none" /\ wire' = [wire EXCEPT ![c] = "none"]
          \/ answer[c] # "none" /\ a # "refused" /\ UNCHANGED wire
       /\ answer' = [answer EXCEPT ![c] = a]
       /\ forged' = IF a = "json" /\ pc[c] = "await" THEN forged \cup {c} ELSE forged
  /\ UNCHANGED <<clientVars, callVars, setbacks>>

\* The request or the answer is lost.
Lose(c) ==
  /\ Strike({c})
  /\ wire[c] # "none" \/ answer[c] # "none"
  /\ wire' = [wire EXCEPT ![c] = "none"]
  /\ answer' = [answer EXCEPT ![c] = "none"]
  /\ UNCHANGED <<clientVars, callVars, setbacks, forged>>

\* The process of the caller dies: gunicorn kills a worker after 30 seconds, and a
\* request may take 120.
Kill(c) ==
  /\ pc[c] \notin {"idle", "ended", "killed"}
  /\ Strike({c})
  /\ Goto(c, "killed")
  /\ UNCHANGED <<op, after, retried, session, password, netVars, callVars, setbacks, forged>>

Serve(c) == ServeLogin(c) \/ ServeRequest(c)

Next ==
  \/ ChangePassword
  \/ \E c \in Call :
       \/ ClientStep(c) \/ Serve(c) \/ Expire(c) \/ GiveNoSession(c)
       \/ Intercept(c) \/ Lose(c) \/ Kill(c)

Spec == Init /\ [][Next]_vars

FairSpec == Spec /\ \A c \in Call : WF_vars(ClientStep(c)) /\ WF_vars(Serve(c))

-----------------------------------------------------------------------------
\* Each variable holds values of its kind.
TypeOK ==
  /\ pc \in [Call -> {"idle", "login", "await_login", "ensure", "request", "await",
                      "ended", "killed"}]
  /\ op \in [Call -> Op]
  /\ after \in [Call -> {"ensure", "request"}]
  /\ retried \in [Call -> BOOLEAN]
  /\ session \in [Call -> {"none", "valid", "expired"}]
  /\ password \in [Call -> {"right", "wrong", "missing"}]
  /\ wire \in [Call -> {"none", "login", "request"}]
  /\ answer \in [Call -> Answer]
  /\ times \in [Call -> Nat]
  /\ result \in [Call -> {"open", "ok", "denied", "failed"}]
  /\ setbacks \in [Call -> 0 .. 2]
  /\ forged \subseteq Call
  /\ hit \subseteq Call
  /\ faults \in 0 .. MaxFaults

Abstract == INSTANCE PiholeCall

\* The request that is sent a second time, the answer that is lost and what a proxy
\* sends leave the caller with the promise of PiholeCall: the Pi-hole performs the
\* operation at most once (a 401 is the only answer that is retried, and what was
\* answered 401 was not done), a refused password means that it was not performed, and
\* success that it was; but a test and an upload also succeed when a proxy answered
\* them with 200 and JSON, which a download does not.
ImplementsCall == Abstract!Spec

\* A session that expires between two requests, or a login answered without a sid,
\* is not seen by the caller: with the right password and no other failure, a call
\* fails only if it lost two sessions (_request_with_reauth retries exactly once).
ExpiryIsTransparent ==
  \A c \in Call :
    result[c] \in {"denied", "failed"} =>
      c \in hit \/ password[c] # "right" \/ setbacks[c] = 2

\* Every call comes back, however often sessions expire.
CallsEnd == \A c \in Call : pc[c] # "idle" ~> pc[c] \in {"ended", "killed"}
=============================================================================
