----------------------------- MODULE PiholeCall -----------------------------
(***************************************************************************)
(* What a service may assume of one call of the Pi-hole client: the        *)
(* Pi-hole performs the operation at most once; a download that returns    *)
(* was performed, while a test or an upload that returns was performed     *)
(* unless somebody else answered it in JSON; a call that reports a refused *)
(* password was not performed and never will be; any other exception says  *)
(* nothing.                                                                *)
(***************************************************************************)
EXTENDS Naturals

CONSTANT Call   \* the calls, each with a client object of its own

VARIABLES
  op,      \* the method that was called
  times,   \* how often the Pi-hole performed the operation of each call
  forged,  \* the calls whose request somebody else answered with 200 and JSON
  result   \* what the caller knows

promiseVars == <<op, times, forged, result>>

Op == {"test", "download", "upload"}

Init ==
  /\ op = [c \in Call |-> "test"]
  /\ times = [c \in Call |-> 0]
  /\ forged = {}
  /\ result = [c \in Call |-> "open"]

Begin(c, method) ==
  /\ result[c] = "open"
  /\ times[c] = 0
  /\ op' = [op EXCEPT ![c] = method]
  /\ UNCHANGED <<times, forged, result>>

\* The Pi-hole may still be at work when the caller has given up.
Perform(c) ==
  /\ times[c] = 0
  /\ result[c] \in {"open", "failed"}
  /\ times' = [times EXCEPT ![c] = 1]
  /\ UNCHANGED <<op, forged, result>>

Forge(c) ==
  /\ result[c] = "open"
  /\ forged' = forged \cup {c}
  /\ UNCHANGED <<op, times, result>>

\* Only a download is told from what somebody else sends: it is a ZIP archive.
Return(c) ==
  /\ result[c] = "open"
  /\ \/ /\ times[c] = 1 \/ (op[c] # "download" /\ c \in forged)
        /\ result' = [result EXCEPT ![c] = "ok"]
     \/ times[c] = 0 /\ result' = [result EXCEPT ![c] = "denied"]
     \/ result' = [result EXCEPT ![c] = "failed"]
  /\ UNCHANGED <<op, times, forged>>

Next ==
  \E c \in Call :
    Perform(c) \/ Forge(c) \/ Return(c) \/ (\E method \in Op : Begin(c, method))

Spec == Init /\ [][Next]_promiseVars
=============================================================================
