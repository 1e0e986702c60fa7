---------------------------- MODULE NoticeOutbox ----------------------------
(***************************************************************************)
(* What services/notifications promises its callers: an outbox.  What was  *)
(* handed over while the process was up is sent once and once only, though *)
(* the process ends meanwhile, and though what is sent may get lost.  Only *)
(* a kill loses what is in the outbox.                                     *)
(***************************************************************************)
CONSTANT Call  \* what can be sent: a notice, to a provider

VARIABLES
  pending,   \* handed over, not yet sent
  sent,
  delivered, \* sent, and got there
  process

outboxVars == <<pending, sent, delivered, process>>

Init ==
  /\ pending = {}
  /\ sent = {}
  /\ delivered = {}
  /\ process = "up"

HandOver(k) ==
  /\ process = "up"
  /\ k \notin pending \cup sent
  /\ pending' = pending \cup {k}
  /\ UNCHANGED <<sent, delivered, process>>

Send(k) ==
  /\ process \in {"up", "draining"}
  /\ k \in pending
  /\ pending' = pending \ {k}
  /\ sent' = sent \cup {k}
  /\ delivered' \in {delivered, delivered \cup {k}}
  /\ UNCHANGED process

Drain ==
  /\ process = "up"
  /\ process' = "draining"
  /\ UNCHANGED <<pending, sent, delivered>>

End ==
  /\ process = "draining"
  /\ pending = {}
  /\ process' = "ended"
  /\ UNCHANGED <<pending, sent, delivered>>

Lose ==
  /\ process \in {"up", "draining"}
  /\ process' = "killed"
  /\ UNCHANGED <<pending, sent, delivered>>

Next ==
  \/ \E k \in Call : HandOver(k) \/ Send(k)
  \/ Drain \/ End \/ Lose

Spec == Init /\ [][Next]_outboxVars
=============================================================================
