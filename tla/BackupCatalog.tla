---------------------------- MODULE BackupCatalog ----------------------------
(***************************************************************************)
(* What the application promises of the backups it stores, whoever runs    *)
(* and whatever fails: a backup becomes available once, complete; it is    *)
(* withdrawn only after somebody condemned it; and it never comes back.    *)
(***************************************************************************)
VARIABLES
  available,   \* the backups a user can restore or download
  condemned    \* the backups somebody decided to delete

Init == available = {} /\ condemned = {}

Publish ==
  \E b \in available' :
    /\ b \notin available \cup condemned
    /\ available' = available \cup {b}
    /\ UNCHANGED condemned

Condemn ==
  /\ condemned \subseteq condemned'
  /\ condemned' \subseteq condemned \cup available
  /\ UNCHANGED available

Withdraw ==
  \E b \in available \cap condemned :
    /\ available' = available \ {b}
    /\ UNCHANGED condemned

Next == Publish \/ Condemn \/ Withdraw

Spec == Init /\ [][Next]_<<available, condemned>>
==============================================================================
