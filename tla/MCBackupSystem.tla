--------------------------- MODULE MCBackupSystem ---------------------------
(* Small instances of BackupSystem for TLC. *)
EXTENDS BackupInvariant, TLC

WebSymmetry == Permutations(Web)

\* No action reads delivered: leaving it out loses no behaviour of the rest.
ButDelivered == <<pc, tableVars, fileVars, createVars, deleteVars, sweep, reading, doomed,
                  faultVars>>

AllFaults ==
  TryBlock \cup {"cleanup", "insert_failed", "save_error", "unlink", "delete",
                 "enforce", "select_age", "purge_failed", "send", "crash", "damage"}

\* The save cannot fail here and nobody reads bytes; a failed "write" stands for
\* every statement of the try block before the first insertion.
RetentionFaults == {"write", "insert_success", "unlink", "delete", "enforce",
                    "select_age", "purge_failed", "crash"}
=============================================================================
