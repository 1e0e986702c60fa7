----------------------------- MODULE MCContainer -----------------------------
(* Small instances of Container for TLC. *)
EXTENDS Container
=============================================================================
