--------------------------- MODULE MCPiholeClient ---------------------------
(* Small instances of PiholeClient for TLC. *)
EXTENDS PiholeClient
=============================================================================
