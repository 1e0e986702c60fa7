------------------------- MODULE MCDiscoveryService -------------------------
(* Small instances of DiscoveryService for TLC. *)
EXTENDS DiscoveryService
=============================================================================
