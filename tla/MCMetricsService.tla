-------------------------- MODULE MCMetricsService --------------------------
(* Small instances of MetricsService for TLC. *)
EXTENDS MetricsService
=============================================================================
