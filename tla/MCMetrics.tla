----------------------------- MODULE MCMetrics -----------------------------
(***************************************************************************)
(* MetricCadence for TLC: the values of its constants are in the cfg.      *)
(***************************************************************************)
EXTENDS MetricCadence
=============================================================================
