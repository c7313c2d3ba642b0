-------------------------- MODULE MCResourceHistory --------------------------
(***************************************************************************)
(* The local metrics service with its history and chart.                   *)
(***************************************************************************)
EXTENDS ResourceHistorySeries
=============================================================================
