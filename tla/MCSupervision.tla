--------------------------- MODULE MCSupervision ---------------------------
(***************************************************************************)
(* The ULP worker and the KPI thread, in the order of UlpOneMilliSecondIsr. *)
(* The cleaner's event is sent and waited for exactly as the worker's is.  *)
(***************************************************************************)
EXTENDS Supervision

MCTickOrder == <<"ulp", "kpi">>
=============================================================================
