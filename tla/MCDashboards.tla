---------------------------- MODULE MCDashboards ----------------------------
(* Dashboards with two tabs. *)
EXTENDS Dashboards
=============================================================================
