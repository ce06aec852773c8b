----------------------------- MODULE MCDashboard -----------------------------
(* The dashboard client for TLC.                                            *)
EXTENDS Dashboard
=============================================================================
