------------------------------ MODULE MCRtsiIO ------------------------------
(***************************************************************************)
(* Instances of RtsiIO for TLC.                                             *)
(***************************************************************************)
EXTENDS RtsiIO

=============================================================================
