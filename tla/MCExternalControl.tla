------------------------ MODULE MCExternalControl ------------------------
(***************************************************************************)
(* Instances of ExternalControl for TLC: one mode stands for the four that  *)
(* are served by a move thread where only the kind of thread matters.       *)
(***************************************************************************)
EXTENDS ExternalControl
=============================================================================
