--------------------------- MODULE MCPrimaryPort ---------------------------
(***************************************************************************)
(* Instances of PrimaryPort for TLC.                                        *)
(***************************************************************************)
EXTENDS PrimaryPort, TLC

Symmetry == Permutations(Users) \cup Permutations(Types)
=============================================================================
