------------------------- MODULE MCPrimaryCommands -------------------------
(* Two threads that call the commands of one primary port.                   *)
EXTENDS PrimaryCommands
=============================================================================
