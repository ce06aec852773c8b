------------------------------ MODULE MCDriver ------------------------------
(* The driver with a robot that may fetch its script over a connection.     *)
EXTENDS Driver
=============================================================================
