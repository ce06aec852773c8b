---------------------------- MODULE MCTcpServer ----------------------------
(***************************************************************************)
(* Instances of TcpServer for TLC.                                          *)
(***************************************************************************)
EXTENDS TcpServer, TLC

CONSTANTS s1, s2, c1, c2, c3

\* Three robots take turns on one port.
OnePort == [c \in {c1, c2, c3} |-> s1]

\* Two ports share the background thread; two robots take turns on the first.
TwoPorts == (c1 :> s1) @@ (c2 :> s1) @@ (c3 :> s2)

Symmetry == Permutations(Conns)
=============================================================================
