----------------------------- MODULE ClientSlot -----------------------------
(***************************************************************************)
(* What a TcpServer promises its owner: a slot that holds at most one       *)
(* client.  A new client takes the slot, and whoever held it is hung up on  *)
(* in the same step; a client that has lost its slot, or was turned away,   *)
(* never gets it back.                                                      *)
(***************************************************************************)
CONSTANTS Servers, Conns, ServerOf, None

VARIABLES
    slot,   \* the client each server serves
    gone    \* the connections that were hung up on

vars == <<slot, gone>>

Init == slot = [s \in Servers |-> None] /\ gone = {}

Holder(s) == {slot[s]} \ {None}

Attach(c) ==
    /\ c \notin gone \cup Holder(ServerOf[c])
    /\ slot' = [slot EXCEPT ![ServerOf[c]] = c]
    /\ gone' = gone \cup Holder(ServerOf[c])

\* The client is lost; connections in D are turned away unserved.
Detach(s, D) ==
    /\ slot' = [slot EXCEPT ![s] = None]
    /\ gone' = gone \cup Holder(s) \cup D

Refuse(D) ==
    /\ \A s \in Servers : Holder(s) \cap D = {}
    /\ gone' = gone \cup D
    /\ UNCHANGED slot

Next ==
    \/ \E c \in Conns : Attach(c)
    \/ \E s \in Servers, D \in SUBSET Conns : Detach(s, D)
    \/ \E D \in SUBSET Conns : Refuse(D)

Spec == Init /\ [][Next]_vars
=============================================================================
