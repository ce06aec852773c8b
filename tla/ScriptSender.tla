---------------------------- MODULE ScriptSender ----------------------------
(***************************************************************************)
(* ScriptSender.cpp: the server from which the ExternalControl plugin of the *)
(* robot fetches the control script.  It is a TcpServer with an accept and a *)
(* read loop of its own: the handlers keep a raw `this`, and all connections *)
(* read into one recv_request_buffer_.                                      *)
(*                                                                         *)
(* A request "request_program\n" travels in two pieces, Head and Tail, and  *)
(* only the Tail holds the end of the line.                                 *)
(***************************************************************************)
EXTENDS Naturals, Sequences, FiniteSets

CONSTANT Clients            \* the connections robots may open

ASSUME ClientsAssumption == IsFiniteSet(Clients)

VARIABLES
    sender,     \* the object: "absent", "alive" or "freed"
    accept,     \* its async_accept: "none", "armed" or "aborted"
    conn,       \* each connection: "idle", "backlog", "open" or "closed"
    reading,    \* connections with an async_read_until outstanding
    place,      \* where in the buffer each connection's outstanding read stores
    put,        \* where the buffer expects the next bytes
    requests,   \* recv_request_buffer_: the pieces not yet taken out as lines
    said,       \* pieces of its request each connection has sent: 0, 1 or 2
    reply,      \* what became of its line: "none", "whole", "part", "ignored", "failed"
    mixed,      \* pieces of several requests lie in the buffer, or reads are misplaced
    spoiled,    \* connections of which a piece came in while that was so
    usedFreed   \* a handler has used the sender after it was freed

senderVars == <<sender, accept, conn, reading, place, put, requests, said, reply, mixed, spoiled, usedFreed>>

SenderInit ==
    /\ sender = "absent" /\ accept = "none"
    /\ conn = [c \in Clients |-> "idle"]
    /\ reading = {}
    /\ place = [c \in Clients |-> 0] /\ put = 0
    /\ requests = <<>>
    /\ said = [c \in Clients |-> 0]
    /\ reply = [c \in Clients |-> "none"]
    /\ mixed = FALSE /\ spoiled = {} /\ usedFreed = FALSE

Construct ==
    /\ sender' = "alive" /\ accept' = "armed"
    /\ UNCHANGED <<conn, reading, place, put, requests, said, reply, mixed, spoiled, usedFreed>>

\* ~TcpServer cancels the accept, but the handler still has to run; the sockets
\* of the connections live on in their read handlers.
Destroy ==
    /\ sender' = IF sender = "alive" THEN "freed" ELSE sender
    /\ accept' = IF accept = "armed" THEN "aborted" ELSE accept
    /\ UNCHANGED <<conn, reading, place, put, requests, said, reply, mixed, spoiled, usedFreed>>

\* The io_context is stopped and destroyed with the handlers in it.
SenderShutdown ==
    /\ accept' = "none" /\ reading' = {}
    /\ conn' = [c \in Clients |-> IF conn[c] = "idle" THEN "idle" ELSE "closed"]
    /\ UNCHANGED <<sender, place, put, requests, said, reply, mixed, spoiled, usedFreed>>

ClientConnects(c) ==
    /\ sender = "alive" /\ conn[c] = "idle"
    /\ conn' = [conn EXCEPT ![c] = "backlog"]
    /\ UNCHANGED <<sender, accept, reading, place, put, requests, said, reply, mixed, spoiled, usedFreed>>

---------------------------------------------------------------------------
(* Handlers, on the thread of the io_context.                               *)

\* The accept handler: a connection, whose first request is awaited, or an
\* error; it arms itself again in either case.
Accepted(c) ==
    /\ accept = "armed" /\ conn[c] = "backlog"
    /\ \/ /\ conn' = [conn EXCEPT ![c] = "open"]
          /\ reading' = reading \cup {c}
          /\ place' = [place EXCEPT ![c] = Len(requests)] /\ put' = Len(requests)
       \/ conn' = [conn EXCEPT ![c] = "closed"] /\ UNCHANGED <<reading, place, put>>
    /\ UNCHANGED <<sender, accept, requests, said, reply, mixed, spoiled, usedFreed>>

AcceptAborted ==
    /\ accept = "aborted"
    /\ accept' = "none"
    /\ usedFreed' = TRUE
    /\ UNCHANGED <<sender, conn, reading, place, put, requests, said, reply, mixed, spoiled>>

\* The buffer after piece p came in on connection c.  A read stores where the
\* buffer ended when it was armed.  If another connection has moved the end
\* since, it overwrites that one's piece or stores into memory the buffer has
\* given up, and what the buffer takes for the piece is whatever lies there.
Stored(c, p) ==
    IF place[c] = put
    THEN {Append(requests, p)}
    ELSE {Append(requests, p), Append(requests, "Junk"), <<p, "Junk">>}

Program == <<"Head", "Tail">>

\* What responseRequest does with a line: the script for the request it knows, in
\* one write_some that may send the whole of it or a part, or fail.
Answers(line) == IF line = Program THEN {"whole", "part", "failed"} ELSE {"ignored"}

\* What getline leaves in the buffer.
TakenOutFaulty(buffer, end) == IF SubSeq(buffer, 1, end) = Program THEN SubSeq(buffer, end + 1, Len(buffer)) ELSE buffer

TakenOut(buffer, end) == SubSeq(buffer, end + 1, Len(buffer))

\* The piece of c comes in between those of another, or is stored out of place.
Mixes(c) == place[c] # put \/ (said[c] = 0 /\ \E d \in reading \ {c} : said[d] = 1)

\* Nothing is left of what was mixed.
AsNew == requests = <<>> /\ \A d \in reading : said[d] # 1 /\ place[d] = put

\* The read handler: without the end of a line in the buffer it goes on reading;
\* arming the next read closes the gap at the buffer's front.  When the script could
\* not be written it arms none, and the socket goes with the handler.
Received(c) ==
    /\ c \in reading /\ sender = "alive" /\ said[c] < 2
    /\ said' = [said EXCEPT ![c] = @ + 1]
    /\ \E buffer \in Stored(c, IF said[c] = 0 THEN "Head" ELSE "Tail") :
         LET ends == {i \in DOMAIN buffer : buffer[i] = "Tail"}
             end  == CHOOSE i \in ends : \A j \in ends : i <= j
         IN  IF ends = {}
             THEN /\ requests' = buffer
                  /\ UNCHANGED <<reply, reading, conn>>
                  /\ place' = [place EXCEPT ![c] = Len(buffer)] /\ put' = Len(buffer)
             ELSE /\ requests' = TakenOut(buffer, end)
                  /\ \E a \in Answers(SubSeq(buffer, 1, end)) :
                       /\ reply' = [reply EXCEPT ![c] = a]
                       /\ IF a = "failed"
                          THEN /\ reading' = reading \ {c} /\ conn' = [conn EXCEPT ![c] = "closed"]
                               /\ put' = Len(buffer) /\ UNCHANGED place
                          ELSE /\ put' = Len(requests') /\ UNCHANGED <<reading, conn>>
                               /\ place' = [place EXCEPT ![c] = Len(requests')]
    /\ mixed' = ((mixed \/ Mixes(c)) /\ ~AsNew')
    /\ spoiled' = IF mixed \/ Mixes(c) THEN spoiled \cup {c} ELSE spoiled
    /\ UNCHANGED <<sender, accept, usedFreed>>

\* The read handler with an error: what was read stays in the buffer.
Dropped(c) ==
    /\ c \in reading /\ sender = "alive"
    /\ reading' = reading \ {c}
    /\ conn' = [conn EXCEPT ![c] = "closed"]
    /\ UNCHANGED <<sender, accept, place, put, requests, said, reply, mixed, spoiled, usedFreed>>

\* Data or an error on a connection whose sender is gone.
ReceivedLate(c) ==
    /\ c \in reading /\ sender = "freed"
    /\ reading' = reading \ {c}
    /\ usedFreed' = TRUE
    /\ UNCHANGED <<sender, accept, conn, place, put, requests, said, reply, mixed, spoiled>>

SenderHandler ==
    \/ AcceptAborted
    \/ \E c \in Clients : Accepted(c) \/ Received(c) \/ Dropped(c) \/ ReceivedLate(c)

---------------------------------------------------------------------------

Answered == {"whole", "part", "failed"}

\* Connections whose whole request came in apart from all others and was ignored.
Ignored == {c \in Clients \ spoiled : said[c] = 2 /\ reply[c] \notin Answered}

\* Connections that ended in the middle of their request.
GoneMidway == {c \in Clients \ reading : said[c] = 1}

\* The script is written to a robot only when its own whole request has come in; and
\* a robot that goes in the middle of its request, and leaves a piece in the one
\* recv_request_buffer_, costs at most one later robot its answer.  After pieces of
\* several robots were mixed that holds again as soon as the buffer is empty and all
\* outstanding reads are in place (ScriptSender.cpp:30-43).  The answer is one
\* write_some: it may be the whole script, a part of it, or fail (lines 44-48).
RequestsAnswered ==
    /\ \A c \in Clients : reply[c] \in Answered => said[c] = 2
    /\ Cardinality(Ignored) <= Cardinality(GoneMidway)

\* The handlers never use a ScriptSender that has been destroyed: ~Impl of the
\* driver destroys it while the thread of its io_context still runs
\* (EliteDriver.cpp:53-55).
NoUseAfterFree == ~usedFreed
=============================================================================
