----------------------------- MODULE SerialLink -----------------------------
(***************************************************************************)
(* SerialCommunicationImpl.cpp: the TCP connection to the socat process that *)
(* serves an RS-485 line.  socket_mutex_ makes the calls follow each other.   *)
(*                                                                         *)
(* A read with a timeout starts an asynchronous read and runs the io_context *)
(* for that time.  When the time is up the call returns 0 and the read stays *)
(* outstanding, with the caller's buffer and two variables of the call that   *)
(* is over: it takes bytes in every later run.  In the same way a connect    *)
(* that timed out may still come about.                                     *)
(***************************************************************************)
EXTENDS Naturals, Sequences

CONSTANTS Sizes,        \* sizes that reads ask for
          MaxBytes,     \* bound: bytes that arrive on one connection
          MaxConnects,  \* bound: calls of connect()
          MaxReads      \* bound: reads outstanding

ASSUME SerialSizes == Sizes \subseteq Nat

VARIABLES
    socket,     \* "closed", "refused", "connecting" or "connected"
    arrived,    \* bytes that have arrived on this connection
    taken,      \* bytes that have been read from it
    reads,      \* asynchronous reads outstanding, in the order in which they get bytes
    busy,       \* a read with a timeout runs the io_context
    delivered,  \* bytes of this connection that reads have returned
    timedOut,   \* a read on this connection has timed out
    connects

serialVars == <<socket, arrived, taken, reads, busy, delivered, timedOut, connects>>

SerialInit ==
    /\ socket = "closed" /\ arrived = 0 /\ taken = 0
    /\ reads = <<>> /\ busy = FALSE
    /\ delivered = <<>> /\ timedOut = FALSE /\ connects = 0

\* isConnected asks whether the socket is open.
SerialIsConnected == socket # "closed"

\* socketDisconnect cancels the outstanding reads.
SocketDisconnect ==
    reads' = <<>> /\ arrived' = 0 /\ taken' = 0 /\ delivered' = <<>> /\ timedOut' = FALSE

SerialDisconnect ==
    /\ ~busy /\ SerialIsConnected
    /\ socket' = "closed"
    /\ SocketDisconnect
    /\ UNCHANGED <<busy, connects>>

\* connect() without its disconnect().
SerialConnectFaulty ==
    /\ ~busy /\ connects < MaxConnects
    /\ connects' = connects + 1
    /\ arrived' = 0 /\ taken' = 0 /\ delivered' = <<>> /\ timedOut' = FALSE
    /\ socket' \in {"connected", "connecting", "refused", "closed"}
    /\ UNCHANGED <<busy, reads>>

\* Only "connected" makes it return true.  An exception from open() leaves the
\* socket closed.
SerialConnect ==
    /\ ~busy /\ connects < MaxConnects
    /\ connects' = connects + 1
    /\ SocketDisconnect
    /\ socket' \in {"connected", "connecting", "refused", "closed"}
    /\ UNCHANGED busy

LateConnect ==
    /\ socket = "connecting"
    /\ socket' \in {"connected", "refused"}
    /\ UNCHANGED <<arrived, taken, reads, busy, delivered, timedOut, connects>>

ByteArrives ==
    /\ socket = "connected" /\ arrived < MaxBytes
    /\ arrived' = arrived + 1
    /\ UNCHANGED <<socket, taken, reads, busy, delivered, timedOut, connects>>

---------------------------------------------------------------------------

Bytes(n) == [i \in 1 .. n |-> taken + i]

\* read() without a timeout, once the bytes are there or the other side has
\* closed; it returns what it has, or -1 for nothing.
BlockingRead(n) ==
    /\ ~busy /\ socket = "connected"
    /\ LET k == IF arrived - taken < n THEN arrived - taken ELSE n
       IN  /\ taken' = taken + k
           /\ delivered' = delivered \o Bytes(k)
           /\ IF k = n THEN UNCHANGED <<socket, reads>> ELSE socket' = "refused" /\ reads' = <<>>
    /\ UNCHANGED <<arrived, busy, timedOut, connects>>

\* read() with a timeout; on a socket without a connection it fails at once.
BeginRead(n) ==
    /\ ~busy /\ socket = "connected" /\ Len(reads) < MaxReads
    /\ busy' = TRUE
    /\ reads' = Append(reads, [size |-> n, bytes |-> <<>>, own |-> TRUE])
    /\ UNCHANGED <<socket, arrived, taken, delivered, timedOut, connects>>

\* The first read in the queue takes what there is.  If that is not all it wants,
\* it queues up again behind the others.  The run goes on while any is left.
Transfer ==
    /\ busy /\ taken < arrived
    /\ LET r == reads[1]
           need == r.size - Len(r.bytes)
           k == IF arrived - taken < need THEN arrived - taken ELSE need
           bytes == r.bytes \o Bytes(k)
       IN  /\ taken' = taken + k
           /\ reads' = IF k < need THEN Append(Tail(reads), [r EXCEPT !.bytes = bytes]) ELSE Tail(reads)
           /\ delivered' = IF k = need /\ r.own THEN delivered \o bytes ELSE delivered
    /\ busy' = (reads' # <<>>)
    /\ UNCHANGED <<socket, arrived, timedOut, connects>>

\* The call returns 0 if its read is still outstanding, also when a part of its
\* bytes is in the buffer.
ReadTimesOut ==
    /\ busy
    /\ busy' = FALSE
    /\ timedOut' = (timedOut \/ \E i \in DOMAIN reads : reads[i].own)
    /\ reads' = [i \in DOMAIN reads |-> [reads[i] EXCEPT !.own = FALSE]]
    /\ UNCHANGED <<socket, arrived, taken, delivered, connects>>

\* The other side closes: every outstanding read ends, and the call returns the
\* bytes of its own, or -1 for none.
PeerCloses ==
    /\ busy
    /\ busy' = FALSE /\ socket' = "refused" /\ reads' = <<>>
    /\ \/ \E i \in DOMAIN reads : reads[i].own /\ delivered' = delivered \o reads[i].bytes
       \/ (\A i \in DOMAIN reads : ~reads[i].own) /\ UNCHANGED delivered
    /\ UNCHANGED <<arrived, taken, timedOut, connects>>

SerialNext ==
    \/ SerialDisconnect \/ SerialConnect \/ LateConnect \/ ByteArrives
    \/ \E n \in Sizes : BlockingRead(n) \/ BeginRead(n)
    \/ Transfer \/ ReadTimesOut \/ PeerCloses

---------------------------------------------------------------------------

\* Reads return the bytes of the line in the order in which they came, and
\* without a gap as long as no read of this connection has timed out
\* (SerialCommunicationImpl.cpp:84-112): a read that timed out takes bytes that
\* belong to later calls, until the socket is closed.
BytesInOrder ==
    /\ \A i, j \in DOMAIN delivered : i < j => delivered[i] < delivered[j]
    /\ ~timedOut => \A i \in DOMAIN delivered : delivered[i] = i
    /\ ~timedOut /\ ~busy => reads = <<>>
=============================================================================
