----------------------------- MODULE TcpServer -----------------------------
(***************************************************************************)
(* The reverse-connection servers of the SDK (source/Common/TcpServer.cpp). *)
(* Every TcpServer object shares one io_context and one background thread   *)
(* (StaticResource); the thread runs the accept and read handlers of all of *)
(* them, while user threads write to the client, register callbacks and     *)
(* destroy the servers.                                                     *)
(*                                                                          *)
(* A section of code that holds a mutex and cannot block is one action,     *)
(* guarded by the mutex being free.  The two sections that do block while   *)
(* they hold a mutex are states: a user thread inside writeClient           *)
(* (socket_mutex_) and the io thread inside the receive callback            *)
(* (receive_cb_mutex_).                                                     *)
(***************************************************************************)
EXTENDS Naturals, Sequences

CONSTANTS
    Servers,        \* the TcpServer objects that share one StaticResource
    Conns,          \* the connections that robots may open
    ServerOf,       \* the server (port) each connection is made to
    Users,          \* user threads that call writeClient
    Listened,       \* the servers whose owner sets a receive callback
    MaxFrames,      \* bound: frames a robot sends on one connection
    MaxErrors,      \* bound: accept errors the operating system reports
    None

ASSUME ServerOfType == ServerOf \in [Conns -> Servers]
ASSUME ListenedType == Listened \subseteq Servers
ASSUME BoundsType == MaxFrames \in Nat /\ MaxErrors \in Nat
ASSUME NoneIsNew == None \notin Servers \cup Conns

VARIABLES
    life,       \* [Servers -> Life]: the object and the shared_ptr its user holds
    accepting,  \* servers with an async_accept outstanding
    socket,     \* socket_ of each server
    sock,       \* the server's socket object for each connection
    reading,    \* connections with an async_read outstanding
    readBuf,    \* read_buffer_ of each server: the frame last stored there
    queue,      \* completions posted to the io_context, in order
    io,         \* what the background thread is doing, and for whom
    cb,         \* receive_cb_ is set
    listener,   \* the object that receive_cb_ captured still exists
    peer,       \* the robot's end of each connection
    sent, rcvd, \* frames sent by the robot, frames stored by completed reads
    writer,     \* the server a user thread is writing to, inside writeClient
    res,        \* StaticResource
    errors      \* accept errors so far

vars == <<life, accepting, socket, sock, reading, readBuf, queue, io, cb,
          listener, peer, sent, rcvd, writer, res, errors>>
netVars == <<peer, sent, rcvd, errors>>
cbVars  == <<cb, listener>>

Life    == {"absent", "bound", "listening", "orphaned", "dead"}
SockState == {"none", "accepted", "open", "closed"}
Handler == {"idle", "acceptOk", "acceptErr", "rearm", "callback", "release",
            "unwind", "stopped"}

Completion(kind, s, c) == [kind |-> kind, srv |-> s, conn |-> c]

Accepted(c)     == Completion("accepted", ServerOf[c], c)
AcceptFailed(s) == Completion("acceptFailed", s, None)
ReadDone(c)     == Completion("read", ServerOf[c], c)
ReadFailed(c)   == Completion("readFailed", ServerOf[c], c)

Event == {AcceptFailed(s) : s \in Servers} \cup {Accepted(c) : c \in Conns}
         \cup {ReadDone(c) : c \in Conns} \cup {ReadFailed(c) : c \in Conns}

Run(pc, s, c) == [pc |-> pc, srv |-> s, conn |-> c]
Idle    == Run("idle", None, None)
Stopped == Run("stopped", None, None)

\* Faulty form: nobody takes socket_mutex_.
LockedFaulty(s) == FALSE

\* socket_mutex_ of s is held across a blocking call by a user thread.
Locked(s) == \E u \in Users : writer[u] = s

\* receive_cb_mutex_ of s is held while the user's callback runs.
CbLocked(s) == io.pc = "callback" /\ io.srv = s

\* isClientConnected()
IsClientConnected(s) == socket[s] # None /\ sock[socket[s]] = "open"

----------------------------------------------------------------------------
Init ==
    /\ life = [s \in Servers |-> "absent"]
    /\ accepting = [s \in Servers |-> FALSE]
    /\ socket = [s \in Servers |-> None]
    /\ sock = [c \in Conns |-> "none"]
    /\ reading = [c \in Conns |-> FALSE]
    /\ readBuf = [s \in Servers |-> <<None, 0>>]
    /\ queue = <<>>
    /\ io = Idle
    /\ cb = [s \in Servers |-> FALSE]
    /\ listener = [s \in Servers |-> FALSE]
    /\ peer = [c \in Conns |-> "idle"]
    /\ sent = [c \in Conns |-> 0]
    /\ rcvd = [c \in Conns |-> 0]
    /\ writer = [u \in Users |-> None]
    /\ res = "running"
    /\ errors = 0

----------------------------------------------------------------------------
(* User threads.                                                            *)

\* The constructor: bound and listening, or (port still in use after every
\* retry, or another error) an exception and no object.
Construct(s) ==
    /\ life[s] = "absent" /\ res = "running"
    /\ \E outcome \in {"bound", "dead"} : life' = [life EXCEPT ![s] = outcome]
    /\ UNCHANGED <<accepting, socket, sock, reading, readBuf, queue, io, writer,
                   res, cbVars, netVars>>

StartListen(s) ==
    /\ life[s] = "bound" /\ res = "running"
    /\ life' = [life EXCEPT ![s] = "listening"]
    /\ accepting' = [accepting EXCEPT ![s] = TRUE]
    /\ UNCHANGED <<socket, sock, reading, readBuf, queue, io, writer, res,
                   cbVars, netVars>>

\* setReceiveCallback, from the constructor of the object the callback captures.
SetReceiveCallback(s) ==
    /\ s \in Listened /\ ~CbLocked(s)
    /\ life[s] \in {"bound", "listening"} /\ ~cb[s] /\ ~listener[s]
    /\ cb' = [cb EXCEPT ![s] = TRUE]
    /\ listener' = [listener EXCEPT ![s] = TRUE]
    /\ UNCHANGED <<life, accepting, socket, sock, reading, readBuf, queue, io,
                   writer, res, netVars>>

\* unsetReceiveCallback waits for a callback that is running.
UnsetReceiveCallback(s) ==
    /\ cb[s] /\ ~CbLocked(s)
    /\ cb' = [cb EXCEPT ![s] = FALSE]
    /\ UNCHANGED <<life, accepting, socket, sock, reading, readBuf, queue, io,
                   listener, writer, res, netVars>>

\* The captured object goes away after its destructor's body unset the callback.
DestroyListener(s) ==
    /\ listener[s] /\ ~cb[s]
    /\ listener' = [listener EXCEPT ![s] = FALSE]
    /\ UNCHANGED <<life, accepting, socket, sock, reading, readBuf, queue, io,
                   cb, writer, res, netVars>>

\* writeClient with a socket_ present takes the mutex and starts a blocking write.
WriteBegin(u, s) ==
    /\ life[s] \in {"bound", "listening"} /\ writer[u] = None
    /\ ~Locked(s) /\ socket[s] # None
    /\ writer' = [writer EXCEPT ![u] = s]
    /\ UNCHANGED <<life, accepting, socket, sock, reading, readBuf, queue, io,
                   res, cbVars, netVars>>

\* The write returns (bytes or -1); neither outcome changes the server.
WriteEnd(u) ==
    /\ writer[u] # None
    /\ writer' = [writer EXCEPT ![u] = None]
    /\ UNCHANGED <<life, accepting, socket, sock, reading, readBuf, queue, io,
                   res, cbVars, netVars>>

----------------------------------------------------------------------------
(* Closing a socket cancels its read; destroying a server closes both of    *)
(* its descriptors, whose outstanding operations complete with an error.    *)

Aborted(c) == IF c # None /\ reading[c] THEN <<ReadFailed(c)>> ELSE <<>>

\* Faulty form: the old socket stays open.
CloseFaulty(f, c) == f

Close(f, c) == [d \in Conns |-> IF d = c /\ f[d] = "open" THEN "closed" ELSE f[d]]

Cancel(c) == [d \in Conns |-> IF d = c THEN FALSE ELSE reading[d]]

\* ~TcpServer()
Destroy(s) ==
    /\ life' = [life EXCEPT ![s] = "dead"]
    /\ accepting' = [accepting EXCEPT ![s] = FALSE]
    /\ socket' = [socket EXCEPT ![s] = None]
    /\ sock' = Close(sock, socket[s])
    /\ reading' = Cancel(socket[s])
    /\ queue' = queue \o (IF accepting[s] THEN <<AcceptFailed(s)>> ELSE <<>>)
                      \o Aborted(socket[s])

\* The user drops its shared_ptr: the destructor runs here unless a handler of
\* the background thread has locked its weak_ptr to the object.  The user does
\* not write to a server it is destroying, and its listener is destroyed first.
Release(s) ==
    /\ life[s] \in {"bound", "listening"} /\ ~Locked(s) /\ ~listener[s]
    /\ IF io.srv = s
       THEN /\ life' = [life EXCEPT ![s] = "orphaned"]
            /\ UNCHANGED <<accepting, socket, sock, reading, queue>>
       ELSE Destroy(s)
    /\ UNCHANGED <<readBuf, io, writer, res, cbVars, netVars>>

\* EliteDriver::Impl::~Impl: after every server was released, shutdown() stops
\* the io_context ...
Shutdown ==
    /\ res = "running"
    /\ \A s \in Servers : life[s] \in {"absent", "orphaned", "dead"}
    /\ res' = "stopping"
    /\ UNCHANGED <<life, accepting, socket, sock, reading, readBuf, queue, io,
                   writer, cbVars, netVars>>

\* ... and joins the thread; handlers that never ran are destroyed with the
\* io_context, and with them the sockets they hold.
Join ==
    /\ res = "stopping" /\ io.pc = "stopped"
    /\ res' = "joined"
    /\ queue' = <<>>
    /\ sock' = [c \in Conns |-> IF sock[c] = "accepted" THEN "closed" ELSE sock[c]]
    /\ UNCHANGED <<life, accepting, socket, reading, readBuf, io, writer, cbVars,
                   netVars>>

----------------------------------------------------------------------------
(* The network and the operating system.                                    *)

PeerConnect(c) ==
    /\ peer[c] = "idle" /\ life[ServerOf[c]] \in {"bound", "listening"}
    /\ peer' = [peer EXCEPT ![c] = "up"]
    /\ UNCHANGED <<life, accepting, socket, sock, reading, readBuf, queue, io,
                   writer, res, cbVars, sent, rcvd, errors>>

PeerSend(c) ==
    /\ peer[c] = "up" /\ sent[c] < MaxFrames
    /\ sent' = [sent EXCEPT ![c] = @ + 1]
    /\ UNCHANGED <<life, accepting, socket, sock, reading, readBuf, queue, io,
                   writer, res, cbVars, peer, rcvd, errors>>

PeerClose(c) ==
    /\ peer[c] = "up"
    /\ peer' = [peer EXCEPT ![c] = "gone"]
    /\ UNCHANGED <<life, accepting, socket, sock, reading, readBuf, queue, io,
                   writer, res, cbVars, sent, rcvd, errors>>

AcceptCompletes(c) ==
    LET s == ServerOf[c] IN
    /\ accepting[s] /\ peer[c] # "idle" /\ sock[c] = "none"
    /\ accepting' = [accepting EXCEPT ![s] = FALSE]
    /\ sock' = [sock EXCEPT ![c] = "accepted"]
    /\ queue' = Append(queue, Accepted(c))
    /\ UNCHANGED <<life, socket, reading, readBuf, io, writer, res, cbVars, netVars>>

AcceptFails(s) ==
    /\ accepting[s] /\ errors < MaxErrors
    /\ errors' = errors + 1
    /\ accepting' = [accepting EXCEPT ![s] = FALSE]
    /\ queue' = Append(queue, AcceptFailed(s))
    /\ UNCHANGED <<life, socket, sock, reading, readBuf, io, writer, res, cbVars,
                   peer, sent, rcvd>>

\* A whole frame is stored in the buffer that the reads of one server share.
ReadCompletes(c) ==
    /\ reading[c] /\ rcvd[c] < sent[c]
    /\ reading' = [reading EXCEPT ![c] = FALSE]
    /\ rcvd' = [rcvd EXCEPT ![c] = @ + 1]
    /\ readBuf' = [readBuf EXCEPT ![ServerOf[c]] = <<c, rcvd[c] + 1>>]
    /\ queue' = Append(queue, ReadDone(c))
    /\ UNCHANGED <<life, accepting, socket, sock, io, writer, res, cbVars, peer,
                   sent, errors>>

\* End of file or reset; a reset may discard frames that were not read.
ReadFails(c) ==
    /\ reading[c] /\ peer[c] = "gone"
    /\ reading' = [reading EXCEPT ![c] = FALSE]
    /\ queue' = Append(queue, ReadFailed(c))
    /\ UNCHANGED <<life, accepting, socket, sock, readBuf, io, writer, res,
                   cbVars, netVars>>

----------------------------------------------------------------------------
(* The background thread.                                                   *)

Ready(e) == io.pc = "idle" /\ queue # <<>> /\ e = Head(queue)

\* weak_self.lock() fails: the handler does nothing, and an accepted socket that
\* nobody took over is closed with it.
HandlerOfDeadServer ==
    \E e \in Event :
    /\ Ready(e) /\ life[e.srv] = "dead"
    /\ queue' = Tail(queue)
    /\ sock' = [c \in Conns |-> IF e.kind = "accepted" /\ e.conn = c
                                THEN "closed" ELSE sock[c]]
    /\ UNCHANGED <<life, accepting, socket, reading, readBuf, io, writer, res,
                   cbVars, netVars>>

AcceptHandler ==
    \E e \in Event :
    /\ Ready(e) /\ life[e.srv] # "dead" /\ e.kind \in {"accepted", "acceptFailed"}
    /\ queue' = Tail(queue)
    /\ io' = Run(IF e.kind = "accepted" THEN "acceptOk" ELSE "acceptErr",
                 e.srv, e.conn)
    /\ UNCHANGED <<life, accepting, socket, sock, reading, readBuf, writer, res,
                   cbVars, netVars>>

\* The handler has the mutex: the old client is closed and replaced by the new
\* one, whose first read starts.
AcceptNewClient ==
    LET s == io.srv
        old == socket[s]
        new == io.conn
    IN
    /\ io.pc = "acceptOk" /\ ~Locked(s)
    /\ sock' = [Close(sock, old) EXCEPT ![new] = "open"]
    /\ reading' = [Cancel(old) EXCEPT ![new] = TRUE]
    /\ queue' = queue \o Aborted(old)
    /\ socket' = [socket EXCEPT ![s] = new]
    /\ io' = Run("rearm", s, None)
    /\ UNCHANGED <<life, accepting, readBuf, writer, res, cbVars, netVars>>

\* set_option without an error_code throws (lines 111 and 112): the old client
\* is closed already, the new one dies with the handler, and the exception ends
\* the thread that serves every server.
AcceptThrows ==
    LET s == io.srv
        old == socket[s]
    IN
    /\ io.pc = "acceptOk" /\ ~Locked(s)
    /\ sock' = [Close(sock, old) EXCEPT ![io.conn] = "closed"]
    /\ reading' = Cancel(old)
    /\ queue' = queue \o Aborted(old)
    /\ io' = Run("unwind", s, None)
    /\ UNCHANGED <<life, accepting, socket, readBuf, writer, res, cbVars, netVars>>

\* An accept error closes the current client too.
AcceptError ==
    LET s == io.srv IN
    /\ io.pc = "acceptErr" /\ ~Locked(s)
    /\ sock' = Close(sock, socket[s])
    /\ reading' = Cancel(socket[s])
    /\ queue' = queue \o Aborted(socket[s])
    /\ socket' = [socket EXCEPT ![s] = None]
    /\ io' = Run("rearm", s, None)
    /\ UNCHANGED <<life, accepting, readBuf, writer, res, cbVars, netVars>>

\* The handler's last call, doAccept(), takes the mutex again.
DoAccept ==
    /\ io.pc = "rearm" /\ ~Locked(io.srv)
    /\ accepting' = [accepting EXCEPT ![io.srv] = TRUE]
    /\ io' = [io EXCEPT !.pc = "release"]
    /\ UNCHANGED <<life, socket, sock, reading, readBuf, queue, writer, res,
                   cbVars, netVars>>

\* Faulty form: one frame is read and no further read started.
DoReadFaulty(c, q) == reading' = reading /\ queue' = q

\* doRead(sock): on a closed socket the read completes at once with an error.
DoRead(c, q) ==
    /\ reading' = [reading EXCEPT ![c] = (sock[c] = "open")]
    /\ queue' = IF sock[c] = "open" THEN q ELSE Append(q, ReadFailed(c))

\* The read handler without a callback just reads on; with one it holds
\* receive_cb_mutex_ while the user's code looks at read_buffer_.
ReadHandler ==
    \E e \in Event :
    /\ Ready(e) /\ life[e.srv] # "dead" /\ e.kind = "read"
    /\ IF cb[e.srv]
       THEN /\ io' = Run("callback", e.srv, e.conn)
            /\ queue' = Tail(queue)
            /\ UNCHANGED reading
       ELSE /\ io' = Run("release", e.srv, None)
            /\ DoRead(e.conn, Tail(queue))
    /\ UNCHANGED <<life, accepting, socket, sock, readBuf, writer, res, cbVars,
                   netVars>>

CallbackReturns ==
    /\ io.pc = "callback"
    /\ DoRead(io.conn, queue)
    /\ io' = Run("release", io.srv, None)
    /\ UNCHANGED <<life, accepting, socket, sock, readBuf, writer, res, cbVars,
                   netVars>>

\* Faulty form: a failed read is only logged.
ReadErrorHandlerFaulty ==
    \E e \in Event :
    /\ Ready(e) /\ life[e.srv] # "dead" /\ e.kind = "readFailed"
    /\ queue' = Tail(queue)
    /\ io' = Run("release", e.srv, None)
    /\ UNCHANGED <<life, accepting, socket, sock, reading, readBuf, writer, res,
                   cbVars, netVars>>

\* A failed read closes its socket, without socket_mutex_ and without clearing
\* socket_.
ReadErrorHandler ==
    \E e \in Event :
    /\ Ready(e) /\ life[e.srv] # "dead" /\ e.kind = "readFailed"
    /\ queue' = Tail(queue) \o Aborted(e.conn)
    /\ sock' = Close(sock, e.conn)
    /\ reading' = Cancel(e.conn)
    /\ io' = Run("release", e.srv, None)
    /\ UNCHANGED <<life, accepting, socket, readBuf, writer, res, cbVars, netVars>>

\* Faulty form: the handler's reference never runs the destructor.
ReleaseSelfFaulty ==
    /\ io.pc \in {"release", "unwind"}
    /\ io' = IF io.pc = "release" THEN Idle ELSE Stopped
    /\ UNCHANGED <<life, accepting, socket, sock, reading, queue, readBuf, writer,
                   res, cbVars, netVars>>

\* The handler's shared_ptr goes away, at its end or as the exception leaves it;
\* the last one runs the destructor.
ReleaseSelf ==
    /\ io.pc \in {"release", "unwind"}
    /\ IF life[io.srv] = "orphaned"
       THEN Destroy(io.srv)
       ELSE UNCHANGED <<life, accepting, socket, sock, reading, queue>>
    /\ io' = IF io.pc = "release" THEN Idle ELSE Stopped
    /\ UNCHANGED <<readBuf, writer, res, cbVars, netVars>>

\* Faulty form: the thread drains its queue before it looks at the stop flag, and
\* never finds the work guard gone.
ThreadExitsFaulty == FALSE /\ UNCHANGED vars

\* run() returns once the context is stopped, whatever is still queued.
ThreadExits ==
    /\ io.pc = "idle" /\ res = "stopping"
    /\ io' = Stopped
    /\ UNCHANGED <<life, accepting, socket, sock, reading, readBuf, queue, writer,
                   res, cbVars, netVars>>

IoThread ==
    \/ HandlerOfDeadServer \/ AcceptHandler \/ AcceptNewClient \/ AcceptThrows
    \/ AcceptError \/ DoAccept \/ ReadHandler \/ CallbackReturns
    \/ ReadErrorHandler \/ ReleaseSelf \/ ThreadExits

Network ==
    \/ \E c \in Conns : \/ PeerConnect(c) \/ PeerSend(c) \/ PeerClose(c)
                        \/ AcceptCompletes(c) \/ ReadCompletes(c) \/ ReadFails(c)
    \/ \E s \in Servers : AcceptFails(s)

User ==
    \/ \E s \in Servers : \/ Construct(s) \/ StartListen(s)
                          \/ SetReceiveCallback(s) \/ UnsetReceiveCallback(s)
                          \/ DestroyListener(s) \/ Release(s)
    \/ \E u \in Users, s \in Servers : WriteBegin(u, s)
    \/ \E u \in Users : WriteEnd(u)
    \/ Shutdown \/ Join

Next == IoThread \/ Network \/ User

Spec == Init /\ [][Next]_vars

\* The background thread runs at the highest FIFO priority and the operating
\* system completes what it can.  The fairness is strong because the thread waits
\* for socket_mutex_, which a control loop takes and frees over and over: the
\* waiting thread is awake and gets the mutex in one of the pauses.  The robot
\* reads what it is sent or goes away, so a blocking write returns; nothing is
\* assumed of the user's other calls.
Fairness ==
    /\ SF_vars(IoThread)
    /\ \A c \in Conns : WF_vars(AcceptCompletes(c)) /\ WF_vars(ReadFails(c))
    /\ \A u \in Users : WF_vars(WriteEnd(u))
    /\ WF_vars(Join)

FairSpec == Spec /\ Fairness

----------------------------------------------------------------------------
(* Properties.                                                              *)

\* Every variable stays in its type.
TypeOK ==
    /\ life \in [Servers -> Life]
    /\ accepting \in [Servers -> BOOLEAN]
    /\ socket \in [Servers -> Conns \cup {None}]
    /\ sock \in [Conns -> SockState]
    /\ reading \in [Conns -> BOOLEAN]
    /\ readBuf \in [Servers -> (Conns \cup {None}) \X Nat]
    /\ queue \in Seq(Event)
    /\ io \in [pc : Handler, srv : Servers \cup {None}, conn : Conns \cup {None}]
    /\ cb \in [Servers -> BOOLEAN]
    /\ listener \in [Servers -> BOOLEAN]
    /\ peer \in [Conns -> {"idle", "up", "gone"}]
    /\ sent \in [Conns -> Nat]
    /\ rcvd \in [Conns -> Nat]
    /\ writer \in [Users -> Servers \cup {None}]
    /\ res \in {"running", "stopping", "joined"}
    /\ errors \in Nat

\* "In this project, each server is only connected to one client"
\* (TcpServer.hpp:98): an open socket is the one in socket_, so a client that was
\* replaced was closed first.
OneClient == \A c \in Conns : sock[c] = "open" => socket[ServerOf[c]] = c

\* A read never outlives the server: read_buffer_ is a member of the object, and
\* an outstanding async_read would store a frame in freed memory.
NoReadIntoFreedBuffer ==
    \A c \in Conns : reading[c] => life[ServerOf[c]] \in {"listening", "orphaned"}

\* The callback runs only while the object it captured exists
\* (~TrajectoryInterface unsets it, and the unset waits for a running call).
CallbackTargetAlive == \A s \in Servers : CbLocked(s) => listener[s]

\* Unless an exception ended the thread, a listening server always has an accept outstanding,
\* posted or in its handler: after any sequence of accepts, errors and
\* disconnects another robot can connect.
AlwaysListening ==
    \A s \in Servers :
        life[s] = "listening" /\ io.pc \notin {"unwind", "stopped"} =>
            \/ accepting[s]
            \/ \E i \in 1..Len(queue) :
                   queue[i].kind \in {"accepted", "acceptFailed"} /\ queue[i].srv = s
            \/ io.srv = s /\ io.pc \in {"acceptOk", "acceptErr", "rearm"}

\* While the thread runs, an open socket always has a read outstanding, posted or
\* in its handler: a hang-up cannot go unnoticed.
ReadChain ==
    \A c \in Conns :
        sock[c] = "open" /\ io.pc # "stopped" =>
            \/ reading[c]
            \/ \E i \in 1..Len(queue) :
                   queue[i].kind \in {"read", "readFailed"} /\ queue[i].conn = c
            \/ io.pc = "callback" /\ io.conn = c

\* Although all reads of a server share read_buffer_, the callback for the current
\* client is given the frame this client sent last.
OwnFrame ==
    \A s \in Servers :
        CbLocked(s) /\ io.conn = socket[s] => readBuf[s] = <<io.conn, rcvd[io.conn]>>

\* "Must release resource after all servers are destroyed" (EliteDriver.cpp:54):
\* when shutdown() returns and frees the io_context, no server object and no
\* accepted socket that uses it is left, even one a handler kept alive.
CleanAfterJoin ==
    res = "joined" => /\ \A s \in Servers : life[s] \in {"absent", "dead"}
                      /\ \A c \in Conns : sock[c] \in {"none", "closed"}

\* Nothing is used after its end, whichever thread ends it and whatever handlers are
\* still queued: not a server's buffer by a read, not the listener by the callback,
\* not the io_context by a server or a socket.
MemorySafe == NoReadIntoFreedBuffer /\ CallbackTargetAlive /\ CleanAfterJoin

\* After any sequence of accepts, errors, replacements and hang-ups a listening
\* server is ready for the next robot and reads from the one it has, and what the
\* callback is given is that robot's frame.
ServesItsClient == AlwaysListening /\ ReadChain /\ OwnFrame

\* A frame that writeClient is sending goes to one client: socket_ is not replaced
\* or reset under a writer.
WriteTargetStable ==
    [][\A u \in Users : writer[u] # None /\ writer'[u] = writer[u] =>
           socket'[writer[u]] = socket[writer[u]]]_vars

\* The client isClientConnected() and writeClient() are about, and the connections
\* that were closed.
slotBar == [s \in Servers |-> IF IsClientConnected(s) THEN socket[s] ELSE None]
goneBar == {c \in Conns : sock[c] = "closed"}

Slot == INSTANCE ClientSlot WITH slot <- slotBar, gone <- goneBar

\* The server implements a slot for one client: a socket is put there once, from
\* a fresh accept, the client it replaces is closed in the same step, and one that
\* was replaced or lost never comes back.
ImplementsClientSlot == Slot!Spec

\* A robot that connects to a listening server gets its turn, also when another
\* robot is connected, has hung up or is being written to.
ClientAccepted ==
    \A c \in Conns :
        peer[c] = "up" /\ life[ServerOf[c]] = "listening" ~>
            \/ sock[c] \in {"open", "closed"} \/ io.pc = "stopped"
            \/ life[ServerOf[c]] # "listening"

\* When the robot hangs up, isClientConnected() becomes false for its socket.
HangUpNoticed ==
    \A c \in Conns :
        sock[c] = "open" /\ peer[c] = "gone" ~> sock[c] = "closed" \/ io.pc = "stopped"

\* Robots that come are served and robots that go are noticed, although writers hold
\* the mutexes that the one thread of all servers needs.
ConnectionsServed == ClientAccepted /\ HangUpNoticed

\* shutdown() returns: the thread cannot be stuck on a mutex or in a handler.
ShutdownReturns == res = "stopping" ~> res = "joined"
=============================================================================
