-------------------------- MODULE TcpServerProofs --------------------------
(***************************************************************************)
(* Proofs about TcpServer for any number of servers, connections and user   *)
(* threads.  The invariants of interest are not inductive; IInv adds who    *)
(* may still refer to a server object: the posted completions, the handler  *)
(* of the background thread, and the user threads inside writeClient.       *)
(***************************************************************************)
EXTENDS TcpServer, SequenceTheorems, TLAPS

Held == {"listening", "orphaned"}

\* A completion in the queue belongs to a server that has started to listen.
LiveEvent == {e \in Event : life[e.srv] \in {"listening", "orphaned", "dead"}}
QueueLive == queue \in Seq(LiveEvent)

\* Only a server whose object exists has an accept outstanding.
AcceptLive == \A s \in Servers : accepting[s] => life[s] \in Held

\* The handler of the background thread keeps its server alive, and works for a
\* connection of that server.
IoShape ==
    /\ io.pc \in {"idle", "stopped"} <=> io.srv = None
    /\ io.srv # None => life[io.srv] \in Held
    /\ io.pc \in {"acceptOk", "callback"} =>
           io.conn \in Conns /\ ServerOf[io.conn] = io.srv

\* A server without an owner exists only because a handler holds it.
OrphanHeld == \A s \in Servers : life[s] = "orphaned" => io.srv = s

\* socket_ is a connection of its server, whose object exists.
SocketHome ==
    \A s \in Servers : socket[s] # None =>
        ServerOf[socket[s]] = s /\ life[s] \in Held

\* Reads are outstanding on open sockets only.
ReadsOpen == \A c \in Conns : reading[c] => sock[c] = "open"

\* A thread inside writeClient works on a server that its user still owns.
WriterOwns ==
    \A u \in Users : writer[u] # None => life[writer[u]] \in {"bound", "listening"}

\* The callback is set only while its target exists, and running only while set.
CallbackSet ==
    \A s \in Servers : /\ cb[s] => listener[s]
                       /\ CbLocked(s) => cb[s]

\* Shutdown comes after the release of every server, its return after the end of
\* the thread.
ShutdownOrder ==
    /\ res # "running" =>
           \A s \in Servers : life[s] \in {"absent", "orphaned", "dead"}
    /\ res = "joined" => /\ io.pc = "stopped"
                         /\ \A c \in Conns : sock[c] # "accepted"

IInv == /\ TypeOK /\ QueueLive /\ AcceptLive /\ IoShape /\ OrphanHeld
        /\ SocketHome /\ OneClient /\ ReadsOpen /\ WriterOwns /\ CallbackSet
        /\ ShutdownOrder

----------------------------------------------------------------------------
\* What a completion carries.
LEMMA EventShape ==
    ASSUME NEW e \in Event
    PROVE  /\ e.srv \in Servers /\ e.conn \in Conns \cup {None}
           /\ e.kind \in {"accepted", "acceptFailed", "read", "readFailed"}
           /\ e.kind # "acceptFailed" => e.conn \in Conns /\ ServerOf[e.conn] = e.srv
BY ServerOfType
   DEF Event, Completion, Accepted, AcceptFailed, ReadDone, ReadFailed

\* The completions that actions post are events.
LEMMA PostedShape ==
    /\ \A s \in Servers : AcceptFailed(s) \in Event /\ AcceptFailed(s).srv = s
    /\ \A c \in Conns : /\ Accepted(c) \in Event /\ Accepted(c).srv = ServerOf[c]
                         /\ ReadDone(c) \in Event /\ ReadDone(c).srv = ServerOf[c]
                         /\ ReadFailed(c) \in Event /\ ReadFailed(c).srv = ServerOf[c]
BY DEF Event, Completion, Accepted, AcceptFailed, ReadDone, ReadFailed

\* A sequence over a set is one over every larger set.
LEMMA SeqGrows ==
    ASSUME NEW A, NEW B, A \subseteq B, NEW q \in Seq(A)
    PROVE  q \in Seq(B)
BY SeqMonotonic

\* The queue stays in its type when a step posts live completions.
LEMMA QueueGrows ==
    ASSUME QueueLive, LiveEvent \subseteq LiveEvent', NEW q \in Seq(LiveEvent'),
           queue' = queue \o q
    PROVE  QueueLive'
<1>1. queue \in Seq(LiveEvent')
  BY SeqGrows DEF QueueLive
<1>2. queue \o q \in Seq(LiveEvent')
  BY <1>1, ConcatProperties
<1> QED BY <1>2 DEF QueueLive

\* One more live completion.
LEMMA QueuePosts ==
    ASSUME QueueLive, LiveEvent' = LiveEvent, NEW e \in LiveEvent,
           queue' = Append(queue, e)
    PROVE  QueueLive'
BY AppendProperties DEF QueueLive

\* The thread takes the first completion, which is a live one.
LEMMA QueueShrinks ==
    ASSUME QueueLive, LiveEvent' = LiveEvent, queue # <<>>, queue' = Tail(queue)
    PROVE  Head(queue) \in LiveEvent /\ QueueLive'
BY HeadTailProperties DEF QueueLive

\* So is the head on its own.
LEMMA HeadIsLive ==
    ASSUME QueueLive, queue # <<>>
    PROVE  Head(queue) \in LiveEvent /\ Tail(queue) \in Seq(LiveEvent)
BY HeadTailProperties DEF QueueLive

\* The queue stays in its type when a handler that took its head posts more.
LEMMA QueueTakesPosts ==
    ASSUME QueueLive, LiveEvent' = LiveEvent, queue # <<>>,
           NEW q \in Seq(LiveEvent), queue' = Tail(queue) \o q
    PROVE  QueueLive'
BY HeadIsLive, ConcatProperties DEF QueueLive

\* Live completions are completions.
LEMMA LiveQueueTyped == QueueLive => queue \in Seq(Event)
BY SeqGrows DEF QueueLive, LiveEvent

\* What cancelling a read posts.
LEMMA AbortedLive ==
    ASSUME NEW c \in Conns \cup {None},
           c # None => life[ServerOf[c]] \in Held
    PROVE  Aborted(c) \in Seq(LiveEvent)
<1>1. CASE c # None /\ reading[c]
  <2>1. ReadFailed(c) \in LiveEvent
    BY <1>1, PostedShape DEF LiveEvent, Held
  <2> QED BY <1>1, <2>1 DEF Aborted
<1>2. CASE ~(c # None /\ reading[c])
  BY <1>2 DEF Aborted
<1> QED BY <1>1, <1>2

\* The parts of the invariant, for citation.
LEMMA Parts ==
    IInv => /\ TypeOK /\ QueueLive /\ AcceptLive /\ IoShape /\ OrphanHeld
            /\ SocketHome /\ OneClient /\ ReadsOpen /\ WriterOwns /\ CallbackSet
            /\ ShutdownOrder
BY DEF IInv

\* While shutdown() has not returned, and only then, server objects exist.
LEMMA HeldNotJoined ==
    ASSUME IInv, NEW s \in Servers, life[s] \in Held
    PROVE  res # "joined"
BY Parts, NoneIsNew DEF IInv, ShutdownOrder, OrphanHeld, IoShape, Held

\* An outstanding read belongs to an existing server.
LEMMA ReadsHeld ==
    ASSUME IInv, NEW c \in Conns, reading[c]
    PROVE  life[ServerOf[c]] \in Held
BY ServerOfType, NoneIsNew DEF IInv, ReadsOpen, OneClient, SocketHome

\* What closeSocket does to the sockets and to the outstanding reads.
LEMMA CloseEffect ==
    ASSUME TypeOK, NEW c \in Conns \cup {None}
    PROVE  /\ Close(sock, c) \in [Conns -> SockState]
           /\ Cancel(c) \in [Conns -> BOOLEAN]
           /\ \A d \in Conns : Close(sock, c)[d] = "open" => sock[d] = "open" /\ d # c
           /\ \A d \in Conns : d # c => Close(sock, c)[d] = sock[d]
           /\ \A d \in Conns : Close(sock, c)[d] = "accepted" => sock[d] = "accepted"
           /\ \A d \in Conns : Cancel(c)[d] => reading[d] /\ d # c
BY DEF TypeOK, SockState, Close, Cancel

\* Listening again.
LEMMA DoAcceptIInv ==
    ASSUME IInv, DoAccept
    PROVE  IInv'
<1> USE DEF DoAccept, cbVars, netVars
<1>1. io.srv \in Servers /\ life[io.srv] \in Held
  BY Parts, NoneIsNew DEF TypeOK, IoShape
<1>2. TypeOK'
  BY Parts, <1>1 DEF TypeOK, Handler
<1>3. QueueLive'
  BY Parts DEF QueueLive, LiveEvent
<1>4. AcceptLive' /\ IoShape' /\ OrphanHeld'
  BY Parts, <1>1, NoneIsNew DEF TypeOK, AcceptLive, IoShape, OrphanHeld
<1>5. SocketHome' /\ OneClient' /\ ReadsOpen' /\ WriterOwns'
  BY Parts DEF SocketHome, OneClient, ReadsOpen, WriterOwns
<1>6. CallbackSet' /\ ShutdownOrder'
  BY Parts DEF CallbackSet, CbLocked, ShutdownOrder, TypeOK
<1> QED BY <1>2, <1>3, <1>4, <1>5, <1>6 DEF IInv

\* The handler of a failed read.
LEMMA ReadErrorHandlerIInv ==
    ASSUME IInv, ReadErrorHandler
    PROVE  IInv'
<1>1. PICK e \in Event : ReadErrorHandler!(e)
  BY DEF ReadErrorHandler
<1> USE <1>1 DEF cbVars, netVars
<1>2. /\ queue # <<>> /\ Head(queue) = e /\ io.pc = "idle"
      /\ e.srv \in Servers /\ life[e.srv] \in Held
      /\ e.conn \in Conns /\ ServerOf[e.conn] = e.srv
  BY Parts, EventShape, HeadIsLive DEF Ready, LiveEvent, Held
<1>3. QueueLive'
  <2>1. Aborted(e.conn) \in Seq(LiveEvent)
    BY <1>2, AbortedLive
  <2>2. LiveEvent' = LiveEvent
    BY DEF LiveEvent
  <2> QED BY Parts, <1>2, <2>1, <2>2, QueueTakesPosts
<1>4. TypeOK'
  <2>1. queue' \in Seq(Event)
    BY <1>3, SeqGrows DEF QueueLive, LiveEvent
  <2> QED BY Parts, <2>1, <1>2, CloseEffect DEF TypeOK, Run, Handler
<1>5. AcceptLive' /\ IoShape' /\ OrphanHeld'
  BY Parts, <1>2, NoneIsNew DEF AcceptLive, IoShape, OrphanHeld, Run, TypeOK
<1>6. SocketHome' /\ OneClient' /\ ReadsOpen' /\ WriterOwns'
  BY Parts, <1>2, CloseEffect DEF SocketHome, OneClient, ReadsOpen, WriterOwns, TypeOK
<1>7. CallbackSet' /\ ShutdownOrder'
  BY Parts, <1>2, CloseEffect DEF CallbackSet, CbLocked, ShutdownOrder, Run, TypeOK
<1> QED BY <1>3, <1>4, <1>5, <1>6, <1>7 DEF IInv

\* The handler of a server that is gone.
LEMMA HandlerOfDeadServerIInv ==
    ASSUME IInv, HandlerOfDeadServer
    PROVE  IInv'
<1>1. PICK e \in Event : HandlerOfDeadServer!(e)
  BY DEF HandlerOfDeadServer
<1> USE <1>1 DEF cbVars, netVars
<1>2. LiveEvent' = LiveEvent /\ queue # <<>>
  BY DEF LiveEvent, Ready
<1>3. QueueLive'
  BY Parts, <1>2, QueueShrinks
<1>4. TypeOK'
  <2>1. queue' \in Seq(Event)
    BY <1>3, SeqGrows DEF QueueLive, LiveEvent
  <2> QED BY Parts, <2>1 DEF TypeOK, SockState
<1>5. AcceptLive' /\ IoShape' /\ OrphanHeld' /\ WriterOwns' /\ CallbackSet' /\ SocketHome'
  BY Parts DEF AcceptLive, IoShape, OrphanHeld, WriterOwns, CallbackSet, CbLocked,
               SocketHome
<1>6. OneClient' /\ ShutdownOrder'
  BY Parts DEF OneClient, ShutdownOrder, TypeOK
<1>7. ReadsOpen'
  <2> SUFFICES ASSUME NEW c \in Conns, reading[c] PROVE sock'[c] = "open"
    BY DEF ReadsOpen
  <2>1. sock[c] = "open"
    BY Parts DEF ReadsOpen
  <2>2. ServerOf[c] # e.srv
    BY ReadsHeld DEF Held
  <2>3. ~(e.kind = "accepted" /\ e.conn = c)
    BY <2>2, EventShape
  <2> QED BY <2>1, <2>3
<1> QED BY <1>3, <1>4, <1>5, <1>6, <1>7 DEF IInv

\* What the accept handlers share: the thread holds a server whose mutex is free,
\* and closes the current client of this server.
LEMMA AcceptContext ==
    ASSUME IInv, io.pc \in {"acceptOk", "acceptErr"}
    PROVE  /\ io.srv \in Servers /\ life[io.srv] \in Held
           /\ socket[io.srv] \in Conns \cup {None}
           /\ socket[io.srv] # None => ServerOf[socket[io.srv]] = io.srv
           /\ Aborted(socket[io.srv]) \in Seq(LiveEvent)
           /\ res # "joined"
<1>1. io.srv \in Servers /\ life[io.srv] \in Held
  BY Parts, NoneIsNew DEF TypeOK, IoShape
<1>2. /\ socket[io.srv] \in Conns \cup {None}
      /\ socket[io.srv] # None => ServerOf[socket[io.srv]] = io.srv
  BY Parts, <1>1 DEF TypeOK, SocketHome
<1>3. Aborted(socket[io.srv]) \in Seq(LiveEvent)
  BY <1>1, <1>2, AbortedLive
<1>4. res # "joined"
  BY <1>1, HeldNotJoined
<1> QED BY <1>1, <1>2, <1>3, <1>4

\* A new client replaces the old one.
LEMMA AcceptNewClientIInv ==
    ASSUME IInv, AcceptNewClient
    PROVE  IInv'
<1> DEFINE s == io.srv
           old == socket[s]
           new == io.conn
<1>1. /\ s \in Servers /\ life[s] \in Held /\ old \in Conns \cup {None}
      /\ Aborted(old) \in Seq(LiveEvent)
  BY AcceptContext DEF AcceptNewClient
<1>2. new \in Conns /\ ServerOf[new] = s
  BY Parts DEF IoShape, AcceptNewClient
<1> USE DEF AcceptNewClient, cbVars, netVars
<1>3. LiveEvent' = LiveEvent
  BY DEF LiveEvent
<1>4. QueueLive'
  BY Parts, <1>1, <1>3, QueueGrows
<1>5. TypeOK'
  <2>1. queue' \in Seq(Event)
    BY <1>4, SeqGrows DEF QueueLive, LiveEvent
  <2>2. sock' \in [Conns -> SockState] /\ reading' \in [Conns -> BOOLEAN]
    BY Parts, <1>1, <1>2, CloseEffect DEF SockState
  <2> QED BY Parts, <2>1, <2>2, <1>1, <1>2 DEF TypeOK, Run, Handler
<1>6. AcceptLive' /\ IoShape' /\ OrphanHeld' /\ WriterOwns' /\ CallbackSet'
  BY Parts, <1>1, NoneIsNew
     DEF TypeOK, AcceptLive, IoShape, OrphanHeld, WriterOwns, CallbackSet, CbLocked, Run
<1>7. \A d \in Conns : sock'[d] = "open" => d = new \/ (sock[d] = "open" /\ d # old)
  BY Parts, <1>1, <1>2, CloseEffect
<1>8. \A d \in Conns : reading'[d] => d = new \/ (reading[d] /\ d # old)
  BY Parts, <1>1, <1>2, CloseEffect
<1>9. sock'[new] = "open"
  BY Parts, <1>1, <1>2, CloseEffect
<1>10. OneClient' /\ SocketHome'
  BY Parts, <1>1, <1>2, <1>7, ServerOfType DEF TypeOK, OneClient, SocketHome
<1>11. ReadsOpen'
  <2> SUFFICES ASSUME NEW d \in Conns, reading'[d] PROVE sock'[d] = "open"
    BY DEF ReadsOpen
  <2>1. CASE d = new
    BY <2>1, <1>9
  <2>2. CASE d # new
    <3>1. sock[d] = "open" /\ d # old
      BY <2>2, <1>8, Parts DEF ReadsOpen
    <3> QED BY <3>1, <2>2, <1>1, <1>2, Parts, CloseEffect
  <2> QED BY <2>1, <2>2
<1>12. ShutdownOrder'
  BY Parts, AcceptContext DEF ShutdownOrder
<1> QED BY <1>4, <1>5, <1>6, <1>10, <1>11, <1>12 DEF IInv

\* An accept error.
LEMMA AcceptErrorIInv ==
    ASSUME IInv, AcceptError
    PROVE  IInv'
<1> DEFINE s == io.srv
<1>1. /\ s \in Servers /\ life[s] \in Held /\ socket[s] \in Conns \cup {None}
      /\ Aborted(socket[s]) \in Seq(LiveEvent) /\ res # "joined"
      /\ socket[s] # None => ServerOf[socket[s]] = s
  BY AcceptContext DEF AcceptError
<1> USE DEF AcceptError, cbVars, netVars
<1>2. LiveEvent' = LiveEvent
  BY DEF LiveEvent
<1>3. QueueLive'
  BY Parts, <1>1, <1>2, QueueGrows
<1>4. TypeOK'
  <2>1. queue' \in Seq(Event)
    BY <1>3, SeqGrows DEF QueueLive, LiveEvent
  <2> QED BY Parts, <2>1, <1>1, CloseEffect DEF TypeOK, Run, Handler
<1>5. AcceptLive' /\ IoShape' /\ OrphanHeld' /\ WriterOwns' /\ CallbackSet'
  BY Parts, <1>1, NoneIsNew
     DEF TypeOK, AcceptLive, IoShape, OrphanHeld, WriterOwns, CallbackSet, CbLocked, Run
<1>6. OneClient' /\ SocketHome' /\ ReadsOpen'
  <2>1. /\ \A d \in Conns : sock'[d] = "open" => sock[d] = "open" /\ d # socket[s]
        /\ \A d \in Conns : d # socket[s] => sock'[d] = sock[d]
        /\ \A d \in Conns : reading'[d] => reading[d] /\ d # socket[s]
    BY Parts, <1>1, CloseEffect
  <2>2. OneClient' /\ SocketHome'
    BY Parts, <1>1, <2>1, ServerOfType DEF TypeOK, OneClient, SocketHome
  <2>3. ReadsOpen'
    BY Parts, <2>1 DEF ReadsOpen
  <2> QED BY <2>2, <2>3
<1>7. ShutdownOrder'
  BY Parts, <1>1 DEF ShutdownOrder
<1> QED BY <1>3, <1>4, <1>5, <1>6, <1>7 DEF IInv

\* ~TcpServer, run by the thread that drops the last reference.
LEMMA DestroyIInv ==
    ASSUME IInv, NEW s \in Servers, Destroy(s),
           life[s] \in {"bound", "listening", "orphaned"},
           \A u \in Users : writer[u] # s,
           UNCHANGED <<readBuf, writer, res, cbVars, netVars>>,
           \/ io' = io /\ io.srv # s
           \/ io' \in {Idle, Stopped} /\ io.srv = s /\ res # "joined"
    PROVE  IInv'
<1> USE DEF Destroy, cbVars, netVars
<1>1. /\ socket[s] \in Conns \cup {None}
      /\ socket[s] # None => ServerOf[socket[s]] = s /\ life[s] \in Held
  BY Parts DEF TypeOK, SocketHome
<1>2. LiveEvent \subseteq LiveEvent'
  BY Parts, EventShape DEF LiveEvent, TypeOK
<1>3. Aborted(socket[s]) \in Seq(LiveEvent')
  BY <1>1, <1>2, AbortedLive, SeqGrows
<1>4. (IF accepting[s] THEN <<AcceptFailed(s)>> ELSE <<>>) \in Seq(LiveEvent')
  <2>1. AcceptFailed(s) \in LiveEvent'
    BY Parts, PostedShape DEF LiveEvent, TypeOK
  <2> QED BY <2>1
<1>5. QueueLive'
  <2>1. queue \in Seq(LiveEvent')
    BY Parts, <1>2, SeqGrows DEF QueueLive
  <2> QED BY <2>1, <1>3, <1>4, ConcatProperties DEF QueueLive
<1>6. TypeOK'
  <2>1. queue' \in Seq(Event)
    BY <1>5, SeqGrows DEF QueueLive, LiveEvent
  <2>2. io' \in [pc : Handler, srv : Servers \cup {None}, conn : Conns \cup {None}]
    BY Parts DEF TypeOK, Idle, Stopped, Run, Handler
  <2> QED BY Parts, <2>1, <2>2, <1>1, CloseEffect DEF TypeOK, Life
<1>7. AcceptLive'
  BY Parts DEF TypeOK, AcceptLive
<1>8. IoShape' /\ OrphanHeld'
  BY Parts DEF TypeOK, IoShape, OrphanHeld, Idle, Stopped, Run
<1>9. WriterOwns'
  BY Parts DEF TypeOK, WriterOwns
<1>10. OneClient' /\ SocketHome' /\ ReadsOpen'
  BY Parts, <1>1, CloseEffect, ServerOfType
     DEF TypeOK, OneClient, SocketHome, ReadsOpen
<1>11. CallbackSet'
  BY Parts DEF CallbackSet, CbLocked, Idle, Stopped, Run
<1>12. ShutdownOrder'
  BY Parts, <1>1, CloseEffect DEF ShutdownOrder, TypeOK
<1> QED BY <1>5, <1>6, <1>7, <1>8, <1>9, <1>10, <1>11, <1>12 DEF IInv

\* The exception out of the accept handler.
LEMMA AcceptThrowsIInv ==
    ASSUME IInv, AcceptThrows
    PROVE  IInv'
<1> DEFINE s == io.srv
<1>1. /\ s \in Servers /\ life[s] \in Held /\ socket[s] \in Conns \cup {None}
      /\ Aborted(socket[s]) \in Seq(LiveEvent) /\ res # "joined"
  BY AcceptContext DEF AcceptThrows
<1>2. io.conn \in Conns /\ ServerOf[io.conn] = s
  BY Parts DEF IoShape, AcceptThrows
<1> USE DEF AcceptThrows, cbVars, netVars
<1>3. LiveEvent' = LiveEvent
  BY DEF LiveEvent
<1>4. QueueLive'
  BY Parts, <1>1, <1>3, QueueGrows
<1>5. TypeOK'
  <2>1. queue' \in Seq(Event)
    BY <1>4, SeqGrows DEF QueueLive, LiveEvent
  <2>2. sock' \in [Conns -> SockState] /\ reading' \in [Conns -> BOOLEAN]
    BY Parts, <1>1, <1>2, CloseEffect DEF SockState
  <2> QED BY Parts, <2>1, <2>2, <1>1 DEF TypeOK, Run, Handler
<1>6. AcceptLive' /\ IoShape' /\ OrphanHeld' /\ WriterOwns' /\ CallbackSet'
  BY Parts, <1>1, NoneIsNew
     DEF TypeOK, AcceptLive, IoShape, OrphanHeld, WriterOwns, CallbackSet, CbLocked, Run
<1>7. \A d \in Conns : sock'[d] = "open" => sock[d] = "open"
  BY Parts, <1>1, <1>2, CloseEffect
<1>8. OneClient' /\ SocketHome'
  BY Parts, <1>7 DEF OneClient, SocketHome
<1>9. ReadsOpen'
  <2> SUFFICES ASSUME NEW d \in Conns, reading'[d] PROVE sock'[d] = "open"
    BY DEF ReadsOpen
  <2>1. sock[d] = "open" /\ d # socket[s]
    BY Parts, <1>1, CloseEffect DEF ReadsOpen
  <2>2. d # io.conn
    BY Parts, <2>1, <1>2 DEF OneClient
  <2> QED BY <2>1, <2>2, <1>1, <1>2, Parts, CloseEffect
<1>10. ShutdownOrder'
  BY Parts, <1>1 DEF ShutdownOrder
<1> QED BY <1>4, <1>5, <1>6, <1>8, <1>9, <1>10 DEF IInv

\* The end of a handler.
LEMMA ReleaseSelfIInv ==
    ASSUME IInv, ReleaseSelf
    PROVE  IInv'
<1>1. io.srv \in Servers /\ life[io.srv] \in Held
  BY Parts, NoneIsNew DEF TypeOK, IoShape, ReleaseSelf
<1>2. CASE life[io.srv] = "orphaned"
  <2>1. res # "joined"
    BY <1>1, HeldNotJoined
  <2>2. \A u \in Users : writer[u] # io.srv
    BY Parts, <1>1, <1>2, NoneIsNew DEF WriterOwns
  <2>3. io' \in {Idle, Stopped}
    BY DEF ReleaseSelf
  <2> QED BY <1>1, <1>2, <2>1, <2>2, <2>3, DestroyIInv DEF ReleaseSelf
<1>3. CASE life[io.srv] # "orphaned"
  <2> USE <1>3 DEF ReleaseSelf, cbVars, netVars
  <2>1. TypeOK'
    BY Parts DEF TypeOK, Idle, Stopped, Run, Handler
  <2>2. QueueLive'
    BY Parts DEF QueueLive, LiveEvent
  <2>3. IoShape' /\ OrphanHeld' /\ CallbackSet'
    BY Parts, <1>1 DEF IoShape, OrphanHeld, CallbackSet, CbLocked, Idle, Stopped, Run
  <2>4. AcceptLive' /\ SocketHome' /\ OneClient' /\ ReadsOpen' /\ WriterOwns'
    BY Parts DEF AcceptLive, SocketHome, OneClient, ReadsOpen, WriterOwns
  <2>5. ShutdownOrder'
    BY Parts, <1>1, HeldNotJoined DEF ShutdownOrder
  <2> QED BY <2>1, <2>2, <2>3, <2>4, <2>5 DEF IInv
<1> QED BY <1>2, <1>3

\* The user drops its reference.
LEMMA ReleaseIInv ==
    ASSUME IInv, NEW s \in Servers, Release(s)
    PROVE  IInv'
<1>1. CASE io.srv = s
  <2> USE <1>1 DEF Release, cbVars, netVars
  <2>1. LiveEvent' = LiveEvent
    <3>1. life[s] = "listening"
      BY Parts, NoneIsNew DEF IoShape, Held
    <3> QED BY Parts, <3>1, EventShape DEF LiveEvent, TypeOK
  <2>2. TypeOK' /\ QueueLive'
    BY Parts, <2>1 DEF TypeOK, Life, QueueLive
  <2>3. \A r \in Servers : /\ life[r] \in Held => life'[r] \in Held
                           /\ life'[r] = "orphaned" => life[r] = "orphaned" \/ r = s
    BY Parts DEF TypeOK, Held
  <2>6. IoShape' /\ OrphanHeld'
    BY Parts, <2>3 DEF TypeOK, IoShape, OrphanHeld
  <2>7. AcceptLive' /\ SocketHome'
    BY Parts, <2>3 DEF AcceptLive, SocketHome
  <2>4. OneClient' /\ ReadsOpen' /\ CallbackSet'
    BY Parts DEF OneClient, ReadsOpen, CallbackSet, CbLocked
  <2>5. WriterOwns' /\ ShutdownOrder'
    BY Parts DEF TypeOK, WriterOwns, ShutdownOrder, Locked
  <2> QED BY <2>2, <2>4, <2>5, <2>6, <2>7 DEF IInv
<1>2. CASE io.srv # s
  <2>1. \A u \in Users : writer[u] # s
    BY DEF Release, Locked
  <2> QED BY <1>2, <2>1, DestroyIInv DEF Release
<1> QED BY <1>1, <1>2

\* doRead, with q the queue the handler leaves.
LEMMA DoReadQueue ==
    ASSUME IInv, NEW c \in Conns, life[ServerOf[c]] \in Held,
           NEW q \in Seq(LiveEvent), DoRead(c, q), UNCHANGED <<life, sock>>
    PROVE  /\ QueueLive' /\ queue' \in Seq(Event)
           /\ reading' \in [Conns -> BOOLEAN] /\ ReadsOpen'
<1>1. LiveEvent' = LiveEvent
  BY DEF LiveEvent
<1>2. ReadFailed(c) \in LiveEvent
  BY PostedShape DEF LiveEvent, Held
<1>3. QueueLive'
  BY <1>1, <1>2, AppendProperties DEF DoRead, QueueLive
<1>4. queue' \in Seq(Event)
  BY <1>3, SeqGrows DEF QueueLive, LiveEvent
<1>5. reading' \in [Conns -> BOOLEAN] /\ ReadsOpen'
  BY Parts DEF DoRead, TypeOK, ReadsOpen
<1> QED BY <1>3, <1>4, <1>5

\* The handler of a completed read.
LEMMA ReadHandlerIInv ==
    ASSUME IInv, ReadHandler
    PROVE  IInv'
<1>1. PICK e \in Event : ReadHandler!(e)
  BY DEF ReadHandler
<1> USE <1>1 DEF cbVars, netVars
<1>2. /\ queue # <<>> /\ Head(queue) = e /\ io.pc = "idle" /\ io.srv = None
      /\ e.srv \in Servers /\ life[e.srv] \in Held
      /\ e.conn \in Conns /\ ServerOf[e.conn] = e.srv
      /\ Tail(queue) \in Seq(LiveEvent)
  BY Parts, EventShape, HeadIsLive DEF Ready, LiveEvent, Held, IoShape
<1>3. /\ QueueLive' /\ queue' \in Seq(Event)
      /\ reading' \in [Conns -> BOOLEAN] /\ ReadsOpen'
  <2>1. CASE cb[e.srv]
    <3>1. QueueLive'
      BY <2>1, <1>2 DEF QueueLive, LiveEvent
    <3>2. queue' \in Seq(Event)
      BY <3>1, SeqGrows DEF QueueLive, LiveEvent
    <3> QED BY <2>1, <3>1, <3>2, Parts DEF ReadsOpen, TypeOK
  <2>2. CASE ~cb[e.srv]
    BY <2>2, <1>2, DoReadQueue
  <2> QED BY <2>1, <2>2
<1>4. \/ io' = Run("callback", e.srv, e.conn) /\ cb[e.srv]
      \/ io' = Run("release", e.srv, None)
  OBVIOUS
<1>5. TypeOK'
  <2>1. io' \in [pc : Handler, srv : Servers \cup {None}, conn : Conns \cup {None}]
    BY <1>2, <1>4 DEF Run, Handler
  <2> QED BY Parts, <1>3, <2>1 DEF TypeOK
<1>6. IoShape' /\ OrphanHeld' /\ CallbackSet'
  BY Parts, <1>2, <1>4, NoneIsNew DEF IoShape, OrphanHeld, CallbackSet, CbLocked, Run
<1>7. AcceptLive' /\ SocketHome' /\ OneClient' /\ WriterOwns'
  BY Parts DEF AcceptLive, SocketHome, OneClient, WriterOwns
<1>8. ShutdownOrder'
  BY Parts, <1>2, HeldNotJoined DEF ShutdownOrder
<1> QED BY <1>3, <1>5, <1>6, <1>7, <1>8 DEF IInv

\* The handler of a completed accept, before it has the mutex.
LEMMA AcceptHandlerIInv ==
    ASSUME IInv, AcceptHandler
    PROVE  IInv'
<1>1. PICK e \in Event : AcceptHandler!(e)
  BY DEF AcceptHandler
<1> USE <1>1 DEF cbVars, netVars
<1>2. /\ io.pc = "idle" /\ io.srv = None
      /\ e.srv \in Servers /\ life[e.srv] \in Held /\ e.conn \in Conns \cup {None}
      /\ e.kind = "accepted" => e.conn \in Conns /\ ServerOf[e.conn] = e.srv
      /\ Tail(queue) \in Seq(LiveEvent)
  BY Parts, EventShape, HeadIsLive DEF Ready, LiveEvent, Held, IoShape
<1>3. QueueLive'
  BY <1>2 DEF QueueLive, LiveEvent
<1>4. queue' \in Seq(Event)
  BY <1>3, SeqGrows DEF QueueLive, LiveEvent
<1>5. \/ io' = Run("acceptOk", e.srv, e.conn) /\ e.kind = "accepted"
      \/ io' = Run("acceptErr", e.srv, e.conn)
  OBVIOUS
<1>6. TypeOK'
  BY Parts, <1>2, <1>4, <1>5 DEF TypeOK, Run, Handler
<1>7. IoShape' /\ OrphanHeld' /\ CallbackSet'
  BY Parts, <1>2, <1>5, NoneIsNew DEF IoShape, OrphanHeld, CallbackSet, CbLocked, Run
<1>8. AcceptLive' /\ SocketHome' /\ OneClient' /\ ReadsOpen' /\ WriterOwns'
  BY Parts DEF AcceptLive, SocketHome, OneClient, ReadsOpen, WriterOwns
<1>9. ShutdownOrder'
  BY Parts, <1>2, HeldNotJoined DEF ShutdownOrder
<1> QED BY <1>3, <1>6, <1>7, <1>8, <1>9 DEF IInv

\* The callback returns.
LEMMA CallbackReturnsIInv ==
    ASSUME IInv, CallbackReturns
    PROVE  IInv'
<1> USE DEF CallbackReturns, cbVars, netVars
<1>1. /\ io.srv \in Servers /\ life[io.srv] \in Held
      /\ io.conn \in Conns /\ ServerOf[io.conn] = io.srv
  BY Parts, NoneIsNew DEF TypeOK, IoShape
<1>2. /\ QueueLive' /\ queue' \in Seq(Event)
      /\ reading' \in [Conns -> BOOLEAN] /\ ReadsOpen'
  BY Parts, <1>1, DoReadQueue DEF QueueLive
<1>3. TypeOK'
  BY Parts, <1>1, <1>2 DEF TypeOK, Run, Handler
<1>4. IoShape' /\ OrphanHeld' /\ CallbackSet'
  BY Parts, <1>1, NoneIsNew DEF IoShape, OrphanHeld, CallbackSet, CbLocked, Run
<1>5. AcceptLive' /\ SocketHome' /\ OneClient' /\ WriterOwns'
  BY Parts DEF AcceptLive, SocketHome, OneClient, WriterOwns
<1>6. ShutdownOrder'
  BY Parts, <1>1, HeldNotJoined DEF ShutdownOrder
<1> QED BY <1>2, <1>3, <1>4, <1>5, <1>6 DEF IInv

\* The robot connects, sends or hangs up.
LEMMA RobotStepIInv ==
    ASSUME IInv, NEW c \in Conns, PeerConnect(c) \/ PeerSend(c) \/ PeerClose(c)
    PROVE  IInv'
<1>0. UNCHANGED <<life, accepting, socket, sock, reading, readBuf, queue, io, cb, listener,
                  rcvd, writer, res, errors>>
  BY DEF PeerConnect, PeerSend, PeerClose, cbVars, netVars
<1>1. TypeOK'
  <2>1. peer' \in [Conns -> {"idle", "up", "gone"}]
    BY Parts DEF TypeOK, PeerConnect, PeerSend, PeerClose, netVars
  <2>2. sent' \in [Conns -> Nat]
    BY Parts DEF TypeOK, PeerConnect, PeerSend, PeerClose, netVars
  <2> QED BY Parts, <1>0, <2>1, <2>2 DEF TypeOK
<1>2. QueueLive' /\ AcceptLive' /\ IoShape' /\ OrphanHeld' /\ WriterOwns' /\ CallbackSet'
  BY Parts, <1>0 DEF QueueLive, LiveEvent, AcceptLive, IoShape, OrphanHeld, WriterOwns,
                     CallbackSet, CbLocked
<1>3. SocketHome' /\ OneClient' /\ ReadsOpen' /\ ShutdownOrder'
  BY Parts, <1>0 DEF SocketHome, OneClient, ReadsOpen, ShutdownOrder
<1> QED BY <1>1, <1>2, <1>3 DEF IInv

\* The operating system completes an accept or a read.
LEMMA AcceptCompletesIInv ==
    ASSUME IInv, NEW c \in Conns, AcceptCompletes(c)
    PROVE  IInv'
<1> USE DEF AcceptCompletes, cbVars, netVars
<1>1. Accepted(c) \in LiveEvent
  BY Parts, ReadsHeld, PostedShape, ServerOfType DEF LiveEvent, AcceptLive, Held
<1>2. QueueLive'
  BY Parts, <1>1, QueuePosts DEF LiveEvent
<1>3. queue' \in Seq(Event)
  BY <1>2, SeqGrows DEF QueueLive, LiveEvent
<1>4. TypeOK'
  <2>1. accepting' \in [Servers -> BOOLEAN] /\ sock' \in [Conns -> SockState]
    BY Parts, ServerOfType DEF TypeOK, SockState
  <2> QED BY Parts, <1>3, <2>1 DEF TypeOK
<1>5. AcceptLive' /\ IoShape' /\ OrphanHeld' /\ WriterOwns' /\ CallbackSet'
  BY Parts DEF TypeOK, AcceptLive, IoShape, OrphanHeld, WriterOwns, CallbackSet, CbLocked
<1>6. SocketHome' /\ OneClient' /\ ReadsOpen'
  BY Parts DEF TypeOK, SocketHome, OneClient, ReadsOpen
<1>7. ShutdownOrder'
  BY Parts, ServerOfType, HeldNotJoined DEF TypeOK, ShutdownOrder, AcceptLive
<1> QED BY <1>2, <1>4, <1>5, <1>6, <1>7 DEF IInv

\* An accept that fails keeps it.
LEMMA AcceptFailsIInv ==
    ASSUME IInv, NEW s \in Servers, AcceptFails(s)
    PROVE  IInv'
<1> USE DEF AcceptFails, cbVars, netVars
<1>1. AcceptFailed(s) \in LiveEvent
  BY Parts, ReadsHeld, PostedShape, ServerOfType DEF LiveEvent, AcceptLive, Held
<1>2. QueueLive'
  BY Parts, <1>1, QueuePosts DEF LiveEvent
<1>3. queue' \in Seq(Event)
  BY <1>2, SeqGrows DEF QueueLive, LiveEvent
<1>4. TypeOK'
  <2>1. accepting' \in [Servers -> BOOLEAN] /\ errors' \in Nat
    BY Parts, ServerOfType DEF TypeOK
  <2> QED BY Parts, <1>3, <2>1 DEF TypeOK
<1>5. AcceptLive' /\ IoShape' /\ OrphanHeld' /\ WriterOwns' /\ CallbackSet'
  BY Parts DEF TypeOK, AcceptLive, IoShape, OrphanHeld, WriterOwns, CallbackSet, CbLocked
<1>6. SocketHome' /\ OneClient' /\ ReadsOpen'
  BY Parts DEF TypeOK, SocketHome, OneClient, ReadsOpen
<1>7. ShutdownOrder'
  BY Parts, HeldNotJoined DEF TypeOK, ShutdownOrder, AcceptLive
<1> QED BY <1>2, <1>4, <1>5, <1>6, <1>7 DEF IInv

\* A read that completes keeps it.
LEMMA ReadCompletesIInv ==
    ASSUME IInv, NEW c \in Conns, ReadCompletes(c)
    PROVE  IInv'
<1> USE DEF ReadCompletes, cbVars, netVars
<1>1. ReadDone(c) \in LiveEvent
  BY Parts, ReadsHeld, PostedShape, ServerOfType DEF LiveEvent, AcceptLive, Held
<1>2. QueueLive'
  BY Parts, <1>1, QueuePosts DEF LiveEvent
<1>3. queue' \in Seq(Event)
  BY <1>2, SeqGrows DEF QueueLive, LiveEvent
<1>4. TypeOK'
  <2>1. /\ reading' \in [Conns -> BOOLEAN] /\ rcvd' \in [Conns -> Nat]
        /\ readBuf' \in [Servers -> (Conns \cup {None}) \X Nat]
    BY Parts, ServerOfType DEF TypeOK
  <2> QED BY Parts, <1>3, <2>1 DEF TypeOK
<1>5. AcceptLive' /\ IoShape' /\ OrphanHeld' /\ WriterOwns' /\ CallbackSet'
  BY Parts DEF TypeOK, AcceptLive, IoShape, OrphanHeld, WriterOwns, CallbackSet, CbLocked
<1>6. SocketHome' /\ OneClient' /\ ReadsOpen'
  BY Parts DEF TypeOK, SocketHome, OneClient, ReadsOpen
<1>7. ShutdownOrder'
  BY Parts, HeldNotJoined DEF TypeOK, ShutdownOrder, AcceptLive
<1> QED BY <1>2, <1>4, <1>5, <1>6, <1>7 DEF IInv

\* A read that fails keeps it.
LEMMA ReadFailsIInv ==
    ASSUME IInv, NEW c \in Conns, ReadFails(c)
    PROVE  IInv'
<1> USE DEF ReadFails, cbVars, netVars
<1>1. ReadFailed(c) \in LiveEvent
  BY Parts, ReadsHeld, PostedShape, ServerOfType DEF LiveEvent, AcceptLive, Held
<1>2. QueueLive'
  BY Parts, <1>1, QueuePosts DEF LiveEvent
<1>3. queue' \in Seq(Event)
  BY <1>2, SeqGrows DEF QueueLive, LiveEvent
<1>4. TypeOK'
  <2>1. reading' \in [Conns -> BOOLEAN]
    BY Parts, ServerOfType DEF TypeOK
  <2> QED BY Parts, <1>3, <2>1 DEF TypeOK
<1>5. AcceptLive' /\ IoShape' /\ OrphanHeld' /\ WriterOwns' /\ CallbackSet'
  BY Parts DEF TypeOK, AcceptLive, IoShape, OrphanHeld, WriterOwns, CallbackSet, CbLocked
<1>6. SocketHome' /\ OneClient' /\ ReadsOpen'
  BY Parts DEF TypeOK, SocketHome, OneClient, ReadsOpen
<1>7. ShutdownOrder'
  BY Parts, HeldNotJoined DEF TypeOK, ShutdownOrder, AcceptLive
<1> QED BY <1>2, <1>4, <1>5, <1>6, <1>7 DEF IInv

\* The invariant holds when nothing has been constructed.
LEMMA InitIInv == Init => IInv
<1> SUFFICES ASSUME Init PROVE IInv
  OBVIOUS
<1>1. TypeOK
  BY NoneIsNew DEF Init, TypeOK, Life, SockState, Handler, Idle, Run
<1>2. QueueLive
  BY DEF Init, QueueLive
<1> QED
  BY <1>1, <1>2
     DEF Init, IInv, AcceptLive, IoShape, OrphanHeld, SocketHome, OneClient,
         ReadsOpen, WriterOwns, CallbackSet, CbLocked, ShutdownOrder, Idle, Run

\* Every step preserves the invariant.
LEMMA NextIInv == IInv /\ [Next]_vars => IInv'
<1> SUFFICES ASSUME IInv, [Next]_vars PROVE IInv'
  OBVIOUS
<1> USE ServerOfType, BoundsType, NoneIsNew
<1> USE DEF IInv, TypeOK, AcceptLive, IoShape, OrphanHeld, SocketHome, OneClient,
            ReadsOpen, WriterOwns, CallbackSet, CbLocked, ShutdownOrder, Held,
            Life, SockState, Handler, cbVars, netVars
<1>1. ASSUME NEW s \in Servers, Construct(s) PROVE IInv'
  <2>1. QueueLive'
    <3>1. LiveEvent \subseteq LiveEvent'
      BY <1>1, EventShape DEF Construct, LiveEvent
    <3> QED BY <1>1, <3>1, SeqGrows DEF Construct, QueueLive
  <2> QED BY <1>1, <2>1 DEF Construct
<1>2. ASSUME NEW s \in Servers, StartListen(s) PROVE IInv'
  <2>1. QueueLive'
    <3>1. LiveEvent \subseteq LiveEvent'
      BY <1>2, EventShape DEF StartListen, LiveEvent
    <3> QED BY <1>2, <3>1, SeqGrows DEF StartListen, QueueLive
  <2> QED BY <1>2, <2>1 DEF StartListen
<1>3. ASSUME NEW s \in Servers, SetReceiveCallback(s) PROVE IInv'
  BY <1>3 DEF SetReceiveCallback, QueueLive, LiveEvent
<1>4. ASSUME NEW s \in Servers, UnsetReceiveCallback(s) PROVE IInv'
  BY <1>4 DEF UnsetReceiveCallback, QueueLive, LiveEvent
<1>5. ASSUME NEW s \in Servers, DestroyListener(s) PROVE IInv'
  BY <1>5 DEF DestroyListener, QueueLive, LiveEvent
<1>6. ASSUME NEW u \in Users, NEW s \in Servers, WriteBegin(u, s) PROVE IInv'
  BY <1>6 DEF WriteBegin, QueueLive, LiveEvent
<1>7. ASSUME NEW u \in Users, WriteEnd(u) PROVE IInv'
  BY <1>7 DEF WriteEnd, QueueLive, LiveEvent
<1>8. CASE Shutdown
  BY <1>8 DEF Shutdown, QueueLive, LiveEvent
<1>9. CASE Join
  <2>1. QueueLive'
    BY <1>9 DEF Join, QueueLive
  <2>2. TypeOK'
    BY <1>9 DEF Join
  <2> QED BY <1>9, <2>1, <2>2 DEF Join
<1>10. CASE Network
  BY <1>10, RobotStepIInv, AcceptCompletesIInv, AcceptFailsIInv, ReadCompletesIInv, ReadFailsIInv
     DEF Network
<1>17. CASE HandlerOfDeadServer
  BY <1>17, HandlerOfDeadServerIInv
<1>18. CASE AcceptHandler
  BY <1>18, AcceptHandlerIInv
<1>19. CASE DoAccept
  BY <1>19, DoAcceptIInv
<1>20. CASE ThreadExits
  BY <1>20 DEF ThreadExits, Stopped, Run, QueueLive, LiveEvent
<1>21. CASE ReadErrorHandler
  BY <1>21, ReadErrorHandlerIInv
<1>22. CASE UNCHANGED vars
  BY <1>22 DEF vars, QueueLive, LiveEvent
<1> HIDE DEF IInv
<1>23. CASE IoThread
  BY <1>17, <1>18, <1>19, <1>20, <1>21, <1>23, AcceptNewClientIInv, AcceptThrowsIInv,
     AcceptErrorIInv, ReadHandlerIInv, CallbackReturnsIInv, ReleaseSelfIInv
     DEF IoThread
<1>25. CASE User
  BY <1>1, <1>2, <1>3, <1>4, <1>5, <1>6, <1>7, <1>8, <1>9, <1>25, ReleaseIInv DEF User
<1> QED BY <1>10, <1>22, <1>23, <1>25 DEF Next

\* IInv holds in every reachable state of every instance.
THEOREM InductiveInvariant == Spec => []IInv
BY InitIInv, NextIInv, PTL DEF Spec

\* Type correctness.
THEOREM TypeCorrect == Spec => []TypeOK
<1>1. IInv => TypeOK
  BY DEF IInv
<1> QED BY <1>1, InductiveInvariant, PTL

\* At most one client of a server is open, the one in socket_.
THEOREM OneClientAtATime == Spec => []OneClient
<1>1. IInv => OneClient
  BY DEF IInv
<1> QED BY <1>1, InductiveInvariant, PTL

\* No read is outstanding on the buffer of a destroyed server.
THEOREM BufferOutlivesReads == Spec => []NoReadIntoFreedBuffer
<1>1. IInv => NoReadIntoFreedBuffer
  BY ReadsHeld DEF NoReadIntoFreedBuffer, Held
<1> QED BY <1>1, InductiveInvariant, PTL

\* The callback never runs on a destroyed listener.
THEOREM CallbackSafe == Spec => []CallbackTargetAlive
<1>1. IInv => CallbackTargetAlive
  BY DEF IInv, CallbackSet, CallbackTargetAlive
<1> QED BY <1>1, InductiveInvariant, PTL

\* When shutdown() returns nothing uses the io_context any more.
THEOREM ShutdownIsClean == Spec => []CleanAfterJoin
<1>1. IInv => CleanAfterJoin
  <2> SUFFICES ASSUME IInv, res = "joined"
               PROVE  /\ \A s \in Servers : life[s] \in {"absent", "dead"}
                      /\ \A c \in Conns : sock[c] \in {"none", "closed"}
    BY DEF CleanAfterJoin
  <2>1. \A s \in Servers : life[s] \in {"absent", "dead"}
    BY Parts, HeldNotJoined DEF ShutdownOrder, Held
  <2>2. \A c \in Conns : sock[c] # "open"
    BY Parts, <2>1, ServerOfType, NoneIsNew DEF OneClient, SocketHome, Held
  <2>3. \A c \in Conns : sock[c] \in {"none", "closed"}
    BY Parts, <2>2 DEF ShutdownOrder, TypeOK, SockState
  <2> QED BY <2>1, <2>3
<1> QED BY <1>1, InductiveInvariant, PTL

\* Nothing is used after its end.
THEOREM MemoryIsSafe == Spec => []MemorySafe
<1>1. NoReadIntoFreedBuffer /\ CallbackTargetAlive /\ CleanAfterJoin => MemorySafe
  BY DEF MemorySafe
<1> QED BY <1>1, BufferOutlivesReads, CallbackSafe, ShutdownIsClean, PTL

\* A step that changes socket_ of a server is one that found its mutex free, or
\* runs on a server nobody can write to any more.
LEMMA SocketChange ==
    ASSUME IInv, Next, NEW u \in Users, writer[u] # None, writer'[u] = writer[u]
    PROVE  socket'[writer[u]] = socket[writer[u]]
<1>1. /\ writer[u] \in Servers /\ Locked(writer[u])
      /\ life[writer[u]] \in {"bound", "listening"}
  BY Parts DEF TypeOK, Locked, WriterOwns
<1>2. CASE AcceptNewClient \/ AcceptError \/ AcceptThrows
  BY <1>1, <1>2, Parts DEF TypeOK, AcceptNewClient, AcceptError, AcceptThrows
<1>3. CASE ReleaseSelf
  BY <1>1, <1>3, Parts DEF TypeOK, ReleaseSelf, Destroy
<1>4. ASSUME NEW s \in Servers, Release(s)
      PROVE  socket'[writer[u]] = socket[writer[u]]
  BY <1>1, <1>4, Parts DEF TypeOK, Release, Destroy
<1>5. CASE UNCHANGED socket
  BY <1>5
<1>6. CASE IoThread
  BY <1>2, <1>3, <1>5, <1>6
     DEF IoThread, HandlerOfDeadServer, AcceptHandler, DoAccept, ReadHandler,
         CallbackReturns, ReadErrorHandler, ThreadExits
<1>7. CASE Network
  BY <1>5, <1>7
     DEF Network, PeerConnect, PeerSend, PeerClose, AcceptCompletes, ReadCompletes,
         ReadFails, AcceptFails
<1>8. CASE User
  BY <1>4, <1>5, <1>8
     DEF User, Construct, StartListen, SetReceiveCallback, UnsetReceiveCallback,
         DestroyListener, WriteBegin, WriteEnd, Shutdown, Join
<1> QED BY <1>6, <1>7, <1>8 DEF Next

\* A frame is never split over two clients.
THEOREM WritesGoToOneClient == Spec => WriteTargetStable
<1>1. IInv /\ [Next]_vars =>
        [\A u \in Users : writer[u] # None /\ writer'[u] = writer[u] =>
             socket'[writer[u]] = socket[writer[u]]]_vars
  BY SocketChange
<1> QED BY <1>1, InductiveInvariant, PTL DEF Spec, WriteTargetStable

----------------------------------------------------------------------------
(* The second part: what is posted.  ServeInv says where the accept of each *)
(* server and the read of each client are, and whose frame is in            *)
(* read_buffer_.                                                            *)

\* The completions in a queue.
Elems(q) == {q[i] : i \in 1..Len(q)}

\* AcceptedOnce of a queue q.
Once(q) ==
    \A i, j \in 1..Len(q) : q[i].kind = "accepted" /\ q[j] = q[i] => i = j

\* No accept is posted twice.
AcceptedOnce == Once(queue)

\* The socket of a posted accept, or of one whose handler waits for the mutex, is
\* nobody's client yet.
AcceptedFresh ==
    /\ \A c \in Conns : Accepted(c) \in Elems(queue) => sock[c] = "accepted"
    /\ io.pc = "acceptOk" =>
           sock[io.conn] = "accepted" /\ Accepted(io.conn) \notin Elems(queue)

\* A frame that c sent is posted or in the callback.
FrameOf(c) == ReadDone(c) \in Elems(queue) \/ (io.pc = "callback" /\ io.conn = c)

\* Frames come from connections that were a server's client.
FramesServed == \A c \in Conns : FrameOf(c) => sock[c] \in {"open", "closed"}

\* No other connection has overwritten the frame of the current client.
BufferCurrent ==
    \A c \in Conns :
        FrameOf(c) /\ socket[ServerOf[c]] = c => readBuf[ServerOf[c]] = <<c, rcvd[c]>>

\* AlwaysListening and ReadChain, in terms of what is posted.
AcceptPosted(s) ==
    \E e \in Elems(queue) : e.kind \in {"accepted", "acceptFailed"} /\ e.srv = s

Listens ==
    \A s \in Servers :
        life[s] = "listening" /\ io.pc \notin {"unwind", "stopped"} =>
            \/ accepting[s] \/ AcceptPosted(s)
            \/ io.srv = s /\ io.pc \in {"acceptOk", "acceptErr", "rearm"}

ReadPosted(c) ==
    \E e \in Elems(queue) : e.kind \in {"read", "readFailed"} /\ e.conn = c

Reading ==
    \A c \in Conns :
        sock[c] = "open" /\ io.pc # "stopped" =>
            reading[c] \/ ReadPosted(c) \/ (io.pc = "callback" /\ io.conn = c)

ServeInv == /\ Listens /\ Reading /\ AcceptedOnce /\ AcceptedFresh
            /\ FramesServed /\ BufferCurrent

----------------------------------------------------------------------------
\* The elements of a queue that a step makes longer or shorter.
LEMMA ElemsOf ==
    ASSUME NEW q \in Seq(Event)
    PROVE  /\ Elems(q) \subseteq Event
           /\ \A r \in Seq(Event) : Elems(q \o r) = Elems(q) \cup Elems(r)
           /\ \A e \in Event : Elems(Append(q, e)) = Elems(q) \cup {e}
           /\ q # <<>> => Elems(q) = {Head(q)} \cup Elems(Tail(q))
<1>1. Elems(q) \subseteq Event
  BY ElementOfSeq DEF Elems
<1>2. ASSUME NEW r \in Seq(Event) PROVE Elems(q \o r) = Elems(q) \cup Elems(r)
  <2>1. /\ Len(q) \in Nat /\ Len(r) \in Nat /\ Len(q \o r) = Len(q) + Len(r)
        /\ \A i \in 1 .. Len(q) + Len(r) :
               (q \o r)[i] = IF i <= Len(q) THEN q[i] ELSE r[i - Len(q)]
    BY <1>2, ConcatProperties, LenProperties
  <2>2. Elems(q) \subseteq Elems(q \o r)
    BY <2>1 DEF Elems
  <2>3. Elems(r) \subseteq Elems(q \o r)
    <3> SUFFICES ASSUME NEW i \in 1..Len(r) PROVE r[i] \in Elems(q \o r)
      BY DEF Elems
    <3>1. i + Len(q) \in 1 .. Len(q \o r) /\ (q \o r)[i + Len(q)] = r[i]
      BY <2>1
    <3> QED BY <3>1 DEF Elems
  <2>4. Elems(q \o r) \subseteq Elems(q) \cup Elems(r)
    <3> SUFFICES ASSUME NEW i \in 1..Len(q \o r) PROVE (q \o r)[i] \in Elems(q) \cup Elems(r)
      BY DEF Elems
    <3>1. CASE i <= Len(q)
      BY <2>1, <3>1 DEF Elems
    <3>2. CASE i > Len(q)
      <4>1. i - Len(q) \in 1..Len(r) /\ (q \o r)[i] = r[i - Len(q)]
        BY <2>1, <3>2
      <4> QED BY <4>1 DEF Elems
    <3> QED BY <2>1, <3>1, <3>2
  <2> QED BY <2>2, <2>3, <2>4
<1>3. ASSUME NEW e \in Event PROVE Elems(Append(q, e)) = Elems(q) \cup {e}
  <2>1. /\ Len(q) \in Nat /\ Len(Append(q, e)) = Len(q) + 1
        /\ \A i \in 1..Len(q) : Append(q, e)[i] = q[i]
        /\ Append(q, e)[Len(q) + 1] = e
    BY AppendProperties, LenProperties
  <2>2. \A i \in 1 .. Len(q) + 1 : i \in 1..Len(q) \/ i = Len(q) + 1
    BY <2>1
  <2>3. 1..Len(q) \subseteq 1 .. Len(q) + 1 /\ Len(q) + 1 \in 1 .. Len(q) + 1
    BY <2>1
  <2> QED BY <2>1, <2>2, <2>3 DEF Elems
<1>4. ASSUME q # <<>> PROVE Elems(q) = {Head(q)} \cup Elems(Tail(q))
  <2>1. /\ Len(q) \in Nat /\ Len(q) > 0 /\ Len(Tail(q)) = Len(q) - 1 /\ Head(q) = q[1]
        /\ \A i \in 1 .. Len(Tail(q)) : Tail(q)[i] = q[i + 1]
    BY <1>4, HeadTailProperties, LenProperties, EmptySeq
  <2>2. Elems(q) \subseteq {Head(q)} \cup Elems(Tail(q))
    <3> SUFFICES ASSUME NEW i \in 1..Len(q), i # 1 PROVE q[i] \in Elems(Tail(q))
      BY <2>1 DEF Elems
    <3>1. i - 1 \in 1..Len(Tail(q)) /\ Tail(q)[i - 1] = q[i]
      BY <2>1
    <3> QED BY <3>1 DEF Elems
  <2>3. Elems(Tail(q)) \subseteq Elems(q)
    <3> SUFFICES ASSUME NEW i \in 1..Len(Tail(q)) PROVE Tail(q)[i] \in Elems(q)
      BY DEF Elems
    <3>1. i + 1 \in 1..Len(q) /\ Tail(q)[i] = q[i + 1]
      BY <2>1
    <3> QED BY <3>1 DEF Elems
  <2>4. Head(q) \in Elems(q)
    BY <2>1 DEF Elems
  <2> QED BY <2>2, <2>3, <2>4
<1> QED BY <1>1, <1>2, <1>3, <1>4

\* AcceptedOnce survives the posting of other completions and of new accepts.
LEMMA OnceOf ==
    ASSUME NEW q \in Seq(Event), Once(q)
    PROVE  /\ \A r \in Seq(Event) :
                  (\A e \in Elems(r) : e.kind # "accepted") => Once(q \o r)
           /\ \A e \in Event : (e.kind = "accepted" => e \notin Elems(q)) => Once(Append(q, e))
           /\ q # <<>> => /\ Once(Tail(q))
                          /\ Head(q).kind = "accepted" => Head(q) \notin Elems(Tail(q))
<1>0. Len(q) \in Nat
  BY LenProperties
<1>1. ASSUME NEW r \in Seq(Event), \A e \in Elems(r) : e.kind # "accepted"
      PROVE  Once(q \o r)
  <2>1. /\ Len(r) \in Nat /\ Len(q \o r) = Len(q) + Len(r)
        /\ \A i \in 1 .. Len(q) + Len(r) :
               (q \o r)[i] = IF i <= Len(q) THEN q[i] ELSE r[i - Len(q)]
    BY <1>1, ConcatProperties, LenProperties
  <2>2. ASSUME NEW i \in 1..Len(q \o r), (q \o r)[i].kind = "accepted"
        PROVE  i \in 1..Len(q) /\ (q \o r)[i] = q[i]
    <3>1. CASE i > Len(q)
      <4>1. i - Len(q) \in 1..Len(r) /\ (q \o r)[i] = r[i - Len(q)]
        BY <1>0, <2>1, <3>1
      <4>2. r[i - Len(q)] \in Elems(r)
        BY <4>1 DEF Elems
      <4> QED BY <1>1, <2>2, <4>1, <4>2
    <3>2. CASE ~(i > Len(q))
      BY <1>0, <2>1, <3>2
    <3> QED BY <3>1, <3>2
  <2> QED BY <2>2 DEF Once
<1>2. ASSUME NEW e \in Event, e.kind = "accepted" => e \notin Elems(q)
      PROVE  Once(Append(q, e))
  <2>1. /\ Len(Append(q, e)) = Len(q) + 1
        /\ \A i \in 1..Len(q) : Append(q, e)[i] = q[i]
        /\ Append(q, e)[Len(q) + 1] = e
    BY AppendProperties
  <2>2. \A i \in 1 .. Len(q) + 1 : i \in 1..Len(q) \/ i = Len(q) + 1
    BY <1>0
  <2>3. e.kind = "accepted" => \A i \in 1..Len(q) : q[i] # e
    BY <1>2 DEF Elems
  <2> QED BY <2>1, <2>2, <2>3 DEF Once
<1>3. ASSUME q # <<>>
      PROVE  /\ Once(Tail(q))
             /\ Head(q).kind = "accepted" => Head(q) \notin Elems(Tail(q))
  <2>1. /\ Len(q) > 0 /\ Len(Tail(q)) = Len(q) - 1 /\ Head(q) = q[1]
        /\ \A i \in 1 .. Len(Tail(q)) : Tail(q)[i] = q[i + 1]
    BY <1>3, HeadTailProperties, LenProperties, EmptySeq
  <2>2. \A i \in 1 .. Len(Tail(q)) : i + 1 \in 1..Len(q) /\ i + 1 # 1 /\ i \in Nat
    BY <1>0, <2>1
  <2>3. 1 \in 1..Len(q)
    BY <1>0, <2>1
  <2> QED BY <2>1, <2>2, <2>3 DEF Once, Elems
<1> QED BY <1>1, <1>2, <1>3

\* Which completion is which.
LEMMA EventIs ==
    /\ \A e \in Event, c \in Conns : /\ e = Accepted(c) <=> e.kind = "accepted" /\ e.conn = c
                                     /\ e = ReadDone(c) <=> e.kind = "read" /\ e.conn = c
    /\ \A s \in Servers : AcceptFailed(s).kind = "acceptFailed"
    /\ \A c \in Conns : /\ Accepted(c).kind = "accepted" /\ Accepted(c).conn = c
                         /\ ReadDone(c).kind = "read" /\ ReadDone(c).conn = c
                         /\ ReadFailed(c).kind = "readFailed" /\ ReadFailed(c).conn = c
BY DEF Event, Completion, Accepted, AcceptFailed, ReadDone, ReadFailed

\* What closing a socket posts.
LEMMA AbortedElems ==
    ASSUME NEW c \in Conns \cup {None}
    PROVE  /\ Aborted(c) \in Seq(Event)
           /\ \A e \in Elems(Aborted(c)) : e \in Event /\ e.kind = "readFailed"
<1>1. CASE c # None /\ reading[c]
  BY <1>1, PostedShape, EventIs DEF Aborted, Elems
<1>2. CASE ~(c # None /\ reading[c])
  BY <1>2 DEF Aborted, Elems
<1> QED BY <1>1, <1>2

\* The parts of ServeInv, for citation.
LEMMA ServeParts ==
    ServeInv => /\ Listens /\ Reading /\ AcceptedOnce /\ AcceptedFresh
                /\ FramesServed /\ BufferCurrent
BY DEF ServeInv

\* Steps that leave the background thread and the sockets alone.
LEMMA QuietServe ==
    ASSUME IInv, ServeInv,
           UNCHANGED <<accepting, socket, sock, reading, readBuf, queue, io, rcvd>>,
           \A s \in Servers : life'[s] = "listening" => life[s] = "listening"
    PROVE  ServeInv'
BY ServeParts DEF ServeInv, Listens, Reading, AcceptedOnce, AcceptedFresh, FramesServed,
                  BufferCurrent, AcceptPosted, ReadPosted, FrameOf

\* A step that posts completions of failures only.
LEMMA PostsFailures ==
    ASSUME IInv, ServeInv, NEW q \in Seq(Event), queue' = queue \o q,
           \A e \in Elems(q) : e.kind \in {"readFailed", "acceptFailed"}
    PROVE  /\ AcceptedOnce' /\ Elems(queue) \subseteq Elems(queue')
           /\ Elems(q) \subseteq Elems(queue')
           /\ \A c \in Conns : /\ Accepted(c) \in Elems(queue') => Accepted(c) \in Elems(queue)
                               /\ ReadDone(c) \in Elems(queue') => ReadDone(c) \in Elems(queue)
<1>1. /\ Elems(queue') = Elems(queue) \cup Elems(q) /\ Elems(queue) \subseteq Event
      /\ Elems(q) \subseteq Event
  BY Parts, ElemsOf DEF TypeOK
<1>2. AcceptedOnce'
  BY Parts, ServeParts, OnceOf DEF TypeOK, AcceptedOnce
<1> QED BY <1>1, <1>2, EventIs

\* A step that takes the head e of the queue and may post the failure of a read.
LEMMA TakesHead ==
    ASSUME IInv, ServeInv, NEW e, Ready(e), NEW q \in Seq(Event), queue' = Tail(queue) \o q,
           \A f \in Elems(q) : f.kind = "readFailed"
    PROVE  /\ AcceptedOnce' /\ e \in Event /\ e \in Elems(queue)
           /\ Elems(queue) \subseteq {e} \cup Elems(queue')
           /\ Elems(q) \subseteq Elems(queue')
           /\ \A c \in Conns :
                  /\ Accepted(c) \in Elems(queue') => Accepted(c) \in Elems(queue) /\ Accepted(c) # e
                  /\ ReadDone(c) \in Elems(queue') => ReadDone(c) \in Elems(queue)
<1>1. /\ queue \in Seq(Event) /\ queue # <<>> /\ e = Head(queue) /\ Tail(queue) \in Seq(Event)
      /\ e \in Event
  BY Parts, HeadTailProperties DEF TypeOK, Ready
<1>2. /\ Elems(queue') = Elems(Tail(queue)) \cup Elems(q)
      /\ Elems(queue) = {e} \cup Elems(Tail(queue))
      /\ Elems(Tail(queue)) \subseteq Event /\ Elems(q) \subseteq Event
  BY <1>1, ElemsOf
<1>3. Once(Tail(queue)) /\ (e.kind = "accepted" => e \notin Elems(Tail(queue)))
  BY <1>1, ServeParts, OnceOf DEF AcceptedOnce
<1>4. AcceptedOnce'
  BY <1>1, <1>3, OnceOf DEF AcceptedOnce
<1> QED BY <1>1, <1>2, <1>3, <1>4, EventIs

\* The same without a posting.
LEMMA TakesHeadOnly ==
    ASSUME IInv, ServeInv, NEW e, Ready(e), queue' = Tail(queue)
    PROVE  /\ AcceptedOnce' /\ e \in Event /\ e \in Elems(queue)
           /\ Elems(queue) \subseteq {e} \cup Elems(queue')
           /\ \A c \in Conns :
                  /\ Accepted(c) \in Elems(queue') => Accepted(c) \in Elems(queue) /\ Accepted(c) # e
                  /\ ReadDone(c) \in Elems(queue') => ReadDone(c) \in Elems(queue)
<1>1. queue' = Tail(queue) \o <<>>
  BY Parts, HeadTailProperties, ConcatEmptySeq DEF TypeOK, Ready
<1>2. <<>> \in Seq(Event) /\ Elems(<<>>) = {}
  BY DEF Elems
<1> QED BY <1>1, <1>2, TakesHead

\* The handler of a server that is gone: the connections of the others keep their
\* reads and accepts.
LEMMA HandlerOfDeadServerServe ==
    ASSUME IInv, ServeInv, HandlerOfDeadServer
    PROVE  ServeInv'
<1>1. PICK e \in Event : HandlerOfDeadServer!(e)
  BY DEF HandlerOfDeadServer
<1>2. /\ Ready(e) /\ life[e.srv] = "dead" /\ queue' = Tail(queue) /\ io.pc = "idle"
      /\ sock' = [c \in Conns |-> IF e.kind = "accepted" /\ e.conn = c THEN "closed" ELSE sock[c]]
      /\ UNCHANGED <<life, accepting, socket, reading, readBuf, io, rcvd>>
  BY <1>1 DEF netVars, Ready
<1>3. /\ AcceptedOnce' /\ Elems(queue) \subseteq {e} \cup Elems(queue')
      /\ \A c \in Conns :
             /\ Accepted(c) \in Elems(queue') => Accepted(c) \in Elems(queue) /\ Accepted(c) # e
             /\ ReadDone(c) \in Elems(queue') => ReadDone(c) \in Elems(queue)
  BY <1>2, TakesHeadOnly
<1>4. Listens'
  BY <1>2, <1>3, ServeParts DEF Listens, AcceptPosted
<1>5. Reading'
  <2>1. \A c \in Conns : sock[c] = "open" => ServerOf[c] # e.srv
    BY <1>2, Parts, ServerOfType, NoneIsNew DEF OneClient, SocketHome, Held
  <2>2. \A c \in Conns : e.kind \in {"read", "readFailed"} /\ e.conn = c => ServerOf[c] = e.srv
    BY EventShape
  <2> QED BY <1>2, <1>3, <2>1, <2>2, ServeParts DEF Reading, ReadPosted
<1>6. AcceptedFresh'
  BY <1>2, <1>3, ServeParts, EventIs DEF AcceptedFresh
<1>7. FramesServed' /\ BufferCurrent'
  BY <1>2, <1>3, ServeParts DEF FramesServed, BufferCurrent, FrameOf
<1> QED BY <1>3, <1>4, <1>5, <1>6, <1>7 DEF ServeInv

\* The handler of a posted accept, before it has the mutex.
LEMMA AcceptHandlerServe ==
    ASSUME IInv, ServeInv, AcceptHandler
    PROVE  ServeInv'
<1>1. PICK e \in Event : AcceptHandler!(e)
  BY DEF AcceptHandler
<1>2. /\ Ready(e) /\ queue' = Tail(queue) /\ io.pc = "idle"
      /\ e.kind \in {"accepted", "acceptFailed"}
      /\ io' = Run(IF e.kind = "accepted" THEN "acceptOk" ELSE "acceptErr", e.srv, e.conn)
      /\ UNCHANGED <<life, accepting, socket, sock, reading, readBuf, rcvd>>
  BY <1>1 DEF netVars, Ready
<1>3. /\ AcceptedOnce' /\ Elems(queue) \subseteq {e} \cup Elems(queue') /\ e \in Elems(queue)
      /\ \A c \in Conns :
             /\ Accepted(c) \in Elems(queue') => Accepted(c) \in Elems(queue) /\ Accepted(c) # e
             /\ ReadDone(c) \in Elems(queue') => ReadDone(c) \in Elems(queue)
  BY <1>2, TakesHeadOnly
<1>4. Listens'
  BY <1>2, <1>3, ServeParts DEF Listens, AcceptPosted, Run
<1>5. Reading'
  BY <1>2, <1>3, ServeParts DEF Reading, ReadPosted, Run
<1>6. AcceptedFresh'
  <2>1. e.kind = "accepted" => e.conn \in Conns /\ e = Accepted(e.conn)
    BY EventIs, EventShape
  <2> QED BY <1>2, <1>3, <2>1, ServeParts DEF AcceptedFresh, Run
<1>7. FramesServed' /\ BufferCurrent'
  BY <1>2, <1>3, ServeParts DEF FramesServed, BufferCurrent, FrameOf, Run
<1> QED BY <1>3, <1>4, <1>5, <1>6, <1>7 DEF ServeInv

\* A new client replaces the old one: it has sent nothing that is still posted.
LEMMA AcceptNewClientServe ==
    ASSUME IInv, ServeInv, AcceptNewClient
    PROVE  ServeInv'
<1> DEFINE s == io.srv
           old == socket[s]
           new == io.conn
<1>1. /\ s \in Servers /\ old \in Conns \cup {None} /\ new \in Conns /\ ServerOf[new] = s
      /\ io.pc = "acceptOk"
  BY AcceptContext, Parts DEF AcceptNewClient, IoShape
<1>2. /\ sock' = [Close(sock, old) EXCEPT ![new] = "open"]
      /\ reading' = [Cancel(old) EXCEPT ![new] = TRUE]
      /\ queue' = queue \o Aborted(old) /\ socket' = [socket EXCEPT ![s] = new]
      /\ io' = Run("rearm", s, None) /\ UNCHANGED <<life, accepting, readBuf, rcvd>>
  BY DEF AcceptNewClient, netVars
<1>3. /\ AcceptedOnce' /\ Elems(queue) \subseteq Elems(queue')
      /\ \A c \in Conns : /\ Accepted(c) \in Elems(queue') => Accepted(c) \in Elems(queue)
                          /\ ReadDone(c) \in Elems(queue') => ReadDone(c) \in Elems(queue)
  BY <1>1, <1>2, AbortedElems, PostsFailures
<1>4. /\ sock'[new] = "open" /\ reading'[new]
      /\ \A d \in Conns \ {new} :
             /\ sock'[d] = "open" => sock[d] = "open" /\ d # old
             /\ sock[d] = "accepted" => sock'[d] = "accepted"
             /\ sock[d] \in {"open", "closed"} => sock'[d] \in {"open", "closed"}
             /\ d # old => reading'[d] = reading[d]
  BY <1>1, <1>2, Parts DEF TypeOK, Close, Cancel
<1>5. Accepted(new) \notin Elems(queue') /\ ~FrameOf(new)
  BY <1>1, <1>3, ServeParts DEF AcceptedFresh, FramesServed, FrameOf
<1>6. Listens'
  BY <1>1, <1>2, <1>3, ServeParts DEF Listens, AcceptPosted, Run
<1>7. Reading'
  <2> SUFFICES ASSUME NEW c \in Conns, sock'[c] = "open", c # new
               PROVE  reading'[c] \/ ReadPosted(c)'
    BY <1>4 DEF Reading
  <2>1. sock[c] = "open" /\ reading'[c] = reading[c]
    BY <1>4
  <2>2. reading[c] \/ ReadPosted(c)
    BY <1>1, <2>1, ServeParts DEF Reading
  <2> QED BY <1>3, <2>1, <2>2 DEF ReadPosted
<1>8. AcceptedFresh'
  BY <1>2, <1>3, <1>4, <1>5, ServeParts DEF AcceptedFresh, Run
<1>9. FramesServed'
  BY <1>2, <1>3, <1>4, <1>5, ServeParts DEF FramesServed, FrameOf, Run
<1>10. BufferCurrent'
  <2> SUFFICES ASSUME NEW c \in Conns, FrameOf(c)', socket'[ServerOf[c]] = c
               PROVE  readBuf'[ServerOf[c]] = <<c, rcvd'[c]>>
    BY DEF BufferCurrent
  <2>1. FrameOf(c)
    BY <1>2, <1>3 DEF FrameOf, Run
  <2>2. c # new
    BY <1>5, <2>1
  <2>3. socket[ServerOf[c]] = c
    BY <1>1, <1>2, <2>2, Parts, ServerOfType DEF TypeOK
  <2> QED BY <1>2, <2>1, <2>3, ServeParts DEF BufferCurrent
<1> QED BY <1>3, <1>6, <1>7, <1>8, <1>9, <1>10 DEF ServeInv

\* What the steps share that close at most the socket c and post failures.
LEMMA ClosingServe ==
    ASSUME IInv, ServeInv, NEW c \in Conns \cup {None}, NEW q \in Seq(Event),
           queue' = queue \o q, \A e \in Elems(q) : e.kind \in {"readFailed", "acceptFailed"},
           sock' = Close(sock, c), reading' = Cancel(c), UNCHANGED <<readBuf, rcvd>>,
           \A s \in Servers : socket'[s] \in {socket[s], None},
           io' = io \/ (io.pc # "callback" /\ io'.pc \notin {"acceptOk", "callback"}),
           io.pc = "stopped" => io'.pc = "stopped"
    PROVE  /\ Reading' /\ AcceptedOnce' /\ AcceptedFresh' /\ FramesServed' /\ BufferCurrent'
           /\ Elems(queue) \subseteq Elems(queue') /\ Elems(q) \subseteq Elems(queue')
<1>1. /\ AcceptedOnce' /\ Elems(queue) \subseteq Elems(queue') /\ Elems(q) \subseteq Elems(queue')
      /\ \A d \in Conns : /\ Accepted(d) \in Elems(queue') => Accepted(d) \in Elems(queue)
                          /\ ReadDone(d) \in Elems(queue') => ReadDone(d) \in Elems(queue)
  BY PostsFailures
<1>2. \A d \in Conns :
         /\ sock'[d] = "open" => sock[d] = "open" /\ reading'[d] = reading[d]
         /\ sock[d] = "accepted" => sock'[d] = "accepted"
         /\ sock[d] \in {"open", "closed"} => sock'[d] \in {"open", "closed"}
  BY Parts DEF TypeOK, Close, Cancel
<1>3. Reading'
  <2> SUFFICES ASSUME NEW d \in Conns, sock'[d] = "open", io'.pc # "stopped"
               PROVE  reading'[d] \/ ReadPosted(d)' \/ (io'.pc = "callback" /\ io'.conn = d)
    BY DEF Reading
  <2>1. reading[d] \/ ReadPosted(d) \/ (io.pc = "callback" /\ io.conn = d)
    BY <1>2, ServeParts DEF Reading
  <2> QED BY <1>1, <1>2, <2>1 DEF ReadPosted
<1>4. AcceptedFresh'
  BY <1>1, <1>2, ServeParts, Parts DEF AcceptedFresh, IoShape
<1>5. FramesServed'
  BY <1>1, <1>2, ServeParts DEF FramesServed, FrameOf
<1>6. BufferCurrent'
  <2> SUFFICES ASSUME NEW d \in Conns, FrameOf(d)', socket'[ServerOf[d]] = d
               PROVE  readBuf'[ServerOf[d]] = <<d, rcvd'[d]>>
    BY DEF BufferCurrent
  <2>1. FrameOf(d)
    BY <1>1 DEF FrameOf
  <2>2. socket[ServerOf[d]] = d
    BY ServerOfType, NoneIsNew
  <2> QED BY <2>1, <2>2, ServeParts DEF BufferCurrent
<1> QED BY <1>1, <1>3, <1>4, <1>5, <1>6

\* The same without a socket to close.
LEMMA LeavingServe ==
    ASSUME IInv, ServeInv, UNCHANGED <<queue, sock, reading, socket, readBuf, rcvd>>,
           io.pc # "callback", io'.pc \notin {"acceptOk", "callback"},
           io.pc = "stopped" => io'.pc = "stopped"
    PROVE  Reading' /\ AcceptedOnce' /\ AcceptedFresh' /\ FramesServed' /\ BufferCurrent'
BY ServeParts DEF Reading, AcceptedOnce, AcceptedFresh, FramesServed, BufferCurrent, ReadPosted,
                  FrameOf

\* An accept error closes the current client.
LEMMA AcceptErrorServe ==
    ASSUME IInv, ServeInv, AcceptError
    PROVE  ServeInv'
<1> DEFINE s == io.srv
<1>1. s \in Servers /\ socket[s] \in Conns \cup {None} /\ io.pc = "acceptErr"
  BY AcceptContext DEF AcceptError
<1>2. /\ sock' = Close(sock, socket[s]) /\ reading' = Cancel(socket[s])
      /\ queue' = queue \o Aborted(socket[s]) /\ socket' = [socket EXCEPT ![s] = None]
      /\ io' = Run("rearm", s, None) /\ UNCHANGED <<life, accepting, readBuf, rcvd>>
  BY DEF AcceptError, netVars
<1>3. \A r \in Servers : socket'[r] \in {socket[r], None}
  BY <1>2, Parts DEF TypeOK
<1>4. io'.pc = "rearm" /\ io'.srv = s
  BY <1>2 DEF Run
<1>5. /\ Reading' /\ AcceptedOnce' /\ AcceptedFresh' /\ FramesServed' /\ BufferCurrent'
      /\ Elems(queue) \subseteq Elems(queue')
  BY <1>1, <1>2, <1>3, <1>4, AbortedElems, ClosingServe
<1>6. Listens'
  BY <1>1, <1>2, <1>4, <1>5, ServeParts DEF Listens, AcceptPosted
<1> QED BY <1>5, <1>6 DEF ServeInv

\* The exception out of the accept handler.
LEMMA AcceptThrowsServe ==
    ASSUME IInv, ServeInv, AcceptThrows
    PROVE  ServeInv'
<1> DEFINE s == io.srv
           old == socket[s]
<1>1. /\ s \in Servers /\ old \in Conns \cup {None} /\ io.conn \in Conns
      /\ io.pc = "acceptOk" /\ sock[io.conn] = "accepted"
  BY AcceptContext, Parts, ServeParts DEF AcceptThrows, IoShape, AcceptedFresh
<1>2. /\ sock' = [Close(sock, old) EXCEPT ![io.conn] = "closed"] /\ reading' = Cancel(old)
      /\ queue' = queue \o Aborted(old) /\ io' = Run("unwind", s, None)
      /\ UNCHANGED <<life, accepting, socket, readBuf, rcvd>>
  BY DEF AcceptThrows, netVars
<1>3. /\ AcceptedOnce' /\ Elems(queue) \subseteq Elems(queue')
      /\ \A c \in Conns : /\ Accepted(c) \in Elems(queue') => Accepted(c) \in Elems(queue)
                          /\ ReadDone(c) \in Elems(queue') => ReadDone(c) \in Elems(queue)
  BY <1>1, <1>2, AbortedElems, PostsFailures
<1>4. io'.pc = "unwind"
  BY <1>2 DEF Run
<1>5. \A d \in Conns :
         /\ sock'[d] = "open" => sock[d] = "open" /\ reading'[d] = reading[d]
         /\ sock[d] = "accepted" /\ d # io.conn => sock'[d] = "accepted"
         /\ sock[d] \in {"open", "closed"} => sock'[d] \in {"open", "closed"}
  BY <1>1, <1>2, Parts DEF TypeOK, Close, Cancel
<1>6. Listens'
  BY <1>4 DEF Listens
<1>7. Reading'
  <2> SUFFICES ASSUME NEW d \in Conns, sock'[d] = "open"
               PROVE  reading'[d] \/ ReadPosted(d)'
    BY DEF Reading
  <2>1. reading[d] \/ ReadPosted(d)
    BY <1>1, <1>5, ServeParts DEF Reading
  <2> QED BY <1>3, <1>5, <2>1 DEF ReadPosted
<1>8. AcceptedFresh'
  BY <1>1, <1>3, <1>4, <1>5, ServeParts DEF AcceptedFresh
<1>9. FramesServed' /\ BufferCurrent'
  BY <1>2, <1>3, <1>4, <1>5, ServeParts DEF FramesServed, BufferCurrent, FrameOf
<1> QED BY <1>3, <1>6, <1>7, <1>8, <1>9 DEF ServeInv

\* ~TcpServer, run by the thread that drops the last reference.
LEMMA DestroyServe ==
    ASSUME IInv, ServeInv, NEW s \in Servers, Destroy(s), UNCHANGED <<readBuf, rcvd>>,
           \/ io' = io /\ io.srv # s
           \/ io.pc = "release" /\ io' = Idle
           \/ io.pc = "unwind" /\ io' = Stopped
    PROVE  ServeInv'
<1> DEFINE a == IF accepting[s] THEN <<AcceptFailed(s)>> ELSE <<>>
           q == a \o Aborted(socket[s])
<1>1. socket[s] \in Conns \cup {None} /\ queue \in Seq(Event)
  BY Parts DEF TypeOK
<1>2. /\ sock' = Close(sock, socket[s]) /\ reading' = Cancel(socket[s])
      /\ queue' = (queue \o a) \o Aborted(socket[s])
      /\ socket' = [socket EXCEPT ![s] = None]
      /\ accepting' = [accepting EXCEPT ![s] = FALSE] /\ life' = [life EXCEPT ![s] = "dead"]
  BY DEF Destroy
<1>3. a \in Seq(Event) /\ \A e \in Elems(a) : e.kind = "acceptFailed"
  BY PostedShape, EventIs DEF Elems
<1>4. Aborted(socket[s]) \in Seq(Event) /\ \A e \in Elems(Aborted(socket[s])) : e.kind = "readFailed"
  BY <1>1, AbortedElems
<1>5. /\ q \in Seq(Event) /\ queue' = queue \o q
      /\ \A e \in Elems(q) : e.kind \in {"readFailed", "acceptFailed"}
  <2> HIDE DEF a
  <2>1. q \in Seq(Event) /\ Elems(q) = Elems(a) \cup Elems(Aborted(socket[s]))
    BY <1>3, <1>4, ConcatProperties, ElemsOf
  <2>2. queue' = queue \o q
    BY <1>1, <1>2, <1>3, <1>4, ConcatAssociative
  <2> QED BY <1>3, <1>4, <2>1, <2>2
<1> HIDE DEF q
<1>6. \A r \in Servers : socket'[r] \in {socket[r], None}
  BY <1>2, Parts DEF TypeOK
<1>7. \/ io' = io /\ io.srv # s
      \/ io.pc = "release" /\ io'.pc = "idle"
      \/ io.pc = "unwind" /\ io'.pc = "stopped"
  BY DEF Idle, Stopped, Run
<1>8. /\ Reading' /\ AcceptedOnce' /\ AcceptedFresh' /\ FramesServed' /\ BufferCurrent'
      /\ Elems(queue) \subseteq Elems(queue')
  <2>1. /\ io' = io \/ (io.pc # "callback" /\ io'.pc \notin {"acceptOk", "callback"})
        /\ io.pc = "stopped" => io'.pc = "stopped"
    BY <1>7
  <2> QED BY <1>1, <1>2, <1>5, <1>6, <2>1, ClosingServe
<1>9. Listens'
  <2> SUFFICES ASSUME NEW r \in Servers, life'[r] = "listening", io'.pc \notin {"unwind", "stopped"}
               PROVE  \/ accepting'[r] \/ AcceptPosted(r)'
                      \/ io'.srv = r /\ io'.pc \in {"acceptOk", "acceptErr", "rearm"}
    BY DEF Listens
  <2>1. r # s /\ life[r] = "listening" /\ accepting'[r] = accepting[r]
    BY <1>2, Parts DEF TypeOK
  <2>2. \/ accepting[r] \/ AcceptPosted(r)
        \/ io.srv = r /\ io.pc \in {"acceptOk", "acceptErr", "rearm"}
    BY <1>7, <2>1, ServeParts DEF Listens
  <2> QED BY <1>7, <1>8, <2>1, <2>2 DEF AcceptPosted
<1> QED BY <1>8, <1>9 DEF ServeInv

\* Listening again.
LEMMA DoAcceptServe ==
    ASSUME IInv, ServeInv, DoAccept
    PROVE  ServeInv'
<1>1. /\ io.pc = "rearm" /\ io.srv \in Servers /\ io'.pc = "release"
      /\ accepting' = [accepting EXCEPT ![io.srv] = TRUE]
      /\ UNCHANGED <<life, queue, sock, reading, socket, readBuf, rcvd>>
  BY Parts, NoneIsNew DEF DoAccept, netVars, TypeOK, IoShape
<1>2. Reading' /\ AcceptedOnce' /\ AcceptedFresh' /\ FramesServed' /\ BufferCurrent'
  BY <1>1, LeavingServe
<1>3. Listens'
  BY <1>1, ServeParts, Parts DEF Listens, AcceptPosted, TypeOK
<1> QED BY <1>2, <1>3 DEF ServeInv

\* doRead on the connection c, whose completion the thread has taken: e is posted
\* if the socket is closed.
LEMMA DoReadServe ==
    ASSUME IInv, ServeInv, NEW c \in Conns, NEW q \in Seq(Event), DoRead(c, q)
    PROVE  \E r \in Seq(Event) :
               /\ queue' = q \o r
               /\ \A e \in Elems(r) : e.kind = "readFailed"
<1>1. CASE sock[c] = "open"
  <2>1. queue' = q \o <<>> /\ <<>> \in Seq(Event) /\ Elems(<<>>) = {}
    BY <1>1, ConcatEmptySeq DEF DoRead, Elems
  <2> QED BY <2>1
<1>2. CASE sock[c] # "open"
  <2>1. queue' = q \o <<ReadFailed(c)>> /\ <<ReadFailed(c)>> \in Seq(Event)
    BY <1>2, AppendIsConcat, PostedShape DEF DoRead
  <2>2. \A e \in Elems(<<ReadFailed(c)>>) : e.kind = "readFailed"
    BY EventIs DEF Elems
  <2> QED BY <2>1, <2>2
<1> QED BY <1>1, <1>2

\* The handler of a completed read.
LEMMA ReadHandlerServe ==
    ASSUME IInv, ServeInv, ReadHandler
    PROVE  ServeInv'
<1>1. PICK e \in Event : ReadHandler!(e)
  BY DEF ReadHandler
<1>2. /\ Ready(e) /\ io.pc = "idle" /\ e.kind = "read" /\ e.conn \in Conns
      /\ e = ReadDone(e.conn) /\ Tail(queue) \in Seq(Event)
      /\ UNCHANGED <<life, accepting, socket, sock, readBuf, rcvd>>
  BY <1>1, EventShape, EventIs, Parts, HeadTailProperties DEF netVars, Ready, TypeOK
<1>3. CASE cb[e.srv]
  <2>1. /\ io' = Run("callback", e.srv, e.conn) /\ queue' = Tail(queue) /\ reading' = reading
    BY <1>1, <1>3
  <2>2. /\ AcceptedOnce' /\ Elems(queue) \subseteq {e} \cup Elems(queue') /\ e \in Elems(queue)
        /\ \A c \in Conns :
             /\ Accepted(c) \in Elems(queue') => Accepted(c) \in Elems(queue) /\ Accepted(c) # e
             /\ ReadDone(c) \in Elems(queue') => ReadDone(c) \in Elems(queue)
    BY <1>2, <2>1, TakesHeadOnly
  <2>3. Listens'
    BY <1>2, <2>1, <2>2, ServeParts DEF Listens, AcceptPosted, Run
  <2>4. Reading'
    BY <1>2, <2>1, <2>2, ServeParts DEF Reading, ReadPosted, Run
  <2>5. AcceptedFresh'
    BY <1>2, <2>1, <2>2, ServeParts DEF AcceptedFresh, Run
  <2>6. \A c \in Conns : FrameOf(c)' => FrameOf(c)
    BY <1>2, <2>1, <2>2 DEF FrameOf, Run
  <2>7. FramesServed' /\ BufferCurrent'
    BY <1>2, <2>6, ServeParts DEF FramesServed, BufferCurrent
  <2> QED BY <2>2, <2>3, <2>4, <2>5, <2>7 DEF ServeInv
<1>4. CASE ~cb[e.srv]
  <2>1. io' = Run("release", e.srv, None) /\ DoRead(e.conn, Tail(queue))
    BY <1>1, <1>4
  <2>2. PICK r \in Seq(Event) : /\ queue' = Tail(queue) \o r
                                /\ \A f \in Elems(r) : f.kind = "readFailed"
    BY <1>2, <2>1, DoReadServe
  <2>3. /\ AcceptedOnce' /\ Elems(queue) \subseteq {e} \cup Elems(queue')
        /\ \A c \in Conns :
             /\ Accepted(c) \in Elems(queue') => Accepted(c) \in Elems(queue) /\ Accepted(c) # e
             /\ ReadDone(c) \in Elems(queue') => ReadDone(c) \in Elems(queue)
    BY <1>2, <2>2, TakesHead
  <2>4. /\ io'.pc = "release" /\ reading' = [reading EXCEPT ![e.conn] = (sock[e.conn] = "open")]
    BY <2>1 DEF Run, DoRead
  <2>5. Listens'
    BY <1>2, <2>3, <2>4, ServeParts DEF Listens, AcceptPosted
  <2>6. Reading'
    <3> SUFFICES ASSUME NEW d \in Conns, sock'[d] = "open"
                 PROVE  reading'[d] \/ ReadPosted(d)'
      BY DEF Reading
    <3>1. CASE d = e.conn
      BY <1>2, <2>4, <3>1, Parts DEF TypeOK
    <3>2. CASE d # e.conn
      <4>1. reading'[d] = reading[d]
        BY <2>4, <3>2, Parts DEF TypeOK
      <4>2. reading[d] \/ ReadPosted(d)
        BY <1>2, ServeParts DEF Reading
      <4> QED BY <2>3, <3>2, <4>1, <4>2 DEF ReadPosted
    <3> QED BY <3>1, <3>2
  <2>7. AcceptedFresh'
    BY <1>2, <2>3, <2>4, ServeParts DEF AcceptedFresh
  <2>8. FramesServed' /\ BufferCurrent'
    BY <1>2, <2>3, <2>4, ServeParts DEF FramesServed, BufferCurrent, FrameOf
  <2> QED BY <2>3, <2>5, <2>6, <2>7, <2>8 DEF ServeInv
<1> QED BY <1>3, <1>4

\* The callback returns, and the handler reads on.
LEMMA CallbackReturnsServe ==
    ASSUME IInv, ServeInv, CallbackReturns
    PROVE  ServeInv'
<1>1. /\ io.pc = "callback" /\ io.conn \in Conns /\ DoRead(io.conn, queue) /\ io'.pc = "release"
      /\ UNCHANGED <<life, accepting, socket, sock, readBuf, rcvd>> /\ queue \in Seq(Event)
  BY Parts DEF CallbackReturns, IoShape, netVars, Run, TypeOK
<1>2. PICK r \in Seq(Event) : queue' = queue \o r /\ \A f \in Elems(r) : f.kind = "readFailed"
  BY <1>1, DoReadServe
<1>3. /\ AcceptedOnce' /\ Elems(queue) \subseteq Elems(queue')
      /\ \A c \in Conns : /\ Accepted(c) \in Elems(queue') => Accepted(c) \in Elems(queue)
                          /\ ReadDone(c) \in Elems(queue') => ReadDone(c) \in Elems(queue)
  BY <1>2, PostsFailures
<1>4. reading' = [reading EXCEPT ![io.conn] = (sock[io.conn] = "open")]
  BY <1>1 DEF DoRead
<1>5. Listens'
  BY <1>1, <1>3, ServeParts DEF Listens, AcceptPosted
<1>6. Reading'
  <2> SUFFICES ASSUME NEW d \in Conns, sock'[d] = "open"
               PROVE  reading'[d] \/ ReadPosted(d)'
    BY DEF Reading
  <2>1. CASE d = io.conn
    BY <1>1, <1>4, <2>1, Parts DEF TypeOK
  <2>2. CASE d # io.conn
    <3>1. reading'[d] = reading[d]
      BY <1>4, <2>2, Parts DEF TypeOK
    <3>2. reading[d] \/ ReadPosted(d)
      BY <1>1, <2>2, ServeParts DEF Reading
    <3> QED BY <1>3, <3>1, <3>2 DEF ReadPosted
  <2> QED BY <2>1, <2>2
<1>7. AcceptedFresh'
  BY <1>1, <1>3, ServeParts DEF AcceptedFresh
<1>8. FramesServed' /\ BufferCurrent'
  BY <1>1, <1>3, ServeParts DEF FramesServed, BufferCurrent, FrameOf
<1> QED BY <1>3, <1>5, <1>6, <1>7, <1>8 DEF ServeInv

\* The handler of a failed read.
LEMMA ReadErrorHandlerServe ==
    ASSUME IInv, ServeInv, ReadErrorHandler
    PROVE  ServeInv'
<1>1. PICK e \in Event : ReadErrorHandler!(e)
  BY DEF ReadErrorHandler
<1>2. /\ Ready(e) /\ io.pc = "idle" /\ e.kind = "readFailed" /\ e.conn \in Conns
      /\ queue' = Tail(queue) \o Aborted(e.conn) /\ io'.pc = "release"
      /\ sock' = Close(sock, e.conn) /\ reading' = Cancel(e.conn)
      /\ UNCHANGED <<life, accepting, socket, readBuf, rcvd>>
  BY <1>1, EventShape DEF netVars, Ready, Run
<1>3. /\ AcceptedOnce' /\ Elems(queue) \subseteq {e} \cup Elems(queue')
      /\ \A c \in Conns :
             /\ Accepted(c) \in Elems(queue') => Accepted(c) \in Elems(queue) /\ Accepted(c) # e
             /\ ReadDone(c) \in Elems(queue') => ReadDone(c) \in Elems(queue)
  BY <1>2, AbortedElems, TakesHead
<1>4. \A d \in Conns :
         /\ sock'[d] = "open" => sock[d] = "open" /\ d # e.conn /\ reading'[d] = reading[d]
         /\ sock[d] = "accepted" => sock'[d] = "accepted"
         /\ sock[d] \in {"open", "closed"} => sock'[d] \in {"open", "closed"}
  BY <1>2, Parts DEF TypeOK, Close, Cancel
<1>5. Listens'
  BY <1>2, <1>3, ServeParts DEF Listens, AcceptPosted
<1>6. Reading'
  <2> SUFFICES ASSUME NEW d \in Conns, sock'[d] = "open"
               PROVE  reading'[d] \/ ReadPosted(d)'
    BY DEF Reading
  <2>1. reading[d] \/ ReadPosted(d)
    BY <1>2, <1>4, ServeParts DEF Reading
  <2> QED BY <1>3, <1>4, <2>1 DEF ReadPosted
<1>7. AcceptedFresh'
  BY <1>2, <1>3, <1>4, ServeParts DEF AcceptedFresh
<1>8. FramesServed' /\ BufferCurrent'
  BY <1>2, <1>3, <1>4, ServeParts DEF FramesServed, BufferCurrent, FrameOf
<1> QED BY <1>3, <1>5, <1>6, <1>7, <1>8 DEF ServeInv

\* The end of a handler.
LEMMA ReleaseSelfServe ==
    ASSUME IInv, ServeInv, ReleaseSelf
    PROVE  ServeInv'
<1>1. /\ io.srv \in Servers
      /\ \/ io.pc = "release" /\ io' = Idle
         \/ io.pc = "unwind" /\ io' = Stopped
  BY Parts, NoneIsNew DEF TypeOK, IoShape, ReleaseSelf
<1>2. CASE life[io.srv] = "orphaned"
  BY <1>1, <1>2, DestroyServe DEF ReleaseSelf, netVars
<1>3. CASE life[io.srv] # "orphaned"
  <2>1. UNCHANGED <<life, accepting, socket, sock, reading, queue, readBuf, rcvd>>
    BY <1>3 DEF ReleaseSelf, netVars
  <2>2. \/ io.pc = "release" /\ io'.pc = "idle"
        \/ io.pc = "unwind" /\ io'.pc = "stopped"
    BY <1>1 DEF Idle, Stopped, Run
  <2>3. Reading' /\ AcceptedOnce' /\ AcceptedFresh' /\ FramesServed' /\ BufferCurrent'
    BY <2>1, <2>2, LeavingServe
  <2>4. Listens'
    BY <2>1, <2>2, ServeParts DEF Listens, AcceptPosted
  <2> QED BY <2>3, <2>4 DEF ServeInv
<1> QED BY <1>2, <1>3

\* The operating system completes an accept: the connection is fresh.
LEMMA AcceptCompletesServe ==
    ASSUME IInv, ServeInv, NEW c \in Conns, AcceptCompletes(c)
    PROVE  ServeInv'
<1>1. /\ sock[c] = "none" /\ sock' = [sock EXCEPT ![c] = "accepted"]
      /\ accepting' = [accepting EXCEPT ![ServerOf[c]] = FALSE]
      /\ queue' = Append(queue, Accepted(c))
      /\ UNCHANGED <<life, socket, reading, readBuf, io, rcvd>>
      /\ Accepted(c) \in Event /\ Accepted(c).srv = ServerOf[c] /\ Accepted(c).kind = "accepted"
  BY PostedShape, EventIs DEF AcceptCompletes, netVars
<1>2. /\ Elems(queue') = Elems(queue) \cup {Accepted(c)} /\ queue \in Seq(Event)
      /\ Elems(queue) \subseteq Event
  BY <1>1, Parts, ElemsOf DEF TypeOK
<1>3. \A d \in Conns : sock'[d] = IF d = c THEN "accepted" ELSE sock[d]
  BY <1>1, Parts DEF TypeOK
<1>4. AcceptedOnce'
  BY <1>1, <1>2, ServeParts, OnceOf DEF AcceptedOnce, AcceptedFresh
<1>5. Listens'
  BY <1>1, <1>2, ServeParts, Parts DEF Listens, AcceptPosted, TypeOK
<1>6. Reading'
  BY <1>1, <1>2, <1>3, ServeParts DEF Reading, ReadPosted
<1>7. AcceptedFresh'
  <2>1. \A d \in Conns : Accepted(d) \in Elems(queue') => Accepted(d) \in Elems(queue) \/ d = c
    BY <1>2, EventIs
  <2>2. io.pc = "acceptOk" => io.conn # c /\ io.conn \in Conns
    BY <1>1, ServeParts, Parts DEF AcceptedFresh, IoShape
  <2> QED BY <1>1, <1>3, <2>1, <2>2, ServeParts DEF AcceptedFresh
<1>8. \A d \in Conns : FrameOf(d)' => FrameOf(d)
  BY <1>1, <1>2, EventIs DEF FrameOf
<1>9. FramesServed' /\ BufferCurrent'
  BY <1>1, <1>3, <1>8, ServeParts DEF FramesServed, BufferCurrent
<1> QED BY <1>4, <1>5, <1>6, <1>7, <1>9 DEF ServeInv

\* An accept that fails is posted too.
LEMMA AcceptFailsServe ==
    ASSUME IInv, ServeInv, NEW s \in Servers, AcceptFails(s)
    PROVE  ServeInv'
<1>1. /\ accepting' = [accepting EXCEPT ![s] = FALSE]
      /\ queue' = Append(queue, AcceptFailed(s)) /\ AcceptFailed(s).srv = s
      /\ AcceptFailed(s) \in Event /\ AcceptFailed(s).kind = "acceptFailed"
      /\ UNCHANGED <<life, socket, sock, reading, readBuf, io, rcvd>>
  BY PostedShape, EventIs DEF AcceptFails
<1>2. Elems(queue') = Elems(queue) \cup {AcceptFailed(s)} /\ queue \in Seq(Event)
  BY <1>1, Parts, ElemsOf DEF TypeOK
<1>3. AcceptedOnce'
  BY <1>1, <1>2, ServeParts, OnceOf DEF AcceptedOnce
<1>4. Listens'
  BY <1>1, <1>2, ServeParts, Parts DEF Listens, AcceptPosted, TypeOK
<1>5. Reading'
  BY <1>1, <1>2, ServeParts DEF Reading, ReadPosted
<1>6. \A d \in Conns : AcceptFailed(s) # Accepted(d) /\ AcceptFailed(s) # ReadDone(d)
  BY EventIs
<1>7. AcceptedFresh'
  BY <1>1, <1>2, <1>6, ServeParts, Parts DEF AcceptedFresh, IoShape
<1>8. FramesServed' /\ BufferCurrent'
  BY <1>1, <1>2, <1>6, ServeParts DEF FramesServed, BufferCurrent, FrameOf
<1> QED BY <1>3, <1>4, <1>5, <1>7, <1>8 DEF ServeInv

\* A frame arrives: the only connection that is being read is the current client.
LEMMA ReadCompletesServe ==
    ASSUME IInv, ServeInv, NEW c \in Conns, ReadCompletes(c)
    PROVE  ServeInv'
<1>1. /\ reading[c] /\ reading' = [reading EXCEPT ![c] = FALSE]
      /\ rcvd' = [rcvd EXCEPT ![c] = @ + 1]
      /\ readBuf' = [readBuf EXCEPT ![ServerOf[c]] = <<c, rcvd[c] + 1>>]
      /\ queue' = Append(queue, ReadDone(c)) /\ ReadDone(c) \in Event
      /\ ReadDone(c).kind = "read" /\ ReadDone(c).conn = c
      /\ UNCHANGED <<life, accepting, socket, sock, io>>
  BY PostedShape, EventIs DEF ReadCompletes
<1>2. Elems(queue') = Elems(queue) \cup {ReadDone(c)} /\ queue \in Seq(Event)
  BY <1>1, Parts, ElemsOf DEF TypeOK
<1>3. sock[c] = "open" /\ socket[ServerOf[c]] = c /\ ServerOf[c] \in Servers
  BY <1>1, Parts, ServerOfType DEF ReadsOpen, OneClient
<1>4. AcceptedOnce'
  BY <1>1, <1>2, ServeParts, OnceOf DEF AcceptedOnce
<1>5. Listens'
  BY <1>1, <1>2, ServeParts DEF Listens, AcceptPosted
<1>6. Reading'
  BY <1>1, <1>2, ServeParts, Parts DEF Reading, ReadPosted, TypeOK
<1>7. \A d \in Conns : Accepted(d) # ReadDone(c) /\ (ReadDone(d) = ReadDone(c) => d = c)
  BY EventIs, <1>1
<1>8. AcceptedFresh'
  BY <1>1, <1>2, <1>7, ServeParts, Parts DEF AcceptedFresh, IoShape
<1>9. FramesServed'
  BY <1>1, <1>2, <1>3, <1>7, ServeParts DEF FramesServed, FrameOf
<1>10. BufferCurrent'
  <2> SUFFICES ASSUME NEW d \in Conns, FrameOf(d)', socket[ServerOf[d]] = d
               PROVE  readBuf'[ServerOf[d]] = <<d, rcvd'[d]>>
    BY <1>1 DEF BufferCurrent
  <2>1. CASE d = c
    BY <1>1, <1>3, <2>1, Parts DEF TypeOK
  <2>2. CASE d # c
    <3>1. FrameOf(d) /\ ServerOf[d] # ServerOf[c]
      BY <1>1, <1>2, <1>3, <1>7, <2>2 DEF FrameOf
    <3>2. rcvd'[d] = rcvd[d] /\ readBuf'[ServerOf[d]] = readBuf[ServerOf[d]]
      BY <1>1, <2>2, <3>1, ServerOfType, Parts DEF TypeOK
    <3> QED BY <3>1, <3>2, ServeParts DEF BufferCurrent
  <2> QED BY <2>1, <2>2
<1> QED BY <1>4, <1>5, <1>6, <1>8, <1>9, <1>10 DEF ServeInv

\* A hang-up that a read notices is posted.
LEMMA ReadFailsServe ==
    ASSUME IInv, ServeInv, NEW c \in Conns, ReadFails(c)
    PROVE  ServeInv'
<1>1. /\ reading' = [reading EXCEPT ![c] = FALSE]
      /\ queue' = Append(queue, ReadFailed(c)) /\ ReadFailed(c) \in Event
      /\ ReadFailed(c).kind = "readFailed" /\ ReadFailed(c).conn = c
      /\ UNCHANGED <<life, accepting, socket, sock, readBuf, io, rcvd>>
  BY PostedShape, EventIs DEF ReadFails, netVars
<1>2. Elems(queue') = Elems(queue) \cup {ReadFailed(c)} /\ queue \in Seq(Event)
  BY <1>1, Parts, ElemsOf DEF TypeOK
<1>3. AcceptedOnce'
  BY <1>1, <1>2, ServeParts, OnceOf DEF AcceptedOnce
<1>4. Listens'
  BY <1>1, <1>2, ServeParts DEF Listens, AcceptPosted
<1>5. Reading'
  BY <1>1, <1>2, ServeParts, Parts DEF Reading, ReadPosted, TypeOK
<1>6. \A d \in Conns : ReadFailed(c) # Accepted(d) /\ ReadFailed(c) # ReadDone(d)
  BY EventIs
<1>7. AcceptedFresh'
  BY <1>1, <1>2, <1>6, ServeParts, Parts DEF AcceptedFresh, IoShape
<1>8. FramesServed' /\ BufferCurrent'
  BY <1>1, <1>2, <1>6, ServeParts DEF FramesServed, BufferCurrent, FrameOf
<1> QED BY <1>3, <1>4, <1>5, <1>7, <1>8 DEF ServeInv

\* The user drops its reference.
LEMMA ReleaseServe ==
    ASSUME IInv, ServeInv, NEW s \in Servers, Release(s)
    PROVE  ServeInv'
<1>1. CASE io.srv = s
  <2>1. /\ life' = [life EXCEPT ![s] = "orphaned"]
        /\ UNCHANGED <<accepting, socket, sock, reading, readBuf, queue, io, rcvd>>
    BY <1>1 DEF Release, netVars
  <2>2. \A r \in Servers : life'[r] = "listening" => life[r] = "listening"
    BY <2>1, Parts DEF TypeOK
  <2> QED BY <2>1, <2>2, QuietServe
<1>2. CASE io.srv # s
  BY <1>2, DestroyServe DEF Release, netVars
<1> QED BY <1>1, <1>2

\* The thread has ended when the handlers that never ran are destroyed.
LEMMA JoinServe ==
    ASSUME IInv, ServeInv, Join
    PROVE  ServeInv'
<1>1. /\ io.pc = "stopped" /\ queue' = <<>> /\ Elems(queue') = {}
      /\ UNCHANGED <<life, accepting, socket, reading, readBuf, io, rcvd>>
  BY DEF Join, netVars, Elems
<1>2. AcceptedOnce'
  BY <1>1 DEF AcceptedOnce, Once
<1> QED BY <1>1, <1>2 DEF ServeInv, Listens, Reading, AcceptedFresh, FramesServed, BufferCurrent, FrameOf

\* A server that starts to listen has an accept outstanding.
LEMMA StartListenServe ==
    ASSUME IInv, ServeInv, NEW s \in Servers, StartListen(s)
    PROVE  ServeInv'
<1>1. /\ life' = [life EXCEPT ![s] = "listening"]
      /\ accepting' = [accepting EXCEPT ![s] = TRUE]
      /\ UNCHANGED <<socket, sock, reading, readBuf, queue, io, rcvd>>
  BY DEF StartListen, netVars
<1>2. Listens'
  BY <1>1, ServeParts, Parts DEF Listens, AcceptPosted, TypeOK
<1> QED BY <1>1, <1>2, ServeParts DEF ServeInv, Reading, AcceptedOnce, AcceptedFresh, FramesServed,
                                      BufferCurrent, ReadPosted, FrameOf

\* Every step keeps what a server owes its client.
LEMMA NextServe == IInv /\ ServeInv /\ [Next]_vars => ServeInv'
<1> SUFFICES ASSUME IInv, ServeInv, [Next]_vars PROVE ServeInv'
  OBVIOUS
<1>1. ASSUME UNCHANGED <<accepting, socket, sock, reading, readBuf, queue, io, rcvd, life>>
      PROVE  ServeInv'
  BY <1>1, QuietServe
<1>2. ASSUME NEW s \in Servers, Construct(s) PROVE ServeInv'
  <2>1. \A r \in Servers : life'[r] = "listening" => life[r] = "listening"
    BY <1>2, Parts DEF Construct, TypeOK
  <2> QED BY <1>2, <2>1, QuietServe DEF Construct, netVars
<1>3. CASE ThreadExits
  <2>1. io'.pc = "stopped" /\ io.pc = "idle"
    BY <1>3 DEF ThreadExits, Stopped, Run
  <2>2. Listens'
    BY <2>1 DEF Listens
  <2> QED BY <1>3, <2>1, <2>2, LeavingServe DEF ThreadExits, netVars, ServeInv
<1>4. CASE IoThread
  BY <1>3, <1>4, HandlerOfDeadServerServe, AcceptHandlerServe, AcceptNewClientServe,
     AcceptThrowsServe, AcceptErrorServe, DoAcceptServe, ReadHandlerServe,
     CallbackReturnsServe, ReadErrorHandlerServe, ReleaseSelfServe
     DEF IoThread
<1>5. CASE Network
  <2>1. ASSUME NEW c \in Conns, PeerConnect(c) \/ PeerSend(c) \/ PeerClose(c) PROVE ServeInv'
    BY <1>1, <2>1 DEF PeerConnect, PeerSend, PeerClose
  <2> QED BY <1>5, <2>1, AcceptCompletesServe, AcceptFailsServe, ReadCompletesServe, ReadFailsServe
             DEF Network
<1>6. CASE User
  <2>1. ASSUME NEW s \in Servers, SetReceiveCallback(s) \/ UnsetReceiveCallback(s) \/ DestroyListener(s)
        PROVE  ServeInv'
    BY <1>1, <2>1 DEF SetReceiveCallback, UnsetReceiveCallback, DestroyListener, netVars
  <2>2. ASSUME NEW u \in Users, WriteEnd(u) \/ \E s \in Servers : WriteBegin(u, s) PROVE ServeInv'
    BY <1>1, <2>2 DEF WriteEnd, WriteBegin, netVars
  <2>3. CASE Shutdown
    BY <1>1, <2>3 DEF Shutdown, netVars
  <2> QED BY <1>2, <1>6, <2>1, <2>2, <2>3, StartListenServe, ReleaseServe, JoinServe DEF User
<1>7. CASE UNCHANGED vars
  BY <1>1, <1>7 DEF vars
<1> QED BY <1>4, <1>5, <1>6, <1>7 DEF Next

\* ServeInv holds in every reachable state of every instance.
THEOREM ServingInvariant == Spec => []ServeInv
<1>1. Init => ServeInv
  <2> SUFFICES ASSUME Init PROVE ServeInv
    OBVIOUS
  <2>1. Elems(queue) = {} /\ AcceptedOnce /\ io.pc = "idle"
    BY DEF Init, Elems, AcceptedOnce, Once, Idle, Run
  <2> QED BY <2>1 DEF Init, ServeInv, Listens, Reading, AcceptedFresh, FramesServed, BufferCurrent,
                      FrameOf
<1> QED BY <1>1, NextServe, InductiveInvariant, PTL DEF Spec

\* ServesItsClient: a listening server is always ready for the next robot, reads from
\* the one it has, and gives the callback that robot's own frame.
THEOREM ServerServes == Spec => []ServesItsClient
<1>1. IInv /\ ServeInv => ServesItsClient
  <2> SUFFICES ASSUME IInv, ServeInv PROVE ServesItsClient
    OBVIOUS
  <2>1. AlwaysListening
    BY ServeParts DEF Listens, AcceptPosted, Elems, AlwaysListening
  <2>2. ReadChain
    BY ServeParts DEF Reading, ReadPosted, Elems, ReadChain
  <2>3. OwnFrame
    BY Parts, ServeParts DEF OwnFrame, CbLocked, BufferCurrent, FrameOf, IoShape
  <2> QED BY <2>1, <2>2, <2>3 DEF ServesItsClient
<1> QED BY <1>1, InductiveInvariant, ServingInvariant, PTL

----------------------------------------------------------------------------
(* The refinement of ClientSlot.                                            *)

\* A step that leaves the clients and the closed sockets alone.
LEMMA SlotStutters ==
    ASSUME UNCHANGED <<socket, sock>>
    PROVE  UNCHANGED Slot!vars
BY DEF Slot!vars, slotBar, goneBar, IsClientConnected

\* A client of the server is one of its connections.
LEMMA SlotHome ==
    ASSUME IInv, NEW s \in Servers
    PROVE  /\ slotBar[s] = IF socket[s] # None /\ sock[socket[s]] = "open" THEN socket[s] ELSE None
           /\ socket[s] \in Conns \cup {None}
           /\ socket[s] # None => ServerOf[socket[s]] = s
BY Parts DEF slotBar, IsClientConnected, TypeOK, SocketHome

\* Closing the client of s, and turning away the connections in D that never were a
\* client, is Detach.
LEMMA SlotDetaches ==
    ASSUME IInv, NEW s \in Servers, NEW D \in SUBSET Conns,
           \A r \in Servers \ {s} : socket'[r] = socket[r],
           socket'[s] \in {socket[s], None},
           \A c \in Conns : sock'[c] = IF c \in D \/ (c = socket[s] /\ sock[c] = "open")
                                       THEN "closed" ELSE sock[c],
           \A c \in D : sock[c] # "open"
    PROVE  Slot!Next
<1>1. slotBar' = [slotBar EXCEPT ![s] = None]
  <2>1. ASSUME NEW r \in Servers PROVE slotBar'[r] = IF r = s THEN None ELSE slotBar[r]
    <3>1. CASE r = s
      BY <3>1, SlotHome, NoneIsNew DEF slotBar, IsClientConnected
    <3>2. CASE r # s
      <4>1. socket'[r] = socket[r] /\ socket[r] \in Conns \cup {None}
            /\ (socket[r] # None => ServerOf[socket[r]] = r)
        BY <3>2, SlotHome
      <4>2. socket[r] # None => (sock'[socket[r]] = "open" <=> sock[socket[r]] = "open")
        BY <3>2, <4>1, SlotHome
      <4> QED BY <3>2, <4>1, <4>2 DEF slotBar, IsClientConnected
    <3> QED BY <3>1, <3>2
  <2> QED BY <2>1 DEF slotBar
<1>2. goneBar' = goneBar \cup ({slotBar[s]} \ {None}) \cup D
  BY SlotHome, NoneIsNew DEF goneBar
<1>3. Slot!Detach(s, D)
  BY <1>1, <1>2 DEF Slot!Detach, Slot!Holder
<1> QED BY <1>3 DEF Slot!Next

\* The same with nobody else to turn away.
LEMMA SlotLoses ==
    ASSUME IInv, NEW s \in Servers,
           \A r \in Servers \ {s} : socket'[r] = socket[r],
           socket'[s] \in {socket[s], None},
           \A c \in Conns : sock'[c] = IF c = socket[s] /\ sock[c] = "open" THEN "closed" ELSE sock[c]
    PROVE  Slot!Next
<1> DEFINE D == {}
<1>1. D \in SUBSET Conns /\ \A c \in D : sock[c] # "open"
  OBVIOUS
<1>2. \A c \in Conns : sock'[c] = IF c \in D \/ (c = socket[s] /\ sock[c] = "open")
                                  THEN "closed" ELSE sock[c]
  OBVIOUS
<1> HIDE DEF D
<1> QED BY <1>1, <1>2, SlotDetaches

\* Closing sockets that never were a client is Refuse.
LEMMA SlotRefuses ==
    ASSUME IInv, NEW D \in SUBSET Conns, UNCHANGED socket,
           \A c \in Conns : sock'[c] = IF c \in D THEN "closed" ELSE sock[c],
           \A c \in D : sock[c] # "open"
    PROVE  Slot!Next
<1>1. slotBar' = slotBar
  <2>1. ASSUME NEW r \in Servers PROVE slotBar'[r] = slotBar[r]
    BY SlotHome DEF slotBar, IsClientConnected
  <2> QED BY <2>1 DEF slotBar
<1>2. goneBar' = goneBar \cup D
  BY DEF goneBar
<1>3. \A r \in Servers : ({slotBar[r]} \ {None}) \cap D = {}
  BY SlotHome
<1>4. Slot!Refuse(D)
  BY <1>1, <1>2, <1>3 DEF Slot!Refuse, Slot!Holder
<1> QED BY <1>4 DEF Slot!Next

\* A new client is Attach: its connection is fresh.
LEMMA SlotAttaches ==
    ASSUME IInv, ServeInv, AcceptNewClient
    PROVE  Slot!Next
<1> DEFINE s == io.srv
           old == socket[s]
           new == io.conn
<1>1. /\ s \in Servers /\ old \in Conns \cup {None} /\ new \in Conns /\ ServerOf[new] = s
      /\ sock[new] = "accepted"
  BY AcceptContext, Parts, ServeParts DEF AcceptNewClient, IoShape, AcceptedFresh
<1>2. /\ \A c \in Conns : sock'[c] = IF c = new THEN "open"
                                     ELSE IF c = old /\ sock[c] = "open" THEN "closed" ELSE sock[c]
      /\ \A r \in Servers : socket'[r] = IF r = s THEN new ELSE socket[r]
  BY <1>1, Parts DEF AcceptNewClient, Close, TypeOK
<1>3. slotBar' = [slotBar EXCEPT ![s] = new]
  <2>1. ASSUME NEW r \in Servers PROVE slotBar'[r] = IF r = s THEN new ELSE slotBar[r]
    <3>1. CASE r = s
      BY <1>1, <1>2, <3>1, NoneIsNew DEF slotBar, IsClientConnected
    <3>2. CASE r # s
      <4>1. socket'[r] = socket[r] /\ socket[r] \in Conns \cup {None}
            /\ (socket[r] # None => ServerOf[socket[r]] = r)
        BY <1>2, <3>2, SlotHome
      <4>2. socket[r] # None => sock'[socket[r]] = sock[socket[r]]
        BY <1>1, <1>2, <3>2, <4>1, SlotHome
      <4> QED BY <3>2, <4>1, <4>2 DEF slotBar, IsClientConnected
    <3> QED BY <3>1, <3>2
  <2> QED BY <2>1 DEF slotBar
<1>4. goneBar' = goneBar \cup ({slotBar[s]} \ {None})
  BY <1>1, <1>2, SlotHome, NoneIsNew DEF goneBar
<1>5. new \notin goneBar \cup ({slotBar[s]} \ {None})
  BY <1>1, SlotHome DEF goneBar
<1>6. Slot!Attach(new)
  BY <1>1, <1>3, <1>4, <1>5 DEF Slot!Attach, Slot!Holder
<1> QED BY <1>1, <1>6 DEF Slot!Next

\* The destructor hangs up on the client of its server.
LEMMA SlotDestroyed ==
    ASSUME IInv, NEW s \in Servers, Destroy(s)
    PROVE  Slot!Next
<1>1. /\ \A r \in Servers \ {s} : socket'[r] = socket[r]
      /\ socket'[s] = None
      /\ \A c \in Conns : sock'[c] = IF c = socket[s] /\ sock[c] = "open" THEN "closed" ELSE sock[c]
  BY Parts DEF Destroy, Close, TypeOK
<1> QED BY <1>1, SlotLoses

\* Every step of the server is a step of the slot, or leaves it alone.
LEMMA SlotStep ==
    ASSUME IInv, ServeInv, [Next]_vars
    PROVE  [Slot!Next]_(Slot!vars)
<1>1. ASSUME UNCHANGED <<socket, sock>> PROVE UNCHANGED Slot!vars
  BY <1>1, SlotStutters
<1>2. CASE HandlerOfDeadServer
  <2>1. PICK e \in Event : HandlerOfDeadServer!(e)
    BY <1>2 DEF HandlerOfDeadServer
  <2>2. e \in Elems(queue)
    BY <2>1, TakesHeadOnly
  <2> DEFINE D == {c \in Conns : e.kind = "accepted" /\ e.conn = c}
  <2>3. \A c \in D : sock[c] = "accepted"
    BY <2>2, EventIs, ServeParts DEF AcceptedFresh
  <2> QED BY <2>1, <2>3, SlotRefuses
<1>3. CASE AcceptThrows
  <2> DEFINE s == io.srv
  <2>1. s \in Servers /\ io.conn \in Conns /\ sock[io.conn] = "accepted"
    BY <1>3, AcceptContext, Parts, ServeParts DEF AcceptThrows, IoShape, AcceptedFresh
  <2>2. \A c \in Conns : sock'[c] = IF c \in {io.conn} \/ (c = socket[s] /\ sock[c] = "open")
                                    THEN "closed" ELSE sock[c]
    BY <1>3, <2>1, Parts DEF AcceptThrows, Close, TypeOK
  <2> QED BY <1>3, <2>1, <2>2, SlotDetaches DEF AcceptThrows
<1>4. CASE AcceptError
  <2> DEFINE s == io.srv
  <2>1. s \in Servers
    BY <1>4, AcceptContext DEF AcceptError
  <2>2. /\ \A c \in Conns : sock'[c] = IF c = socket[s] /\ sock[c] = "open" THEN "closed" ELSE sock[c]
        /\ \A r \in Servers \ {s} : socket'[r] = socket[r]
        /\ socket'[s] = None
    BY <1>4, <2>1, Parts DEF AcceptError, Close, TypeOK
  <2> QED BY <2>1, <2>2, SlotLoses
<1>5. CASE ReadErrorHandler
  <2>1. PICK e \in Event : ReadErrorHandler!(e)
    BY <1>5 DEF ReadErrorHandler
  <2>2. /\ e.srv \in Servers /\ e.conn \in Conns /\ ServerOf[e.conn] = e.srv /\ socket' = socket
        /\ sock' = Close(sock, e.conn)
    BY <2>1, EventShape
  <2>3. CASE sock[e.conn] = "open"
    <3>1. socket[e.srv] = e.conn
      BY <2>2, <2>3, Parts DEF OneClient
    <3>2. \A c \in Conns : sock'[c] = IF c = socket[e.srv] /\ sock[c] = "open" THEN "closed" ELSE sock[c]
      BY <2>2, <3>1, Parts DEF Close, TypeOK
    <3> QED BY <2>2, <3>2, SlotLoses
  <2>4. CASE sock[e.conn] # "open"
    <3>1. sock' = sock
      BY <2>2, <2>4, Parts DEF Close, TypeOK
    <3> QED BY <1>1, <2>2, <3>1
  <2> QED BY <2>3, <2>4
<1>6. CASE ReleaseSelf
  <2>1. io.srv \in Servers
    BY <1>6, Parts, NoneIsNew DEF TypeOK, IoShape, ReleaseSelf
  <2> QED BY <1>1, <1>6, <2>1, SlotDestroyed DEF ReleaseSelf
<1>7. ASSUME NEW s \in Servers, Release(s) PROVE [Slot!Next]_(Slot!vars)
  BY <1>1, <1>7, SlotDestroyed DEF Release
<1>8. CASE Join
  <2> DEFINE D == {c \in Conns : sock[c] = "accepted"}
  <2>1. \A c \in Conns : sock'[c] = IF c \in D THEN "closed" ELSE sock[c]
    BY <1>8 DEF Join
  <2> QED BY <1>8, <2>1, SlotRefuses DEF Join
<1>9. ASSUME NEW c \in Conns, AcceptCompletes(c) PROVE UNCHANGED Slot!vars
  <2>1. /\ sock[c] = "none" /\ socket' = socket
        /\ \A d \in Conns : sock'[d] = IF d = c THEN "accepted" ELSE sock[d]
    BY <1>9, Parts DEF AcceptCompletes, TypeOK
  <2>2. goneBar' = goneBar
    BY <2>1 DEF goneBar
  <2>3. \A r \in Servers : socket[r] # None => (sock'[socket[r]] = "open" <=> sock[socket[r]] = "open")
    BY <2>1, Parts DEF TypeOK
  <2>4. slotBar' = slotBar
    BY <2>1, <2>3 DEF slotBar, IsClientConnected
  <2> QED BY <2>2, <2>4 DEF Slot!vars
<1>10. CASE IoThread
  BY <1>1, <1>2, <1>3, <1>4, <1>5, <1>6, <1>10, SlotAttaches
     DEF IoThread, AcceptHandler, DoAccept, ReadHandler, CallbackReturns, ThreadExits
<1>11. CASE Network
  BY <1>1, <1>9, <1>11 DEF Network, PeerConnect, PeerSend, PeerClose, ReadCompletes, ReadFails, AcceptFails
<1>12. CASE User
  BY <1>1, <1>7, <1>8, <1>12
     DEF User, Construct, StartListen, SetReceiveCallback, UnsetReceiveCallback,
         DestroyListener, WriteBegin, WriteEnd, Shutdown
<1>13. CASE UNCHANGED vars
  BY <1>1, <1>13 DEF vars
<1> QED BY <1>10, <1>11, <1>12, <1>13 DEF Next

\* ImplementsClientSlot: a TcpServer is a slot for one client; whoever is replaced,
\* lost or turned away is hung up on and never comes back.
THEOREM ServerIsASlot == Spec => ImplementsClientSlot
<1>1. Init => Slot!Init
  BY DEF Init, Slot!Init, slotBar, goneBar, IsClientConnected
<1>2. IInv /\ ServeInv /\ [Next]_vars => [Slot!Next]_(Slot!vars)
  BY SlotStep
<1> QED BY <1>1, <1>2, InductiveInvariant, ServingInvariant, PTL DEF Spec, ImplementsClientSlot, Slot!Spec
=============================================================================
