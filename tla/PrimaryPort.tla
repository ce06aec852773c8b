----------------------------- MODULE PrimaryPort -----------------------------
(***************************************************************************)
(* The client of the robot's primary port (source/Primary/PrimaryPort.cpp): *)
(* a background thread reads messages and reconnects, user threads wait for *)
(* sub-packages in a registry (getPackage) or send scripts, and one user    *)
(* thread connects and disconnects.                                         *)
(*                                                                          *)
(* A message arrives as two halves of a head and a body; what is read from  *)
(* a body is the list of its sub-package types.  socket_mutex_ is held by   *)
(* the thread from the head to the end of the body; every other section     *)
(* under a mutex is one action.                                             *)
(***************************************************************************)
EXTENDS Naturals, Sequences

CONSTANTS
    Users,           \* threads that call getPackage
    Types,           \* sub-package types
    MaxMessages,     \* bound: messages the robot sends
    MaxOutages,      \* bound: times the robot becomes unreachable
    MaxConnects,     \* bound: calls of connect()
    MaxThrows,       \* bound: exceptions while a socket is set up
    MaxCalls,        \* bound: getPackage calls of each user
    ReusePackages,   \* may a user pass the same package object again?
    HeadsMaySplit,   \* may a head arrive in two parts?
    BodiesMayBeLate, \* may a body take longer than 500 ms?
    None

ASSUME PrimaryBounds ==
    /\ MaxMessages \in Nat /\ MaxOutages \in Nat /\ MaxConnects \in Nat
    /\ MaxThrows \in Nat /\ MaxCalls \in Nat
ASSUME PrimarySwitches ==
    ReusePackages \in BOOLEAN /\ HeadsMaySplit \in BOOLEAN /\ BodiesMayBeLate \in BOOLEAN
ASSUME SomeType == Types # {}
ASSUME NoneIsNoPackage == None \notin Users \X Nat

VARIABLES
    \* the connection
    sock,       \* socket_ptr_: "null", "up", or "down" (the robot is gone)
    inq,        \* what arrived on it
    wire,       \* what the robot sent on it and is still under way
    reachable, sent, outages, throws,
    \* the background thread
    alive,      \* socket_async_thread_alive_
    thread,     \* what the thread is doing, "none" without a thread
    last,       \* is_last_connect_success
    subs,       \* sub-packages of the body still to be parsed
    \* the controlling user thread
    ctl, connects, ups, reports,
    script,     \* the last sendScript: its result and what was sent
    \* getPackage
    registry,   \* parser_sub_msg_: the package object waiting for each type
    call,       \* what each user is doing
    want,       \* the type it waits for
    object,     \* the number of its package object
    ready,      \* ready_ of that object
    calls, refused

connVars == <<sock, inq, wire>>
envVars  == <<reachable, sent, outages, throws>>
loopVars == <<alive, thread, last, subs>>
ctlVars  == <<ctl, connects, ups, reports, script>>
pkgVars  == <<registry, call, want, object, ready, calls, refused>>
vars == <<connVars, envVars, loopVars, ctlVars, pkgVars>>

Bodies == {<<t>> : t \in Types} \cup {<<t, u>> : t, u \in Types} \cup {<<"bad">>, <<>>}
Token == [part : {"head1", "head2"}, subs : {<<>>}] \cup [part : {"body"}, subs : Bodies]
Half(p) == [part |-> p, subs |-> <<>>]

Package(u) == <<u, object[u]>>

\* The thread holds socket_mutex_.
Held == thread \in {"body", "subs"}

Init ==
    /\ sock = "null" /\ inq = <<>> /\ wire = <<>>
    /\ reachable = TRUE /\ sent = 0 /\ outages = 0 /\ throws = 0
    /\ alive = FALSE /\ thread = "none" /\ last = TRUE /\ subs = <<>>
    /\ ctl = "idle" /\ connects = 0 /\ ups = 0 /\ reports = 0 /\ script = <<FALSE, "nothing">>
    /\ registry = [t \in Types |-> None]
    /\ call = [u \in Users |-> "idle"]
    /\ want = [u \in Users |-> CHOOSE t \in Types : TRUE]
    /\ object = [u \in Users |-> 0]
    /\ ready = [u \in Users |-> FALSE]
    /\ calls = [u \in Users |-> 0]
    /\ refused = [u \in Users |-> FALSE]

----------------------------------------------------------------------------
(* The robot and the network.                                               *)

RobotSends ==
    /\ sock = "up" /\ sent < MaxMessages
    /\ \E b \in Bodies :
         wire' = wire \o <<Half("head1"), Half("head2"), [part |-> "body", subs |-> b]>>
    /\ sent' = sent + 1
    /\ UNCHANGED <<sock, inq, reachable, outages, throws, loopVars, ctlVars, pkgVars>>

\* Whole heads arrive unless heads may be split.
Arrives ==
    /\ wire # <<>>
    /\ \E n \in 1..Len(wire) :
         /\ wire[n].part = "head1" => HeadsMaySplit
         /\ inq' = inq \o SubSeq(wire, 1, n)
         /\ wire' = SubSeq(wire, n + 1, Len(wire))
    /\ UNCHANGED <<sock, envVars, loopVars, ctlVars, pkgVars>>

RobotGoes ==
    /\ reachable /\ outages < MaxOutages
    /\ reachable' = FALSE /\ outages' = outages + 1
    /\ sock' = IF sock = "up" THEN "down" ELSE sock
    /\ wire' = <<>>
    /\ UNCHANGED <<inq, sent, throws, loopVars, ctlVars, pkgVars>>

RobotReturns ==
    /\ ~reachable
    /\ reachable' = TRUE
    /\ UNCHANGED <<connVars, sent, outages, throws, loopVars, ctlVars, pkgVars>>

----------------------------------------------------------------------------
(* Connecting, under socket_mutex_.                                         *)

\* socketConnect: the old socket is dropped; a refused or timed-out connection
\* leaves a null pointer.
SocketConnect ==
    /\ sock' = IF reachable THEN "up" ELSE "null"
    /\ ups' = IF reachable THEN ups + 1 ELSE ups
    /\ inq' = <<>> /\ wire' = <<>>

\* open or set_option throws: the new socket is there, and closed.
SocketThrows ==
    /\ throws < MaxThrows
    /\ throws' = throws + 1
    /\ sock' = "down"
    /\ inq' = <<>> /\ wire' = <<>>

Connect ==
    /\ ctl = "idle" /\ connects < MaxConnects /\ ~Held
    /\ connects' = connects + 1
    /\ SocketConnect
    /\ IF reachable /\ thread = "none"
       THEN alive' = TRUE /\ thread' = "check" /\ last' = TRUE
       ELSE UNCHANGED <<alive, thread, last>>
    /\ UNCHANGED <<envVars, subs, ctl, reports, script, pkgVars>>

\* The exception reaches the caller; a thread that runs is not told.
ConnectThrows ==
    /\ ctl = "idle" /\ connects < MaxConnects /\ ~Held
    /\ connects' = connects + 1
    /\ SocketThrows
    /\ UNCHANGED <<reachable, sent, outages, loopVars, ctl, ups, reports, script, pkgVars>>

\* disconnect(): the flag and the socket under the mutex, then the join, if there is
\* a thread.
Disconnect ==
    /\ ctl = "idle" /\ ~Held
    /\ alive' = FALSE
    /\ sock' = "null" /\ inq' = <<>> /\ wire' = <<>>
    /\ ctl' = IF thread = "none" THEN "idle" ELSE "joining"
    /\ UNCHANGED <<envVars, thread, last, subs, connects, ups, reports, script, pkgVars>>

Join ==
    /\ ctl = "joining" /\ thread = "ended"
    /\ thread' = "none" /\ ctl' = "idle"
    /\ UNCHANGED <<connVars, envVars, alive, last, subs, connects, ups, reports, script, pkgVars>>

\* sendScript: one write_some on a non-blocking socket, which may take a part.
SendScript ==
    /\ ~Held
    /\ \E how \in {"nothing"} \cup (IF sock = "null" THEN {} ELSE {"part", "whole"}) :
         script' = <<how # "nothing", how>>
    /\ UNCHANGED <<connVars, envVars, loopVars, ctl, connects, ups, reports, pkgVars>>

----------------------------------------------------------------------------
(* The background thread: socketAsyncLoop.                                  *)

\* Faulty form: the flag is not looked at.
LoopCheckFaulty ==
    /\ thread = "check"
    /\ thread' = "parse"
    /\ UNCHANGED <<connVars, envVars, alive, last, subs, ctlVars, pkgVars>>

LoopCheck ==
    /\ thread = "check"
    /\ thread' = IF alive THEN "parse" ELSE "ended"
    /\ UNCHANGED <<connVars, envVars, alive, last, subs, ctlVars, pkgVars>>

\* parserMessage: the head.  Nothing there is no error; but a read of five bytes
\* that finds fewer takes them, and also returns "would block".  What is no head
\* may be too short, name a length that is refused, or one that is then waited for.
ParserMessage ==
    LET first == inq # <<>> /\ inq[1].part = "head1"
        whole == first /\ Len(inq) >= 2
    IN
    /\ thread = "parse"
    /\ CASE whole              -> thread' = "body" /\ inq' = SubSeq(inq, 3, Len(inq))
         [] first /\ ~whole    -> /\ inq' = Tail(inq)
                                  /\ thread' = IF sock = "up" THEN "check" ELSE "report"
         [] inq = <<>>         -> /\ thread' = IF sock = "up" THEN "check" ELSE "report"
                                  /\ UNCHANGED inq
         [] OTHER              -> /\ inq' = Tail(inq)
                                  /\ thread' \in {"check", "report", "body"}
    /\ UNCHANGED <<sock, wire, envVars, alive, last, subs, ctlVars, pkgVars>>

\* parserMessageBody, the body is there ...
BodyArrives ==
    /\ thread = "body" /\ inq # <<>>
    /\ subs' = Head(inq).subs /\ inq' = Tail(inq)
    /\ thread' = "subs"
    /\ UNCHANGED <<sock, wire, envVars, alive, last, ctlVars, pkgVars>>

\* ... or not: the connection fails, or 500 ms pass.  Either
\* way the length check fails and the thread takes the connection for lost.
BodyFails ==
    /\ thread = "body" /\ inq = <<>> /\ (sock = "down" \/ BodiesMayBeLate)
    /\ thread' = "report"
    /\ UNCHANGED <<sock, inq, wire, envVars, alive, last, subs, ctlVars, pkgVars>>

\* Faulty form: the entry stays in the registry.
ParserSubFaulty ==
    /\ thread = "subs" /\ subs # <<>> /\ Head(subs) # "bad"
    /\ subs' = Tail(subs)
    /\ ready' = [u \in Users |-> ready[u] \/ registry[Head(subs)] = Package(u)]
    /\ UNCHANGED <<connVars, envVars, alive, thread, last, ctlVars, registry, call, want,
                   object, calls, refused>>

\* One sub-package, under mutex_: parsed into the package that waits for it.
ParserSub ==
    /\ thread = "subs" /\ subs # <<>> /\ Head(subs) # "bad"
    /\ subs' = Tail(subs)
    /\ ready' = [u \in Users |-> ready[u] \/ registry[Head(subs)] = Package(u)]
    /\ registry' = [registry EXCEPT ![Head(subs)] = None]
    /\ UNCHANGED <<connVars, envVars, alive, thread, last, ctlVars, call, want, object,
                   calls, refused>>

\* The end of the body, or a sub-package whose length is wrong.
BodyEnds ==
    /\ thread = "subs" /\ (subs # <<>> => Head(subs) = "bad")
    /\ thread' = IF subs = <<>> THEN "check" ELSE "report"
    /\ subs' = <<>>
    /\ UNCHANGED <<connVars, envVars, alive, last, ctlVars, pkgVars>>

\* Faulty form: every failed attempt is reported.
ReportFaulty ==
    /\ thread = "report"
    /\ reports' = reports + 1
    /\ thread' = "reconnect"
    /\ UNCHANGED <<connVars, envVars, alive, last, subs, ctl, connects, ups, script, pkgVars>>

\* The ROBOT_DISCONNECTED callback.
Report ==
    /\ thread = "report"
    /\ reports' = IF last THEN reports + 1 ELSE reports
    /\ thread' = "reconnect"
    /\ UNCHANGED <<connVars, envVars, alive, last, subs, ctl, connects, ups, script, pkgVars>>

\* Faulty form: the thread gives up after a failed attempt.
ReconnectFaulty ==
    /\ thread = "reconnect"
    /\ SocketConnect
    /\ last' = reachable
    /\ thread' = IF reachable THEN "check" ELSE "ended"
    /\ UNCHANGED <<envVars, alive, subs, ctl, connects, reports, script, pkgVars>>

\* socketReconnect; the loop's flag is not looked at here.
Reconnect ==
    /\ thread = "reconnect"
    /\ SocketConnect
    /\ last' = reachable
    /\ thread' = "check"
    /\ UNCHANGED <<envVars, alive, subs, ctl, connects, reports, script, pkgVars>>

\* The loop catches the exception, and does not learn that the attempt failed.
ReconnectThrows ==
    /\ thread = "reconnect"
    /\ SocketThrows
    /\ thread' = "check"
    /\ UNCHANGED <<reachable, sent, outages, alive, last, subs, ctlVars, pkgVars>>

----------------------------------------------------------------------------
(* getPackage.                                                              *)

\* The registration: refused if a package of this type is waiting already.
GetPackage(u, t, fresh) ==
    /\ call[u] = "idle" /\ calls[u] < MaxCalls
    /\ ~fresh => ReusePackages /\ object[u] > 0 /\ t = want[u]
    /\ calls' = [calls EXCEPT ![u] = @ + 1]
    /\ object' = IF fresh THEN [object EXCEPT ![u] = @ + 1] ELSE object
    /\ ready' = IF fresh THEN [ready EXCEPT ![u] = FALSE] ELSE ready
    /\ want' = [want EXCEPT ![u] = t]
    /\ refused' = [refused EXCEPT ![u] = registry[t] # None]
    /\ IF registry[t] = None
       THEN /\ registry' = [registry EXCEPT ![t] = <<u, object'[u]>>]
            /\ call' = [call EXCEPT ![u] = "waiting"]
       ELSE UNCHANGED <<registry, call>>
    /\ UNCHANGED <<connVars, envVars, loopVars, ctlVars>>

\* waitUpdate returns true.
WaitReturns(u) ==
    /\ call[u] = "waiting" /\ ready[u]
    /\ call' = [call EXCEPT ![u] = "idle"]
    /\ UNCHANGED <<connVars, envVars, loopVars, ctlVars, registry, want, object, ready, calls,
                   refused>>

WaitTimesOut(u) ==
    /\ call[u] = "waiting" /\ ~ready[u]
    /\ call' = [call EXCEPT ![u] = "timedOut"]
    /\ UNCHANGED <<connVars, envVars, loopVars, ctlVars, registry, want, object, ready, calls,
                   refused>>

\* Faulty form: whatever waits for the type is erased.
EraseAfterTimeoutFaulty(u) ==
    /\ call[u] = "timedOut"
    /\ registry' = [registry EXCEPT ![want[u]] = None]
    /\ call' = [call EXCEPT ![u] = "idle"]
    /\ UNCHANGED <<connVars, envVars, loopVars, ctlVars, want, object, ready, calls, refused>>

\* The parser may have been faster, and another caller may wait for the type now.
EraseAfterTimeout(u) ==
    /\ call[u] = "timedOut"
    /\ registry' = [registry EXCEPT ![want[u]] = IF @ = Package(u) THEN None ELSE @]
    /\ call' = [call EXCEPT ![u] = "idle"]
    /\ UNCHANGED <<connVars, envVars, loopVars, ctlVars, want, object, ready, calls, refused>>

----------------------------------------------------------------------------
AsyncLoop ==
    \/ LoopCheck \/ ParserMessage \/ BodyArrives \/ BodyFails \/ ParserSub \/ BodyEnds
    \/ Report \/ Reconnect \/ ReconnectThrows

Environment == RobotSends \/ Arrives \/ RobotGoes \/ RobotReturns

Caller(u) ==
    \/ \E t \in Types, fresh \in BOOLEAN : GetPackage(u, t, fresh)
    \/ WaitReturns(u) \/ WaitTimesOut(u) \/ EraseAfterTimeout(u)

Next ==
    \/ AsyncLoop \/ Environment \/ Connect \/ ConnectThrows \/ Disconnect \/ Join \/ SendScript
    \/ \E u \in Users : Caller(u)

Spec == Init /\ [][Next]_vars

\* The thread runs; what the robot has sent arrives; a join returns when it can.
Fairness == WF_vars(AsyncLoop) /\ WF_vars(Arrives) /\ WF_vars(Join)

FairSpec == Spec /\ Fairness

----------------------------------------------------------------------------
(* Properties.                                                              *)

\* Every variable stays in its type.
TypeOK ==
    /\ sock \in {"null", "up", "down"} /\ inq \in Seq(Token) /\ wire \in Seq(Token)
    /\ reachable \in BOOLEAN
    /\ sent \in Nat /\ outages \in Nat /\ throws \in Nat
    /\ alive \in BOOLEAN /\ last \in BOOLEAN /\ subs \in Bodies \cup {<<>>}
    /\ thread \in {"none", "check", "parse", "body", "subs", "report", "reconnect", "ended"}
    /\ ctl \in {"idle", "joining"} /\ connects \in Nat /\ ups \in Nat /\ reports \in Nat
    /\ script \in BOOLEAN \X {"nothing", "part", "whole"}
    /\ registry \in [Types -> (Users \X Nat) \cup {None}]
    /\ call \in [Users -> {"idle", "waiting", "timedOut"}]
    /\ want \in [Users -> Types] /\ object \in [Users -> Nat]
    /\ ready \in [Users -> BOOLEAN] /\ calls \in [Users -> Nat] /\ refused \in [Users -> BOOLEAN]

\* A caller that waits is in the registry until its package is parsed: no other
\* caller, finishing late, takes its entry away.
StaysRegistered ==
    \A u \in Users : call[u] = "waiting" /\ ~ready[u] => registry[want[u]] = Package(u)

\* A call that has returned leaves no entry behind: the parser would write into the
\* caller's package later, and the next caller of the type would be refused.
NothingLeftBehind ==
    \A u \in Users : call[u] = "idle" => \A t \in Types : registry[t] # Package(u)

\* The registry and the callers stay in step: a caller that waits is in it, one that
\* has returned is not, whoever times out or finishes at the same moment.
RegistryInStep == StaysRegistered /\ NothingLeftBehind

\* getPackage is refused only while another thread's call for the same type is under
\* way (PrimaryPort.cpp:249): no entry of a finished call stands in a caller's way.
RefusedForAReason ==
    [][\A u \in Users : calls'[u] > calls[u] /\ refused'[u] =>
         \E v \in Users \ {u} : call[v] # "idle" /\ want[v] = want'[u]]_vars

\* A disconnection is reported at most once for every connection that was made,
\* however many attempts to reconnect fail, and once more for an attempt that throws.
ReportsHaveConnections == reports <= ups + throws

\* "And wait for the background thread to finish" (PrimaryPort.hpp): disconnect()
\* returns, whatever the thread is reading or reconnecting.
DisconnectReturns == ctl = "joining" ~> ctl = "idle"

\* While the user wants the connection and the robot can be reached, the thread
\* brings it back.
Reconnects == <>[](reachable /\ alive) => []<>(sock = "up")
=============================================================================
