------------------------------ MODULE Dashboard ------------------------------
(***************************************************************************)
(* The dashboard client (source/Dashboard/DashboardClient.cpp): commands    *)
(* and replies are lines on one TCP connection.  sendAndRequest sends a     *)
(* command and reads the reply under socket_mutex_; the operations that     *)
(* change the robot then ask again and again until it got there.  connect() *)
(* reads the greeting, quit() drops the socket and sendAndReceive() does    *)
(* all of its work without the mutex.                                       *)
(*                                                                          *)
(* The robot is reduced to one state, which commands ask it to take up and  *)
(* others report.  A reply has one or two lines, a read takes what is there. *)
(* Every operation of the class stands in one of the nine forms below.      *)
(***************************************************************************)
EXTENDS Naturals, Sequences

CONSTANTS
    Threads,    \* user threads that share the client
    States,     \* what the robot can be in
    Goals,      \* the states it is told to be in
    NoGoal,     \* the goal of an operation that only asks
    None,       \* nobody
    MaxCalls,   \* bound: calls of the user
    MaxPolls,   \* bound: repetitions of waitForReply
    MaxMoves,   \* bound: changes of the robot's state
    MaxLosses   \* bound: connections that are refused or closed by the robot

ASSUME DashboardBounds ==
    MaxCalls \in Nat /\ MaxPolls \in Nat /\ MaxMoves \in Nat /\ MaxLosses \in Nat
ASSUME DashboardNames ==
    /\ Goals \subseteq States /\ NoGoal \notin States /\ None \notin Threads
    /\ States \cap {"none", "true", "false", "thrown", "text", "default"} = {}

VARIABLES
    socket,    \* socket_ptr_: "null", "dialing", "up", "down"
    mutex,     \* socket_mutex_: its holder, or None
    inbox,     \* lines that have arrived and were not read
    call,      \* what each thread is doing
    calls, sent,
    crashed,   \* a null socket_ptr_ was used
    \* the robot and the network
    orders,    \* commands the robot has not answered
    late,      \* lines of a reply that are still on their way
    state, moves, losses,
    \* history (as is "seen" in call: the robot's states since the call began)
    taint      \* what may have put the connection out of step

clientVars == <<socket, mutex, inbox, call, calls, sent, crashed>>
robotVars  == <<orders, late, state, moves, losses>>
vars == <<clientVars, robotVars, taint>>

----------------------------------------------------------------------------
(* The operations: the command that is sent first, is a reply that was not  *)
(* expected an exception, what the operation makes of the empty response    *)
(* it gets without a connection, and what it does with the reply.           *)

Operation(cmd, expects, empty, then) ==
    [cmd |-> cmd, expects |-> expects, empty |-> empty, then |-> then]

BrakeRelease  == Operation("order", TRUE, "false", "poll")
PowerOn       == Operation("order", TRUE, "poll", "poll")
PlayProgram   == Operation("order", FALSE, "false", "compare")
SetSpeedScaling == Operation("order", FALSE, "check", "check")
Echo          == Operation("note", TRUE, "false", "return")
SpeedScaling  == Operation("status", TRUE, "thrown", "return")
GetTaskStatus == Operation("value", TRUE, "default", "return")
Help          == Operation("text", FALSE, "text", "return")
Quit          == Operation("leave", FALSE, "reset", "reset")

Op == [brakeRelease |-> BrakeRelease, powerOn |-> PowerOn, playProgram |-> PlayProgram,
       setSpeedScaling |-> SetSpeedScaling, echo |-> Echo, speedScaling |-> SpeedScaling,
       getTaskStatus |-> GetTaskStatus, help |-> Help, quit |-> Quit]

Names == DOMAIN Op
Orders == {o \in Names : Op[o].cmd = "order"}

\* What runs sendAndRequest; an operation that polls is in waitForReply.
Requests == Names \cup {"waitForReply"}

\* They use the socket, for a part of their work at least, without the mutex.
Bare == {"connect", "quit", "sendAndReceive"}

Idle == [pc |-> "idle", op |-> "none", cmd |-> "none", goal |-> NoGoal, n |-> 0,
         polls |-> 0, res |-> "none", seen |-> {}]

Init ==
    /\ socket = "null" /\ mutex = None /\ inbox = <<>>
    /\ call = [t \in Threads |-> Idle] /\ calls = 0 /\ sent = 0 /\ crashed = FALSE
    /\ orders = <<>> /\ late = <<>> /\ state \in States /\ moves = 0 /\ losses = 0
    /\ taint = {}

----------------------------------------------------------------------------
(* The robot and the network.                                               *)

\* A command gets its lines, all of them with its number.
Replies(r) ==
    LET line(form, val) == [n |-> r.n, form |-> form, val |-> val]
    IN  CASE r.cmd = "hello" -> {<<line("hello", NoGoal)>>}
          [] r.cmd = "order" -> {<<line("ack", r.goal)>>, <<line("ack", NoGoal)>>}
          [] r.cmd \in {"poll", "value"} -> {<<line("value", state)>>}
          [] r.cmd \in {"check", "status"} ->
                 {<<line("text", NoGoal), line("status", state)>>}
          [] r.cmd = "note" -> {<<line("ack", NoGoal)>>}
          [] r.cmd = "leave" -> {<<line("text", NoGoal)>>}
          [] OTHER -> {<<line("text", NoGoal), line("text", NoGoal)>>}

\* The first part of a reply arrives, or all of it.
RobotAnswers ==
    /\ ~crashed /\ socket = "up" /\ orders # <<>> /\ late = <<>>
    /\ \E r \in Replies(Head(orders)) : \E k \in 1..Len(r) :
          /\ inbox' = inbox \o SubSeq(r, 1, k)
          /\ late' = SubSeq(r, k + 1, Len(r))
    /\ orders' = Tail(orders)
    /\ UNCHANGED <<socket, mutex, call, calls, sent, crashed, state, moves, losses, taint>>

RestArrives ==
    /\ ~crashed /\ socket = "up" /\ late # <<>>
    /\ inbox' = inbox \o late /\ late' = <<>>
    /\ UNCHANGED <<socket, mutex, call, calls, sent, crashed, orders, state, moves, losses,
                   taint>>

RobotMoves ==
    /\ ~crashed /\ moves < MaxMoves /\ moves' = moves + 1
    /\ state' \in States \ {state}
    /\ call' = [t \in Threads |->
                  IF call[t].pc = "idle" THEN call[t] ELSE [call[t] EXCEPT !.seen = @ \cup {state'}]]
    /\ UNCHANGED <<socket, mutex, inbox, calls, sent, crashed, orders, late, losses, taint>>

RobotCloses ==
    /\ ~crashed /\ socket = "up" /\ losses < MaxLosses /\ losses' = losses + 1
    /\ socket' = "down" /\ orders' = <<>> /\ late' = <<>>
    /\ UNCHANGED <<mutex, inbox, call, calls, sent, crashed, state, moves, taint>>

----------------------------------------------------------------------------
(* What a thread makes of a response.                                       *)

Return(res) == [Idle EXCEPT !.res = res]
Ask(c, cmd) == [c EXCEPT !.pc = "lock", !.cmd = cmd]

\* Places in a response where the expected expression is found.
Matches(c, got) ==
    {i \in DOMAIN got :
        CASE c.cmd = "order" -> got[i].form = "ack" /\ got[i].val = c.goal
          [] c.cmd = "note" -> got[i].form = "ack"
          [] c.cmd = "value" -> got[i].form = "value"
          [] OTHER -> got[i].form = "status"}

FirstValue(c, got) == got[CHOOSE i \in Matches(c, got) : \A j \in Matches(c, got) : i <= j].val

\* Faulty form: any response will do.
WaitForReplyFaulty(c, got) ==
    IF got # <<>> THEN Return("true")
    ELSE IF c.polls > 1 THEN [Ask(c, "poll") EXCEPT !.polls = c.polls - 1]
    ELSE Return("false")

\* waitForReply: the whole response is one line, the one that is waited for.
WaitForReply(c, got) ==
    IF Len(got) = 1 /\ got[1].form = "value" /\ got[1].val = c.goal THEN Return("true")
    ELSE IF c.polls > 1 THEN [Ask(c, "poll") EXCEPT !.polls = c.polls - 1]
    ELSE Return("false")

\* setSpeedScaling: the scaling that is reported is the one that was set.
CheckScaling(c, got) ==
    IF Matches(c, got) = {} THEN Return("thrown")
    ELSE Return(IF FirstValue(c, got) = c.goal THEN "true" ELSE "false")

\* What the operation goes on to do, or what it returns.
Then(c, what) ==
    CASE what = "poll" -> IF MaxPolls > 0 THEN [Ask(c, "poll") EXCEPT !.op = "waitForReply"]
                        ELSE Return("false")
      [] what = "check" -> Ask(c, "check")
      [] what = "reset" -> [c EXCEPT !.pc = "reset"]
      [] OTHER -> Return(what)

\* The reply to the first command of an operation.
FirstReply(c, got) ==
    LET o == Op[c.op]
    IN  IF got = <<>> THEN Then(c, o.empty)
        ELSE IF o.expects /\ Matches(c, got) = {} THEN Return("thrown")
        ELSE CASE o.then = "compare" ->
                    IF Len(got) = 1 /\ Matches(c, got) # {} THEN Then(c, "poll")
                    ELSE Return("false")
               [] o.then = "return" ->
                    Return(CASE c.cmd \in {"status", "value"} -> FirstValue(c, got)
                             [] c.cmd = "note" -> "true"
                             [] OTHER -> "text")
               [] OTHER -> Then(c, o.then)

Respond(c, got) ==
    CASE c.cmd = "poll" -> WaitForReply(c, got)
      [] c.cmd = "check" -> CheckScaling(c, got)
      [] OTHER -> FirstReply(c, got)

----------------------------------------------------------------------------
(* The user's calls.                                                        *)

Alone(t) == \A u \in Threads \ {t} : call[u].pc = "idle"

\* A call without the mutex runs at the same time as another one.
Overlaps(t, o) ==
    \E u \in Threads \ {t} : call[u].pc # "idle" /\ (o \in Bare \/ call[u].op \in Bare)

\* The call returns, or ends with an exception; a lock_guard gives the mutex back.
Leaves(t, c) ==
    /\ call' = [call EXCEPT ![t] = c]
    /\ mutex' = IF mutex = t THEN None ELSE mutex

\* The old socket is destroyed, with all that was in it; a read on it is aborted.
DropSocket(new, c) ==
    /\ socket' = new /\ inbox' = <<>> /\ orders' = <<>> /\ late' = <<>>
    /\ call' = [u \in Threads |-> IF c[u].pc = "read" THEN [c[u] EXCEPT !.pc = "aborted"]
                                  ELSE c[u]]

Begin(t, o, goal) ==
    /\ ~crashed /\ call[t].pc = "idle" /\ calls < MaxCalls
    /\ goal \in Goals <=> o \in Orders
    /\ calls' = calls + 1
    /\ call' = [call EXCEPT ![t] =
                  [pc |-> IF o = "sendAndReceive" THEN "send" ELSE "lock", op |-> o,
                   cmd |-> IF o \in Names THEN Op[o].cmd
                           ELSE IF o = "connect" THEN "hello" ELSE "text",
                   goal |-> goal, n |-> 0, polls |-> MaxPolls, res |-> "none",
                   seen |-> {state}]]
    /\ taint' = taint
          \cup (IF Overlaps(t, o) THEN {"overlap"} ELSE {})
          \cup (IF o = "sendAndReceive" /\ socket = "null" THEN {"unconnected"} ELSE {})
    /\ UNCHANGED <<socket, mutex, inbox, sent, crashed, robotVars>>

Disconnect(t) ==
    /\ ~crashed /\ call[t].pc = "idle" /\ calls < MaxCalls /\ mutex = None
    /\ calls' = calls + 1
    /\ DropSocket("null", call)
    /\ taint' = taint \cup (IF Overlaps(t, "disconnect") THEN {"overlap"} ELSE {})
    /\ UNCHANGED <<mutex, sent, crashed, state, moves, losses>>

\* connect(): a new socket.
ConnectLocks(t) ==
    /\ ~crashed /\ call[t].pc = "lock" /\ call[t].op = "connect" /\ mutex = None
    /\ mutex' = t
    /\ DropSocket("dialing", [call EXCEPT ![t].pc = "dial"])
    /\ taint' = IF Alone(t) THEN {} ELSE taint
    /\ UNCHANGED <<calls, sent, crashed, state, moves, losses>>

\* The mutex is released before the greeting is read, and a refused connection goes on
\* to read it all the same.
Dial(t) ==
    /\ ~crashed /\ call[t].pc = "dial"
    /\ \/ /\ socket = "dialing" /\ socket' = "up"
          /\ orders' = <<[n |-> 0, cmd |-> "hello", goal |-> NoGoal]>>
          /\ Leaves(t, [call[t] EXCEPT !.pc = "start", !.res = "true"])
          /\ UNCHANGED losses
       \/ /\ socket = "dialing" /\ losses < MaxLosses /\ losses' = losses + 1
          /\ socket' = "down"
          /\ \/ Leaves(t, [call[t] EXCEPT !.pc = "start", !.res = "false"])
             \/ Leaves(t, Return("thrown"))
          /\ UNCHANGED orders
       \/ /\ socket # "dialing"
          /\ Leaves(t, [call[t] EXCEPT !.pc = "start", !.res = "false"])
          /\ UNCHANGED <<socket, orders, losses>>
    /\ UNCHANGED <<inbox, calls, sent, crashed, late, state, moves, taint>>

\* Faulty form: the mutex is not waited for.
RequestLocksUnguarded(t) ==
    /\ ~crashed /\ call[t].pc = "lock" /\ call[t].op \in Requests
    /\ IF socket = "null"
       THEN Leaves(t, Respond(call[t], <<>>))
       ELSE mutex' = t /\ call' = [call EXCEPT ![t].pc = "send"]
    /\ UNCHANGED <<socket, inbox, calls, sent, crashed, robotVars, taint>>

\* Faulty form: the socket is not looked at.
RequestLocksUnchecked(t) ==
    /\ ~crashed /\ call[t].pc = "lock" /\ call[t].op \in Requests /\ mutex = None
    /\ mutex' = t /\ call' = [call EXCEPT ![t].pc = "send"]
    /\ UNCHANGED <<socket, inbox, calls, sent, crashed, robotVars, taint>>

\* sendAndRequest: without a socket the response is empty.
RequestLocks(t) ==
    /\ ~crashed /\ call[t].pc = "lock" /\ call[t].op \in Requests /\ mutex = None
    /\ IF socket = "null"
       THEN Leaves(t, Respond(call[t], <<>>))
       ELSE mutex' = t /\ call' = [call EXCEPT ![t].pc = "send"]
    /\ UNCHANGED <<socket, inbox, calls, sent, crashed, robotVars, taint>>

\* sendCommand
SendCommand(t) ==
    /\ ~crashed /\ call[t].pc = "send"
    /\ \/ /\ socket = "null" /\ crashed' = TRUE
          /\ UNCHANGED <<mutex, call, sent, orders>>
       \/ /\ socket \in {"dialing", "down"}
          /\ Leaves(t, Return("thrown"))
          /\ UNCHANGED <<crashed, sent, orders>>
       \/ /\ socket = "up"
          /\ sent' = sent + 1
          /\ orders' = Append(orders, [n |-> sent + 1, cmd |-> call[t].cmd, goal |-> call[t].goal])
          /\ call' = [call EXCEPT ![t].pc = "start", ![t].n = sent + 1]
          /\ UNCHANGED <<crashed, mutex>>
    /\ UNCHANGED <<socket, inbox, calls, late, state, moves, losses, taint>>

\* asyncReadLine
StartRead(t) ==
    /\ ~crashed /\ call[t].pc = "start"
    /\ IF socket = "null" THEN crashed' = TRUE /\ UNCHANGED call
                          ELSE call' = [call EXCEPT ![t].pc = "read"] /\ UNCHANGED crashed
    /\ UNCHANGED <<socket, mutex, inbox, calls, sent, robotVars, taint>>

\* The buffer takes some or all of what is there, one line at least, and is the response.
ReadLines(t) ==
    /\ ~crashed /\ call[t].pc = "read"
    /\ \E k \in 1..Len(inbox) :
          /\ inbox' = SubSeq(inbox, k + 1, Len(inbox))
          /\ taint' = IF k < Len(inbox) \/ late # <<>> THEN taint \cup {"cut"} ELSE taint
          /\ Leaves(t, CASE call[t].op = "connect" -> Return(call[t].res)
                         [] call[t].op = "sendAndReceive" -> Return("text")
                         [] OTHER -> Respond(call[t], SubSeq(inbox, 1, k)))
    /\ UNCHANGED <<socket, calls, sent, crashed, robotVars>>

\* Faulty form: the exception does not release the mutex.
ReadFailsFaulty(t) ==
    /\ ~crashed
    /\ \/ call[t].pc = "read" /\ socket = "down" /\ inbox = <<>>
       \/ call[t].pc = "aborted"
    /\ call' = [call EXCEPT ![t] = Return("thrown")]
    /\ UNCHANGED <<socket, mutex, inbox, calls, sent, crashed, robotVars, taint>>

\* The connection is closed, or the socket destroyed.
ReadFails(t) ==
    /\ ~crashed
    /\ \/ call[t].pc = "read" /\ socket = "down" /\ inbox = <<>>
       \/ call[t].pc = "aborted"
    /\ Leaves(t, Return("thrown"))
    /\ UNCHANGED <<socket, inbox, calls, sent, crashed, robotVars, taint>>

\* quit(), reboot(), shutdown(): the mutex is not held any more.
QuitResets(t) ==
    /\ ~crashed /\ call[t].pc = "reset"
    /\ DropSocket("null", [call EXCEPT ![t] = Return("text")])
    /\ UNCHANGED <<mutex, calls, sent, crashed, state, moves, losses, taint>>

----------------------------------------------------------------------------
Step(t) ==
    \/ ConnectLocks(t) \/ Dial(t) \/ RequestLocks(t) \/ SendCommand(t) \/ StartRead(t)
    \/ ReadLines(t) \/ ReadFails(t) \/ QuitResets(t)

Next ==
    \/ \E t \in Threads :
          \/ Step(t) \/ Disconnect(t)
          \/ \E o \in Names \cup Bare, g \in Goals \cup {NoGoal} : Begin(t, o, g)
    \/ RobotAnswers \/ RestArrives \/ RobotMoves \/ RobotCloses

Spec == Init /\ [][Next]_vars

\* Threads run, and a robot that is connected answers.
Fairness ==
    /\ \A t \in Threads : WF_vars(Step(t))
    /\ WF_vars(RobotAnswers) /\ WF_vars(RestArrives)

FairSpec == Spec /\ Fairness

----------------------------------------------------------------------------
(* Properties.                                                              *)

\* "The string of the command response" (doc/API/en/Dashboard.en.md): what a call reads is
\* the reply to its own command, through refusals, exceptions, losses and reconnects,
\* unless an earlier reply on this connection was read in part, or a call without the
\* mutex overlapped with another.
OwnReply ==
    [][\A t \in Threads : ReadLines(t) /\ taint' = {} =>
          \A i \in 1..(Len(inbox) - Len(inbox')) : inbox[i].n = call[t].n]_vars

\* A state that is reported, or that an operation says was reached, is one the robot was
\* in during the call, under the same condition.
AnswersAreCurrent ==
    [][\A t \in Threads : call[t].pc # "idle" /\ call'[t].pc = "idle" /\ taint' = {} =>
          /\ call'[t].res \in States => call'[t].res \in call[t].seen
          /\ call[t].goal \in Goals /\ call'[t].res = "true" => call[t].goal \in call[t].seen]_vars

\* A null socket is used only if calls without the mutex overlap, or by sendAndReceive()
\* without a connection: the check of sendAndRequest holds until the mutex is released.
NullUseExplained == crashed => taint \cap {"overlap", "unconnected"} # {}

\* Every call returns if the robot answers, also those that throw while they hold the
\* mutex; without overlapping calls.
CallsReturn ==
    \A t \in Threads :
        call[t].pc # "idle" ~> (call[t].pc = "idle" \/ crashed \/ "overlap" \in taint)
=============================================================================
