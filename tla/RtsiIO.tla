-------------------------------- MODULE RtsiIO --------------------------------
(***************************************************************************)
(* The RTSI client (source/Rtsi): connect() makes the hand-shake and starts *)
(* the receive thread, which from then on takes a data package per cycle    *)
(* and sends the input recipe if a setter has changed it.  Setters run in   *)
(* other threads; one thread connects and disconnects.                      *)
(*                                                                          *)
(* The input recipe is reduced to one pair of variables, the mask and the   *)
(* levels of the digital outputs, which setStandardDigital writes in two    *)
(* separate steps; setSpeedScaling, setConfigureDigital and                 *)
(* setToolDigitalOutput have the same form.                                 *)
(***************************************************************************)
EXTENDS Naturals

CONSTANTS
    Setters,       \* threads that call setStandardDigital
    Outputs,       \* digital outputs
    MaxConnects,   \* bound: calls of connect()
    MaxLosses,     \* bound: times the connection breaks or falls silent
    MaxRefusals,   \* bound: requests the robot refuses, and packages of another recipe
    MaxCalls,      \* bound: setter calls
    InitialAlive,  \* what is_recv_thread_alive_ holds before it is first written
    HasOutput,     \* is there an output recipe?
    HasInput       \* is there an input recipe?

ASSUME RtsiBounds ==
    MaxConnects \in Nat /\ MaxLosses \in Nat /\ MaxRefusals \in Nat /\ MaxCalls \in Nat
ASSUME RtsiSwitches ==
    InitialAlive \subseteq BOOLEAN /\ HasOutput \in BOOLEAN /\ HasInput \in BOOLEAN
ASSUME SomeOutput == Outputs # {}

VARIABLES
    \* RtsiClient
    sock,        \* socket_ptr_: "null", "open", "lost" (closed by the robot), "silent"
    state,       \* connection_state
    losses, refusals,
    \* RtsiIOInterface
    ctl,         \* what connect() or disconnect() is doing
    after,       \* what follows the join
    result,      \* what the last connect() returned
    connects,
    alive,       \* is_recv_thread_alive_
    thread,      \* the receive thread: "none", "joined", or what it is doing
    promise,     \* thread_prom
    \* the input recipe and the setters
    recipe,      \* input_recipe_: is it set, mask, levels (outputs that are high)
    newCmd,      \* input_new_cmd_
    setter,      \* what each setter is doing: its step, output and level
    calls,
    \* the robot
    packet,      \* the last input data sent
    level,       \* the level of each output
    asked        \* levels that setters asked for, and those the robot began with

clientVars == <<sock, state, losses, refusals>>
ioVars     == <<ctl, after, result, connects, alive, thread, promise>>
inputVars  == <<recipe, newCmd, setter, calls>>
robotVars  == <<packet, level, asked>>
vars == <<clientVars, ioVars, inputVars, robotVars>>

Running == {"first", "check", "recv", "flag", "send", "clear"}
HandShake == {"negotiate", "version", "setupInput", "setupOutput", "start"}
Recipe == [set : BOOLEAN, mask : SUBSET Outputs, high : SUBSET Outputs]
Packet == [mask : SUBSET Outputs, high : SUBSET Outputs]

IsConnected == alive /\ state # "disconnected"

Init ==
    /\ sock = "null" /\ state = "disconnected" /\ losses = 0 /\ refusals = 0
    /\ ctl = "idle" /\ after = "idle" /\ result = "none" /\ connects = 0
    /\ alive \in InitialAlive /\ thread = "none" /\ promise = "unset"
    /\ recipe = [set |-> FALSE, mask |-> {}, high |-> {}]
    /\ newCmd = FALSE /\ calls = 0
    /\ setter = [u \in Setters |->
                   [step |-> "idle", out |-> CHOOSE o \in Outputs : TRUE, high |-> FALSE]]
    /\ packet = [mask |-> {}, high |-> {}]
    /\ level \in [Outputs -> BOOLEAN]
    /\ asked = {<<o, level[o]>> : o \in Outputs}

----------------------------------------------------------------------------
(* The robot: it closes the connection, or falls silent for a second.       *)

LinkBreaks ==
    /\ sock = "open" /\ losses < MaxLosses
    /\ sock' \in {"lost", "silent"}
    /\ losses' = losses + 1
    /\ UNCHANGED <<state, refusals, ioVars, inputVars, robotVars>>

----------------------------------------------------------------------------
(* RtsiClient: how a receive ends when nothing more comes.                  *)

SocketDisconnect == sock' = "null" /\ state' = "disconnected"

\* No package comes for a second: also when data is waited for without a recipe for it.
Silence == sock = "silent" \/ (sock = "open" /\ thread = "first" /\ ~HasOutput)

\* receiveSocket: at the end of the stream the handler throws; after the time-out the
\* socket is dropped, and the handler of the cancelled read throws.
ReceiveThrows ==
    \/ sock = "lost" /\ UNCHANGED <<sock, state>>
    \/ Silence /\ SocketDisconnect

----------------------------------------------------------------------------
(* connect() and disconnect().                                              *)

Joinable == thread \notin {"none", "joined"}

\* connect(): an earlier thread is ended first.
Connect ==
    /\ ctl = "idle" /\ connects < MaxConnects
    /\ connects' = connects + 1 /\ result' = "none"
    /\ IF Joinable
       THEN /\ alive' = FALSE /\ ctl' = "joining" /\ after' = "open"
            /\ UNCHANGED <<sock, state>>
       ELSE /\ ctl' = "open"
            /\ IF IsConnected \/ thread = "joined" THEN SocketDisconnect
                                                   ELSE UNCHANGED <<sock, state>>
            /\ UNCHANGED <<alive, after>>
    /\ UNCHANGED <<losses, refusals, thread, promise, inputVars, robotVars>>

\* Faulty form: the socket is closed without waiting for the thread.
DisconnectFaulty ==
    /\ ctl = "idle"
    /\ alive' = FALSE
    /\ SocketDisconnect
    /\ UNCHANGED <<losses, refusals, ctl, after, result, connects, thread, promise, inputVars,
                   robotVars>>

\* disconnect()
Disconnect ==
    /\ ctl = "idle"
    /\ IF Joinable
       THEN /\ alive' = FALSE /\ ctl' = "joining" /\ after' = "idle"
            /\ UNCHANGED <<sock, state>>
       ELSE SocketDisconnect /\ UNCHANGED <<alive, ctl, after>>
    /\ UNCHANGED <<losses, refusals, result, connects, thread, promise, inputVars, robotVars>>

Join ==
    /\ ctl = "joining" /\ thread = "ended"
    /\ thread' = "joined" /\ ctl' = after
    /\ SocketDisconnect
    /\ UNCHANGED <<losses, refusals, after, result, connects, alive, promise, inputVars, robotVars>>

\* RtsiClient::connect; without a connection the first request throws.
Open ==
    /\ ctl = "open"
    /\ \/ /\ sock' = "open" /\ state' = "connected" /\ ctl' = "negotiate"
          /\ UNCHANGED <<losses, result>>
       \/ /\ losses < MaxLosses /\ losses' = losses + 1
          /\ sock' = "lost" /\ state' = "disconnected"
          /\ ctl' = "idle" /\ result' = "thrown"
    /\ UNCHANGED <<refusals, after, connects, alive, thread, promise, inputVars, robotVars>>

\* Faulty form: the request is made again, on the same connection.
HandShakeThrowsFaulty ==
    /\ ctl \in HandShake /\ sock \in {"lost", "silent"}
    /\ UNCHANGED vars

\* A request of the hand-shake gets no answer: the exception leaves connect().
HandShakeThrows ==
    /\ ctl \in HandShake
    /\ ReceiveThrows
    /\ ctl' = "idle" /\ result' = "thrown"
    /\ UNCHANGED <<losses, refusals, after, connects, alive, thread, promise, inputVars, robotVars>>

\* The robot refuses the version or the start: the connection stays as it is.
Refused ==
    /\ ctl \in {"negotiate", "start"} /\ sock = "open" /\ refusals < MaxRefusals
    /\ refusals' = refusals + 1
    /\ ctl' = "idle" /\ result' = "false"
    /\ UNCHANGED <<sock, state, losses, after, connects, alive, thread, promise, inputVars,
                   robotVars>>

\* The answer to a recipe names an unknown type, or does not match the recipe.
RecipeRefused ==
    /\ ctl \in {"setupInput", "setupOutput"} /\ sock = "open" /\ refusals < MaxRefusals
    /\ refusals' = refusals + 1
    /\ ctl' = "idle"
    /\ \/ result' = "false" /\ SocketDisconnect
       \/ result' = "thrown" /\ UNCHANGED <<sock, state>>
    /\ UNCHANGED <<losses, after, connects, alive, thread, promise, inputVars, robotVars>>

Negotiate ==
    /\ ctl = "negotiate" /\ sock = "open"
    /\ ctl' = "version"
    /\ UNCHANGED <<clientVars, after, result, connects, alive, thread, promise, inputVars,
                   robotVars>>

\* getControllerVersion, and on to the recipes there are.
GetVersion ==
    /\ ctl = "version" /\ sock = "open"
    /\ ctl' = IF HasInput THEN "setupInput" ELSE IF HasOutput THEN "setupOutput" ELSE "start"
    /\ UNCHANGED <<clientVars, after, result, connects, alive, thread, promise, inputVars,
                   robotVars>>

\* The new recipe holds initial values.
SetupInput ==
    /\ ctl = "setupInput" /\ sock = "open"
    /\ recipe' = [set |-> TRUE, mask |-> {}, high |-> {}]
    /\ ctl' = IF HasOutput THEN "setupOutput" ELSE "start"
    /\ UNCHANGED <<clientVars, after, result, connects, alive, thread, promise, newCmd, setter,
                   calls, robotVars>>

SetupOutput ==
    /\ ctl = "setupOutput" /\ sock = "open"
    /\ ctl' = "start"
    /\ UNCHANGED <<clientVars, after, result, connects, alive, thread, promise, inputVars,
                   robotVars>>

\* start(), and the thread.
Start ==
    /\ ctl = "start" /\ sock = "open"
    /\ state' = "started"
    /\ alive' = TRUE /\ thread' = "first" /\ promise' = "unset"
    /\ ctl' = "first"
    /\ UNCHANGED <<sock, losses, refusals, after, result, connects, inputVars, robotVars>>

\* connect() learns whether the first data package came; if not, it disconnects.
Started ==
    /\ ctl = "first" /\ promise # "unset"
    /\ result' = promise
    /\ IF promise = "true" THEN ctl' = "idle" /\ UNCHANGED <<after, alive>>
                           ELSE ctl' = "joining" /\ after' = "idle" /\ alive' = FALSE
    /\ UNCHANGED <<clientVars, connects, thread, promise, inputVars, robotVars>>

----------------------------------------------------------------------------
(* The receive thread.                                                      *)

\* The package that makes sure the first get has a value.
FirstData ==
    /\ thread = "first" /\ sock = "open" /\ HasOutput
    /\ thread' = "check" /\ promise' = "true"
    /\ UNCHANGED <<clientVars, ctl, after, result, connects, alive, inputVars, robotVars>>

\* No package comes, or one that belongs to another recipe (receiveData answers false).
FirstFails ==
    /\ thread = "first"
    /\ \/ ReceiveThrows /\ UNCHANGED refusals
       \/ /\ sock = "open" /\ HasOutput /\ refusals < MaxRefusals
          /\ refusals' = refusals + 1 /\ UNCHANGED <<sock, state>>
    /\ thread' = "ended" /\ promise' = "false"
    /\ UNCHANGED <<losses, ctl, after, result, connects, alive, inputVars, robotVars>>

\* recvLoop
LoopCheck ==
    /\ thread = "check"
    /\ thread' = IF alive THEN "recv" ELSE "ended"
    /\ UNCHANGED <<clientVars, ctl, after, result, connects, alive, promise, inputVars, robotVars>>

\* A data package, or the end of the period if there is no output recipe.
ReceiveData ==
    /\ thread = "recv" /\ (sock = "open" \/ ~HasOutput)
    /\ thread' = "flag"
    /\ UNCHANGED <<clientVars, ctl, after, result, connects, alive, promise, inputVars, robotVars>>

\* Faulty form: the exception ends the thread, and the flag stays.
ReceiveFailsFaulty ==
    /\ thread = "recv" /\ HasOutput /\ ReceiveThrows
    /\ thread' = "ended"
    /\ UNCHANGED <<losses, refusals, ctl, after, result, connects, alive, promise, inputVars, robotVars>>

ReceiveFails ==
    /\ thread = "recv" /\ HasOutput /\ ReceiveThrows
    /\ alive' = FALSE /\ thread' = "check"
    /\ UNCHANGED <<losses, refusals, ctl, after, result, connects, promise, inputVars, robotVars>>

TestNewCmd ==
    /\ thread = "flag"
    /\ thread' = IF newCmd /\ recipe.set THEN "send" ELSE "check"
    /\ UNCHANGED <<clientVars, ctl, after, result, connects, alive, promise, inputVars, robotVars>>

\* Mask and levels are packed together, and the robot obeys what arrives.
SendInput ==
    /\ thread = "send"
    /\ packet' = [mask |-> recipe.mask, high |-> recipe.high]
    /\ level' = IF sock = "open"
                THEN [o \in Outputs |-> IF o \in recipe.mask THEN o \in recipe.high ELSE level[o]]
                ELSE level
    /\ thread' = "clear"
    /\ UNCHANGED <<clientVars, ctl, after, result, connects, alive, promise, inputVars, asked>>

SendFails ==
    /\ thread = "send" /\ sock # "open"
    /\ alive' = FALSE /\ thread' = "check"
    /\ UNCHANGED <<clientVars, ctl, after, result, connects, promise, inputVars, robotVars>>

ClearNewCmd ==
    /\ thread = "clear"
    /\ newCmd' = FALSE
    /\ thread' = "check"
    /\ UNCHANGED <<clientVars, ctl, after, result, connects, alive, promise, recipe, setter, calls,
                   robotVars>>

----------------------------------------------------------------------------
(* setStandardDigital: the mask, then the levels; each one a value under    *)
(* the recipe's mutex and then the flag.                                    *)

SetMask(u, o, high) ==
    /\ setter[u].step = "idle" /\ calls < MaxCalls /\ recipe.set
    /\ calls' = calls + 1
    /\ recipe' = [recipe EXCEPT !.mask = {o}]
    /\ setter' = [setter EXCEPT ![u] = [step |-> "mask", out |-> o, high |-> high]]
    /\ asked' = asked \cup {<<o, high>>}
    /\ UNCHANGED <<clientVars, ioVars, newCmd, packet, level>>

FlagMask(u) ==
    /\ setter[u].step = "mask"
    /\ newCmd' = TRUE
    /\ setter' = [setter EXCEPT ![u].step = "flagged"]
    /\ UNCHANGED <<clientVars, ioVars, recipe, calls, robotVars>>

SetLevel(u) ==
    /\ setter[u].step = "flagged"
    /\ recipe' = [recipe EXCEPT !.high = IF setter[u].high THEN {setter[u].out} ELSE {}]
    /\ setter' = [setter EXCEPT ![u].step = "level"]
    /\ UNCHANGED <<clientVars, ioVars, newCmd, calls, robotVars>>

FlagLevel(u) ==
    /\ setter[u].step = "level"
    /\ newCmd' = TRUE
    /\ setter' = [setter EXCEPT ![u].step = "idle"]
    /\ UNCHANGED <<clientVars, ioVars, recipe, calls, robotVars>>

----------------------------------------------------------------------------
ReceiveThread ==
    \/ FirstData \/ FirstFails \/ LoopCheck \/ ReceiveData \/ ReceiveFails
    \/ TestNewCmd \/ SendInput \/ SendFails \/ ClearNewCmd

\* What connect() and disconnect() do once they are called.
Call ==
    \/ Join \/ Open \/ HandShakeThrows \/ Refused \/ RecipeRefused \/ Negotiate \/ GetVersion
    \/ SetupInput \/ SetupOutput \/ Start \/ Started

Set(u) ==
    \/ \E o \in Outputs, high \in BOOLEAN : SetMask(u, o, high)
    \/ FlagMask(u) \/ SetLevel(u) \/ FlagLevel(u)

Next ==
    \/ ReceiveThread \/ Call \/ Connect \/ Disconnect \/ LinkBreaks
    \/ \E u \in Setters : Set(u)

Spec == Init /\ [][Next]_vars

\* Both threads run, and a robot that is there sends data every cycle.
Fairness == WF_vars(ReceiveThread) /\ WF_vars(Call)

FairSpec == Spec /\ Fairness

----------------------------------------------------------------------------
(* Properties.                                                              *)

\* Every variable stays in its type.
TypeOK ==
    /\ sock \in {"null", "open", "lost", "silent"}
    /\ state \in {"disconnected", "connected", "started"}
    /\ losses \in Nat /\ refusals \in Nat
    /\ ctl \in {"idle", "joining", "open", "first"} \cup HandShake
    /\ after \in {"idle", "open"} /\ result \in {"none", "true", "false", "thrown"}
    /\ connects \in Nat /\ alive \in BOOLEAN
    /\ thread \in {"none", "joined", "ended"} \cup Running
    /\ promise \in {"unset", "true", "false"}
    /\ recipe \in Recipe /\ newCmd \in BOOLEAN /\ calls \in Nat
    /\ setter \in [Setters -> [step : {"idle", "mask", "flagged", "level"}, out : Outputs,
                               high : BOOLEAN]]
    /\ packet \in Packet /\ level \in [Outputs -> BOOLEAN] /\ asked \subseteq Outputs \X BOOLEAN

\* The receive thread never uses a socket that is not there, whoever dropped it: a
\* time-out of the thread itself, disconnect() or a new connect().
ThreadHasSocket == thread \in Running \ {"check"} => sock # "null"

\* "true connected" (RtsiIOInterface.hpp, isConnected): once connect() or disconnect()
\* has returned, isConnected() is true only if there is a socket, and a thread that keeps
\* the data up to date.  The thread may be missing in one case: no connect() has got as
\* far as starting one, and the flag, which the constructors (RtsiIOInterface.cpp:16-28)
\* do not write, happens to hold TRUE.
ConnectedIsReal ==
    ctl = "idle" /\ IsConnected =>
        /\ sock # "null"
        /\ thread \in Running \/ (thread = "none" /\ result # "true" /\ TRUE \in InitialAlive)

\* connect() and disconnect() return, whatever the robot does.
CallsReturn == ctl # "idle" ~> ctl = "idle"

\* A connection that breaks is noticed: isConnected() turns false; without a thread only
\* if the flag of the thread is not left at TRUE by the constructor.
LossNoticed == sock \in {"lost", "silent"} /\ (thread = "none" => ~alive) ~> ~IsConnected

\* "Sets the level of the standard digital I/O" (doc/API/en/RTSI.en.md:276): an output
\* only takes levels that were asked for it.
OutputsWereAsked == \A o \in Outputs : <<o, level[o]>> \in asked
=============================================================================
