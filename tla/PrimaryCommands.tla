-------------------------- MODULE PrimaryCommands --------------------------
(***************************************************************************)
(* The commands of the primary port (PrimaryPort.cpp 84-244, which            *)
(* PrimaryPortInterface forwards): each looks at the robot's state, sends a  *)
(* script and polls until the state is the wanted one or its time is up.     *)
(* Several threads may call them, and the robot works on its scripts in its   *)
(* own time.                                                                *)
(*                                                                         *)
(* Below them is getPackage as PrimaryPort shows it: one thread may wait for *)
(* a type, a second one is refused; the wait ends with a package or after    *)
(* 500 ms.  A sub-package that is too short is reported and counts as an     *)
(* update all the same, so the caller reads the defaults of a new object.    *)
(***************************************************************************)
EXTENDS Naturals, Integers, Sequences, FiniteSets

CONSTANTS
    Users,          \* threads that call commands
    MaxCalls,       \* bound: calls of each of them
    MaxOutages,     \* bound: losses of the connection
    ShortPackages,  \* BOOLEAN: the robot may send sub-packages that are too short
    None

ASSUME CommandBounds == MaxCalls \in Nat /\ MaxOutages \in Nat /\ ShortPackages \in BOOLEAN

VARIABLES
    robot,      \* what the robot's packages report
    scripts,    \* scripts it has not executed yet
    link,       \* the primary socket is connected
    outages,
    waiting,    \* parser_sub_msg_: the thread that waits for each type
    call,       \* each thread: its command and the step it is at
    calls,
    seen,       \* each call, its last reading: "target" if it shows what the call
                \* is for, "short" if it was too short, else "nothing"
    result

vars == <<robot, scripts, link, outages, waiting, call, calls, seen, result>>

Types == {"RobotModeData", "MasterBoardData"}

\* setSpeedScaling is called with 0, with 100 and with 101.
Commands == {"powerOn", "powerOff", "brakeRelease", "pauseProgram", "stopProgram",
             "unlockProtectiveStop", "safetySystemRestart", "setSpeed0", "setSpeed100", "setSpeed101"}

\* REDUCED stands for RECOVERY too, FAULT for every mode in which brakes stay on.
Reports == [mode : {"POWER_OFF", "IDLE", "RUNNING"}, task : {"STOPPED", "PLAYING", "PAUSED"},
            protective : BOOLEAN, safety : {"NORMAL", "REDUCED", "FAULT"}, speed : {0, 100}]

\* What the getters return without a package, and what is in a package object
\* that was never filled.
Nothing ==
    [mode |-> "UNKNOWN", task |-> "UNKNOWN", protective |-> TRUE, safety |-> "UNKNOWN", speed |-> -1]

Defaults ==
    [mode |-> "UNKNOWN", task |-> "STOPPED", protective |-> FALSE, safety |-> "UNKNOWN", speed |-> 0]

Idle == [command |-> None, step |-> "idle"]

Init ==
    /\ robot \in {r \in Reports : r.speed = 100 /\ r.task = "PLAYING" /\ r.protective /\ r.mode # "RUNNING"}
    /\ scripts = <<>> /\ link = TRUE /\ outages = 0
    /\ waiting = [t \in Types |-> None]
    /\ call = [u \in Users |-> Idle] /\ calls = [u \in Users |-> 0]
    /\ seen = [u \in Users |-> "nothing"]
    /\ result = [u \in Users |-> "none"]

---------------------------------------------------------------------------
(* The commands, one operator for each question the code asks.              *)

\* The state that waitFor asks for.
Target(c, r) ==
    CASE c = "powerOn"              -> r.mode \in {"IDLE", "RUNNING"}
      [] c = "powerOff"             -> r.mode = "POWER_OFF"
      [] c = "brakeRelease"         -> r.mode = "RUNNING"
      [] c = "pauseProgram"         -> r.task = "PAUSED"
      [] c = "stopProgram"          -> r.task = "STOPPED"
      [] c = "unlockProtectiveStop" -> ~r.protective
      [] c = "safetySystemRestart"  -> r.safety = "NORMAL"
      [] c = "setSpeed0"            -> r.speed = 0
      [] c = "setSpeed100"          -> r.speed = 100
      [] OTHER                      -> FALSE

\* A command that finds its state already there returns true without a script.
AlreadyFaulty(c, r) ==
    c \in {"powerOn", "brakeRelease", "pauseProgram", "stopProgram"} /\ r.mode # "POWER_OFF"

Already(c, r) ==
    c \in {"powerOn", "brakeRelease", "pauseProgram", "stopProgram"} /\ Target(c, r)

\* The states in which it goes on to its script.
Allowed(c, r) ==
    CASE c = "brakeRelease"         -> r.mode = "IDLE"
      [] c = "pauseProgram"         -> r.task = "PLAYING"
      [] c = "stopProgram"          -> r.task # "UNKNOWN"
      [] c = "unlockProtectiveStop" -> r # Nothing
      [] c \in {"setSpeed0", "setSpeed100"} -> r.mode # "UNKNOWN"
      [] OTHER                      -> TRUE

\* powerOff and safetySystemRestart send without looking.
FirstStep(c) == IF c \in {"powerOff", "safetySystemRestart"} THEN "send" ELSE "look"

\* The type of the package that a step reads; only brakeRelease has the step
\* "safety".
TypeAt(c, step) ==
    IF step = "safety" \/ c = "safetySystemRestart" THEN "MasterBoardData" ELSE "RobotModeData"

Return(u, value) ==
    /\ result' = [result EXCEPT ![u] = value]
    /\ call' = [call EXCEPT ![u] = Idle]

Goto(u, step) ==
    /\ call' = [call EXCEPT ![u].step = step]
    /\ UNCHANGED result

\* setSpeedScaling refuses a value that is not in 0 .. 100.
Begin(u, c) ==
    /\ call[u] = Idle /\ calls[u] < MaxCalls
    /\ calls' = [calls EXCEPT ![u] = @ + 1]
    /\ seen' = [seen EXCEPT ![u] = "nothing"]
    /\ IF c = "setSpeed101"
       THEN Return(u, "false")
       ELSE /\ result' = [result EXCEPT ![u] = "none"]
            /\ call' = [call EXCEPT ![u] = [command |-> c, step |-> FirstStep(c)]]
    /\ UNCHANGED <<robot, scripts, link, outages, waiting>>

\* The reading r reaches the step that asked for it.
Decide(u, r) ==
    LET c == call[u].command
    IN  /\ seen' = [seen EXCEPT ![u] = IF r = Defaults THEN "short"
                                       ELSE IF Target(c, r) THEN "target" ELSE "nothing"]
        /\ CASE call[u].step = "look" ->
                  IF Already(c, r) THEN Return(u, "true")
                  ELSE IF ~Allowed(c, r) THEN Return(u, "false")
                  ELSE Goto(u, IF c = "brakeRelease" THEN "safety" ELSE "send")
             [] call[u].step = "safety" ->
                  IF r.safety \in {"NORMAL", "REDUCED"} THEN Goto(u, "send") ELSE Return(u, "false")
             [] call[u].step = "wait" ->
                  IF Target(c, r) THEN Return(u, "true") ELSE UNCHANGED <<call, result>>

Reads(u) == call[u].step \in {"look", "safety", "wait"}

TypeOf(u) == TypeAt(call[u].command, call[u].step)

\* getPackage: the thread becomes the one that waits for the type, or is refused.
Register(u) ==
    /\ Reads(u) /\ u \notin {waiting[t] : t \in Types}
    /\ IF waiting[TypeOf(u)] = None
       THEN waiting' = [waiting EXCEPT ![TypeOf(u)] = u] /\ UNCHANGED <<call, seen, result>>
       ELSE Decide(u, Nothing) /\ UNCHANGED waiting
    /\ UNCHANGED <<robot, scripts, link, outages, calls>>

\* A package of the type arrives, possibly one that is too short.
Delivered(t) ==
    /\ link /\ waiting[t] # None
    /\ waiting' = [waiting EXCEPT ![t] = None]
    /\ \/ Decide(waiting[t], robot)
       \/ ShortPackages /\ Decide(waiting[t], Defaults)
    /\ UNCHANGED <<robot, scripts, link, outages, calls>>

TimesOut(u) ==
    /\ Reads(u) /\ waiting[TypeOf(u)] = u
    /\ waiting' = [waiting EXCEPT ![TypeOf(u)] = None]
    /\ Decide(u, Nothing)
    /\ UNCHANGED <<robot, scripts, link, outages, calls>>

\* sendScript
Send(u) ==
    /\ call[u].step = "send"
    /\ seen' = [seen EXCEPT ![u] = "nothing"]
    /\ IF link
       THEN scripts' = Append(scripts, call[u].command) /\ Goto(u, "wait")
       ELSE Return(u, "false") /\ UNCHANGED scripts
    /\ UNCHANGED <<robot, link, outages, waiting, calls>>

GiveUpFaulty(u) == FALSE /\ UNCHANGED vars

\* waitFor: the deadline has passed and the last look was in vain too.
GiveUp(u) ==
    /\ call[u].step = "wait" /\ u \notin {waiting[t] : t \in Types}
    /\ Return(u, "false")
    /\ seen' = [seen EXCEPT ![u] = "nothing"]
    /\ UNCHANGED <<robot, scripts, link, outages, waiting, calls>>

---------------------------------------------------------------------------
(* The robot and the network.                                               *)

\* What a script does to the robot, if the robot obeys.
Effect(c) ==
    CASE c = "powerOn"              -> [robot EXCEPT !.mode = "IDLE"]
      [] c = "powerOff"             -> [robot EXCEPT !.mode = "POWER_OFF"]
      [] c = "brakeRelease"         -> [robot EXCEPT !.mode = "RUNNING"]
      [] c = "pauseProgram"         -> [robot EXCEPT !.task = "PAUSED"]
      [] c = "stopProgram"          -> [robot EXCEPT !.task = "STOPPED"]
      [] c = "unlockProtectiveStop" -> [robot EXCEPT !.protective = FALSE]
      [] c = "safetySystemRestart"  -> [robot EXCEPT !.safety = "NORMAL", !.mode = "POWER_OFF"]
      [] c = "setSpeed0"            -> [robot EXCEPT !.speed = 0]
      [] c = "setSpeed100"          -> [robot EXCEPT !.speed = 100]

RobotExecutes ==
    /\ scripts # <<>>
    /\ scripts' = Tail(scripts)
    /\ robot' \in {robot, Effect(Head(scripts))}
    /\ UNCHANGED <<link, outages, waiting, call, calls, seen, result>>

\* The robot leaves its state by itself: its program ends and its power goes.
RobotChanges ==
    /\ robot' = [robot EXCEPT !.task = "STOPPED", !.mode = "POWER_OFF"]
    /\ UNCHANGED <<scripts, link, outages, waiting, call, calls, seen, result>>

LinkFails ==
    /\ link /\ outages < MaxOutages
    /\ link' = FALSE /\ outages' = outages + 1
    /\ UNCHANGED <<robot, scripts, waiting, call, calls, seen, result>>

LinkReturns ==
    /\ ~link
    /\ link' = TRUE
    /\ UNCHANGED <<robot, scripts, outages, waiting, call, calls, seen, result>>

---------------------------------------------------------------------------

Step(u) == Register(u) \/ TimesOut(u) \/ Send(u) \/ GiveUp(u)

Next ==
    \/ \E u \in Users : Step(u) \/ \E c \in Commands : Begin(u, c)
    \/ \E t \in Types : Delivered(t)
    \/ RobotExecutes \/ RobotChanges \/ LinkFails \/ LinkReturns

Spec == Init /\ [][Next]_vars

\* A wait for a package ends after 500 ms, and the deadline of waitFor passes:
\* a call cannot go around its loop for ever.
Fairness ==
    \A u \in Users : WF_vars(Step(u)) /\ SF_vars(GiveUp(u))

FairSpec == Spec /\ Fairness

---------------------------------------------------------------------------

\* A command returns true only after a package it read showed the state it is
\* for; after the script, if it sent one, and unless that package was too short
\* to say anything (PrimaryStatePackage.cpp:19-22: the caller is not told).
TrueWasSeen ==
    \A u \in Users : result[u] = "true" => seen[u] \in {"target", "short"}

\* Every command returns.
CommandsReturn == \A u \in Users : (call[u] # Idle) ~> (call[u] = Idle)
=============================================================================
