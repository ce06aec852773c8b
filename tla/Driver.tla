------------------------------- MODULE Driver -------------------------------
(***************************************************************************)
(* EliteDriver.cpp: the driver's life, from init() with its many ways to     *)
(* fail to ~Impl, and its two uses of the connections: sending the control   *)
(* script and stopControl.  What the servers do inside is in TcpServer and   *)
(* ScriptSender, what is written to them in ExternalControl, and the primary *)
(* port in PrimaryPort; here a server is its port with the connection the    *)
(* robot has to it, and the primary port is connected, lost or absent.       *)
(*                                                                         *)
(* The robot runs the control script: it opens its three sockets one after  *)
(* another, leaves its loop on STOP or silence and closes them again.        *)
(***************************************************************************)
EXTENDS ScriptSender

CONSTANTS MaxScripts,   \* bound: scripts the robot starts that were sent to it
          MaxFetched    \* bound: scripts it starts that it fetched

ASSUME BoundsAssumption == MaxScripts \in Nat /\ MaxFetched \in Nat /\ MaxFetched <= MaxScripts

VARIABLES
    config,     \* EliteDriverConfig, and what the machine makes of it
    pc,         \* the step of init(), "ready", or a step of ~Impl
    held,       \* the server objects that exist
    thread,     \* the StaticResource's thread: "none", "running" or "joined"
    primary,    \* "none", "connected", "lost" or "closed"
    lost,       \* when the primary connection was lost: "never", "early", "late"
    robotScript,\* robot_script_: the values put for its placeholders, or NoScript
    given,      \* the robot holds the script: sent to it, or ready to be fetched
    program,    \* the script on the robot: "none", "opening", "looping", "closing"
    number,     \* scripts started so far
    ropen,      \* ports to which the script on the robot holds an open socket
    backlog,    \* connections <<port, script>> the driver has not accepted yet
    linked,     \* the script whose socket each server holds, 0 without one
    cut,        \* the script of which a connection broke or was closed by its server, or 0
    stop,       \* the stopControl call: where it is
    stopped,    \* the script to which the last STOP was written; 0 after a failure
    result      \* what the last stopControl returned

lifeVars    == <<config, pc, held, thread>>
primaryVars == <<primary, lost>>
scriptVars  == <<robotScript, given>>
robotVars   == <<program, number, cut>>
linkVars    == <<ropen, backlog, linked>>
stopVars    == <<stop, stopped, result>>
driverVars  == <<lifeVars, primaryVars, scriptVars, robotVars, linkVars, stopVars>>

vars == <<driverVars, senderVars>>

Ports == {"reverse", "trajectory", "command"}

\* The order in which the control script opens and closes its sockets.
Sockets == <<"reverse", "trajectory", "command">>

NoScript == <<>>

---------------------------------------------------------------------------
(* init().                                                                  *)

\* headless_mode, a local_ip that is not empty, a script file that can be read,
\* and the ports other programs have taken.
Configs == [headless : BOOLEAN, local : BOOLEAN, file : BOOLEAN, taken : SUBSET (Ports \cup {"sender"})]

Init ==
    /\ config \in {c \in Configs : /\ Cardinality(c.taken) <= 1
                                 /\ c.headless => "sender" \notin c.taken}
    /\ pc = "primary" /\ held = {} /\ thread = "running" /\ primary = "none"
    /\ lost = "never" /\ robotScript = NoScript /\ given = FALSE
    /\ program = "none" /\ number = 0
    /\ ropen = {} /\ backlog = {} /\ linked = [p \in Ports |-> 0] /\ cut = 0
    /\ stop = "none" /\ stopped = 0 /\ result = FALSE
    /\ SenderInit

Throw == pc' = "destroy"

ConnectPrimary ==
    /\ pc = "primary"
    /\ \/ primary' = "connected" /\ pc' = "address"
       \/ primary' = "lost" /\ Throw
    /\ UNCHANGED <<config, held, thread, lost, scriptVars, robotVars, linkVars, stopVars, senderVars>>

\* getLocalIP answers "" while the primary port's own thread reconnects.
LocalIp ==
    IF config.local THEN "configured" ELSE IF primary = "connected" THEN "interface" ELSE ""

ServerPorts ==
    [TRAJECTORY_SERVER_PORT |-> "trajectory", REVERSE_PORT |-> "reverse", SCRIPT_COMMAND_PORT |-> "command"]

Settings == {"SERVO_J", "SERVOJ_TIME", "SERVOJ_EXTRAPOLATE_MAX_TIME", "SERVOJ_DECELERATE_TIME",
             "SERVOJ_HOLD_VELOCITY_THRESHOLD", "SERVOJ_HOLD_STABLE_TIME", "POS_ZOOM_RATIO",
             "TIME_ZOOM_RATIO", "COMMON_ZOOM_RATIO", "REVERSE_DATA_SIZE", "TRAJECTORY_DATA_SIZE",
             "SCRIPT_COMMAND_DATA_SIZE", "STOP_J"}

\* scriptParamWrite: every occurrence of one placeholder after another.
ScriptParamWriteFaulty(ip) ==
    [p \in {"SERVER_IP"} \cup DOMAIN ServerPorts \cup Settings |->
        CASE p = "SERVER_IP" -> ip
          [] p = "TRAJECTORY_SERVER_PORT" -> "command"
          [] p \in DOMAIN ServerPorts \ {"TRAJECTORY_SERVER_PORT"} -> ServerPorts[p]
          [] OTHER -> "value"]

ScriptParamWrite(ip) ==
    [p \in {"SERVER_IP"} \cup DOMAIN ServerPorts \cup Settings |->
        CASE p = "SERVER_IP" -> ip
          [] p \in DOMAIN ServerPorts -> ServerPorts[p]
          [] OTHER -> "value"]

ReadScript ==
    /\ pc = "address"
    /\ IF config.file
       THEN pc' = "reverse" /\ robotScript' = ScriptParamWrite(LocalIp)
       ELSE Throw /\ UNCHANGED robotScript
    /\ UNCHANGED <<config, held, thread, primaryVars, given, robotVars, linkVars, stopVars, senderVars>>

NextStep(p) ==
    CASE p = "reverse" -> "trajectory" [] p = "trajectory" -> "command" [] p = "command" -> "start"

\* A port stays taken for longer than the constructor of a TcpServer retries.
CreateServer(p) ==
    /\ pc = p
    /\ IF p \in config.taken
       THEN Throw /\ UNCHANGED held
       ELSE pc' = NextStep(p) /\ held' = held \cup {p}
    /\ UNCHANGED <<config, thread, primaryVars, scriptVars, robotVars, linkVars, stopVars, senderVars>>

\* PrimaryPort::sendScript: true if it could be written.
Sendable == primary = "connected"

\* Headless, the script is sent, and a failure is only logged.
StartHeadless ==
    /\ pc = "start" /\ config.headless
    /\ pc' = "ready" /\ given' = Sendable
    /\ UNCHANGED <<config, held, thread, primaryVars, robotScript, robotVars, linkVars, stopVars, senderVars>>

StartSender ==
    /\ pc = "start" /\ ~config.headless
    /\ IF "sender" \in config.taken
       THEN Throw /\ UNCHANGED <<held, senderVars>>
       ELSE pc' = "ready" /\ held' = held \cup {"sender"} /\ Construct
    /\ UNCHANGED <<config, thread, primaryVars, scriptVars, robotVars, linkVars, stopVars>>

---------------------------------------------------------------------------
(* ~Impl, for a driver the user drops and for one whose init() threw.       *)

BeginDestroy ==
    /\ pc = "ready" /\ stop = "none"
    /\ pc' = "destroy"
    /\ UNCHANGED <<config, held, thread, primaryVars, scriptVars, robotVars, linkVars, stopVars, senderVars>>

DestroyServers ==
    /\ pc = "destroy"
    /\ pc' = "shutdown" /\ held' = {}
    /\ ropen' = {} /\ backlog' = {} /\ linked' = [p \in Ports |-> 0]
    /\ Destroy
    /\ UNCHANGED <<config, thread, primaryVars, scriptVars, robotVars, stopVars>>

ShutdownFaulty ==
    /\ pc = "shutdown"
    /\ pc' = "gone" /\ primary' = "none"
    /\ UNCHANGED <<config, held, thread, lost, scriptVars, robotVars, linkVars, stopVars, senderVars>>

\* The thread is joined, then the members go, the primary port among them.
Shutdown ==
    /\ pc = "shutdown"
    /\ pc' = "gone" /\ thread' = "joined" /\ primary' = "none"
    /\ SenderShutdown
    /\ UNCHANGED <<config, held, lost, scriptVars, robotVars, linkVars, stopVars>>

---------------------------------------------------------------------------
(* The primary port, and the scripts that go over it.                       *)

\* Bound: the primary connection is lost once.
PrimaryLost ==
    /\ primary = "connected" /\ lost = "never"
    /\ primary' = "lost"
    /\ lost' = IF pc = "address" THEN "early" ELSE "late"
    /\ UNCHANGED <<lifeVars, scriptVars, robotVars, linkVars, stopVars, senderVars>>

\* The thread of the primary port reconnects.
PrimaryBack ==
    /\ primary = "lost" /\ pc \notin {"primary", "destroy", "shutdown", "gone"}
    /\ primary' = "connected"
    /\ UNCHANGED <<lifeVars, lost, scriptVars, robotVars, linkVars, stopVars, senderVars>>

\* primaryReconnect, which a user calls after a loss (bound): a failure leaves the
\* port closed and without its thread.
PrimaryReconnect ==
    /\ pc = "ready" /\ stop = "none" /\ lost = "late"
    /\ primary' \in {"connected", "closed"}
    /\ UNCHANGED <<lifeVars, lost, scriptVars, robotVars, linkVars, stopVars, senderVars>>

\* sendExternalControlScript (bound: no script that the robot would not start)
SendExternalControlScript ==
    /\ pc = "ready" /\ stop = "none" /\ number < MaxScripts
    /\ config.headless /\ Sendable
    /\ given' = TRUE
    /\ UNCHANGED <<lifeVars, primaryVars, robotScript, robotVars, linkVars, stopVars, senderVars>>

---------------------------------------------------------------------------
(* The robot.                                                               *)

\* The plugin on the robot starts the script it fetched, or the script that was
\* sent replaces what runs.
RobotStarts ==
    /\ program = "none" /\ number < (IF config.headless THEN MaxScripts ELSE MaxFetched)
    /\ given \/ \E c \in Clients : reply[c] = "whole"
    /\ given' = FALSE /\ number' = number + 1
    /\ program' = "opening"
    /\ UNCHANGED <<lifeVars, primaryVars, robotScript, cut, linkVars, stopVars, senderVars>>

SocketPort(i) ==
    robotScript[CASE i = 1 -> "REVERSE_PORT" [] i = 2 -> "TRAJECTORY_SERVER_PORT" [] i = 3 -> "SCRIPT_COMMAND_PORT"]

\* The next socket in order; one that cannot be opened ends the script when it
\* first uses it.
RobotOpens ==
    /\ program = "opening"
    /\ LET i == Cardinality(ropen) + 1
       IN  IF robotScript["SERVER_IP"] # "" /\ SocketPort(i) \in held
           THEN /\ ropen' = ropen \cup {SocketPort(i)}
                /\ backlog' = backlog \cup {<<SocketPort(i), number>>}
                /\ program' = IF i = 3 THEN "looping" ELSE "opening"
           ELSE program' = "closing" /\ UNCHANGED <<ropen, backlog>>
    /\ UNCHANGED <<lifeVars, primaryVars, scriptVars, number, cut, linked, stopVars, senderVars>>

\* The loop ends on STOP or when the reverse socket is silent or broken.
RobotLeavesLoop ==
    /\ program = "looping"
    /\ program' = "closing"
    /\ UNCHANGED <<lifeVars, primaryVars, scriptVars, number, cut, linkVars, stopVars, senderVars>>

RobotCloses ==
    /\ program = "closing"
    /\ IF ropen = {}
       THEN program' = "none" /\ UNCHANGED ropen
       ELSE /\ ropen' = ropen \ {Sockets[CHOOSE i \in 1 .. 3 : Sockets[i] \in ropen
                                             /\ \A j \in 1 .. i - 1 : Sockets[j] \notin ropen]}
            /\ UNCHANGED program
    /\ UNCHANGED <<lifeVars, primaryVars, scriptVars, number, cut, backlog, linked, stopVars, senderVars>>

\* The network drops the connection over which the script gets its commands,
\* once (bound); the robot notices by its read timeout only.
NetworkCuts ==
    /\ "reverse" \in ropen /\ program = "looping" /\ cut = 0
    /\ ropen' = ropen \ {"reverse"} /\ cut' = number
    /\ UNCHANGED <<lifeVars, primaryVars, scriptVars, program, number, backlog, linked, stopVars, senderVars>>

\* The servers: a connection is accepted, and its end is noticed.
\* An accept handler waits while STOP is written, which holds the socket_mutex_.
MayHandleAccept(p) == p = "reverse" => stop # "writing"

ServerAccepts(p, n) ==
    /\ <<p, n>> \in backlog /\ \A k \in 1 .. n - 1 : <<p, k>> \notin backlog
    /\ MayHandleAccept(p)
    /\ backlog' = backlog \ {<<p, n>>}
    /\ linked' = [linked EXCEPT ![p] = n]
    /\ UNCHANGED <<lifeVars, primaryVars, scriptVars, robotVars, ropen, stopVars, senderVars>>

\* An accept ends with an error, once (bound, with NetworkCuts): the server closes the
\* connection it had, and what waits in the backlog stays there.
AcceptFails(p) ==
    /\ linked[p] # 0 /\ MayHandleAccept(p) /\ cut = 0
    /\ linked' = [linked EXCEPT ![p] = 0] /\ cut' = linked[p]
    /\ UNCHANGED <<lifeVars, primaryVars, scriptVars, program, number, ropen, backlog, stopVars, senderVars>>

\* The robot's end of what the server holds is closed.
Ended(p) == linked[p] # number \/ p \notin ropen

ServerSeesEnd(p) ==
    /\ linked[p] # 0 /\ Ended(p)
    /\ linked' = [linked EXCEPT ![p] = 0]
    /\ UNCHANGED <<lifeVars, primaryVars, scriptVars, robotVars, ropen, backlog, stopVars, senderVars>>

---------------------------------------------------------------------------
(* stopControl.                                                             *)

\* Without a connection to the reverse port it returns false.
StopControl ==
    /\ pc = "ready" /\ stop = "none"
    /\ stop' = IF linked["reverse"] # 0 THEN "writing" ELSE "none"
    /\ stopped' = 0 /\ result' = FALSE
    /\ UNCHANGED <<lifeVars, primaryVars, scriptVars, robotVars, linkVars, senderVars>>

\* writeClient blocks until the robot takes the STOP; on a connection that has ended, or
\* that the read handler closes meanwhile, it may fail.
WriteStop ==
    /\ stop = "writing"
    /\ \/ linked["reverse"] # 0 /\ stop' = "command" /\ stopped' = linked["reverse"]
       \/ Ended("reverse") /\ stop' = "none" /\ UNCHANGED stopped
    /\ UNCHANGED <<lifeVars, primaryVars, scriptVars, robotVars, linkVars, result, senderVars>>

\* The ports are asked one after another, each under its own mutex; a connected
\* one sends the loop to its clock.
PollFaulty(p) ==
    /\ stop = p
    /\ stop' = CASE p = "command" -> IF linked[p] # 0 THEN "clock" ELSE "return"
                 [] p = "reverse" -> "return"
                 [] p = "trajectory" -> "return"
    /\ UNCHANGED <<lifeVars, primaryVars, scriptVars, robotVars, linkVars, stopped, result, senderVars>>

Poll(p) ==
    /\ stop = p
    /\ stop' = IF linked[p] # 0 THEN "clock"
               ELSE CASE p = "command" -> "reverse"
                      [] p = "reverse" -> "trajectory"
                      [] p = "trajectory" -> "return"
    /\ UNCHANGED <<lifeVars, primaryVars, scriptVars, robotVars, linkVars, stopped, result, senderVars>>

ClockFaulty ==
    /\ stop = "clock"
    /\ stop' = "command" /\ UNCHANGED stopped
    /\ UNCHANGED <<lifeVars, primaryVars, scriptVars, robotVars, linkVars, result, senderVars>>

\* The time is up, or the loop starts again after 5 ms.
Clock ==
    /\ stop = "clock"
    /\ \/ stop' = "none" /\ stopped' = 0
       \/ stop' = "command" /\ UNCHANGED stopped
    /\ UNCHANGED <<lifeVars, primaryVars, scriptVars, robotVars, linkVars, result, senderVars>>

\* return !isRobotConnected(), which is true when any of the three is not.
ReturnStop ==
    /\ stop = "return"
    /\ stop' = "none"
    /\ result' = \E p \in Ports : linked[p] = 0
    /\ UNCHANGED <<lifeVars, primaryVars, scriptVars, robotVars, linkVars, stopped, senderVars>>

---------------------------------------------------------------------------

Constructor ==
    ConnectPrimary \/ ReadScript \/ (\E p \in Ports : CreateServer(p)) \/ StartHeadless \/ StartSender

Destructor == DestroyServers \/ Shutdown

Stopping == (\E p \in Ports : Poll(p)) \/ Clock \/ ReturnStop

Robot == RobotStarts \/ RobotOpens \/ RobotCloses

Network == \E p \in Ports : ServerSeesEnd(p) \/ \E n \in 1 .. MaxScripts : ServerAccepts(p, n)

Next ==
    \/ Constructor \/ BeginDestroy \/ Destructor
    \/ PrimaryLost \/ PrimaryBack \/ PrimaryReconnect \/ SendExternalControlScript
    \/ Robot \/ RobotLeavesLoop \/ Network \/ NetworkCuts
    \/ \E p \in Ports : AcceptFails(p)
    \/ StopControl \/ WriteStop \/ Stopping
    \/ /\ \/ SenderHandler
          \/ \E c \in Clients : ClientConnects(c)
       /\ UNCHANGED driverVars

Spec == Init /\ [][Next]_vars

\* The user's thread runs, the robot goes on with a script it has started, and
\* the io thread serves its sockets.  The clock of stopControl runs out in the
\* end: its waiting time is finite, so no endless sequence of steps goes around
\* the loop.  A write of the STOP ends if the robot reads its commands, as the loop of
\* its script does, or has closed the connection.
Fairness ==
    /\ WF_vars(Constructor) /\ WF_vars(Destructor) /\ WF_vars(Stopping)
    /\ WF_vars(WriteStop /\ (program = "looping" \/ Ended("reverse")))
    /\ SF_vars(Clock /\ stop' = "none")
    /\ WF_vars(RobotOpens \/ RobotCloses) /\ WF_vars(Network)

FairSpec == Spec /\ Fairness

---------------------------------------------------------------------------

\* init() is all or nothing (EliteDriver.cpp:175-230 and 49-57).  When it has
\* returned, every server of its mode exists and the script names an address,
\* unless none was configured and the primary connection was lost before
\* getLocalIP; when it threw, or the driver is gone, no server, thread, handler
\* or connection of it is left.
InitAllOrNothing ==
    /\ pc = "ready" =>
         /\ held = Ports \cup (IF config.headless THEN {} ELSE {"sender"})
         /\ thread = "running" /\ primary # "none"
         /\ robotScript["SERVER_IP"] = "" => ~config.local /\ lost = "early"
    /\ pc = "gone" =>
         /\ held \cup reading = {} /\ linked = [p \in Ports |-> 0] /\ accept = "none"
         /\ thread = "joined" /\ primary = "none"

\* When stopControl returns true, the script that was sent the STOP has left its
\* loop, or one of its connections was taken away (EliteDriver.cpp:302-322, which
\* asks the three ports one after another while the robot connects and closes).
StopTrueMeansStopped ==
    result /\ number = stopped => program \in {"closing", "none"} \/ cut = number

\* stopControl returns: the write of the STOP ends with the robot's loop, and the wait for
\* the robot with its time.
StopControlReturns == (stop # "none") ~> (stop = "none")

\* A script that names an address finds the servers under the ports written into
\* it (scriptParamWrite): all three connections come about, or the script ends, a
\* connection breaks or the driver goes away.
ScriptConnects ==
    (program = "opening" /\ robotScript["SERVER_IP"] # "")
        ~> ((\A p \in Ports : linked[p] = number) \/ program \in {"closing", "none"} \/ cut = number \/ pc # "ready")
=============================================================================
