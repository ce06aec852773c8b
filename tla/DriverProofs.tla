---------------------------- MODULE DriverProofs ----------------------------
(***************************************************************************)
(* Proofs about Driver for any number of scripts and connections: init() is *)
(* all or nothing, and a stopControl that returns true has stopped the       *)
(* script it was called for.                                                *)
(***************************************************************************)
EXTENDS Driver, FiniteSetTheorems, TLAPS

\* The steps of init() at which the script has been read, and "ready".
Building == {"reverse", "trajectory", "command", "start", "ready"}

\* The servers that exist at each step; after ~Impl has dropped them none comes
\* back, and no connection to one.
ServersOfStep ==
    /\ pc \in {"primary", "address", "reverse"} => held = {}
    /\ pc = "trajectory" => held = {"reverse"}
    /\ pc = "command" => held = {"reverse", "trajectory"}
    /\ pc = "start" => held = Ports
    /\ pc = "ready" => held = Ports \cup (IF config.headless THEN {} ELSE {"sender"})
    /\ pc \in {"shutdown", "gone"} => held = {} /\ backlog = {} /\ linked = [p \in Ports |-> 0]

PrimaryOfStep ==
    /\ pc = "primary" => primary = "none"
    /\ pc = "address" => primary = "connected" \/ (primary = "lost" /\ lost = "early")
    /\ pc \in Building => primary # "none"
    /\ pc = "gone" => primary = "none"

\* The address is missing in the script only for the reason InitAllOrNothing names.
AddressOfScript ==
    pc \in Building /\ robotScript["SERVER_IP"] = "" => ~config.local /\ lost = "early"

ThreadOfStep ==
    /\ pc # "gone" => thread = "running"
    /\ pc = "gone" => thread = "joined" /\ accept = "none" /\ reading = {}

LifeInv == ServersOfStep /\ PrimaryOfStep /\ AddressOfScript /\ ThreadOfStep

---------------------------------------------------------------------------

\* A handler of the sender arms nothing that was not armed.
LEMMA HandlersArmNothing ==
    ASSUME SenderHandler \/ \E c \in Clients : ClientConnects(c)
    PROVE  /\ sender' = sender
           /\ accept = "none" => accept' = "none" /\ reading' \subseteq reading
<1>1. CASE AcceptAborted
  BY <1>1 DEF AcceptAborted
<1>2. ASSUME NEW c \in Clients, Accepted(c) PROVE sender' = sender /\ accept # "none"
  BY <1>2 DEF Accepted
<1>3. ASSUME NEW c \in Clients, Received(c)
      PROVE  sender' = sender /\ accept' = accept /\ reading' \subseteq reading
  BY <1>3 DEF Received
<1>4. ASSUME NEW c \in Clients, Dropped(c) \/ ReceivedLate(c) \/ ClientConnects(c)
      PROVE  sender' = sender /\ accept' = accept /\ reading' \subseteq reading
  BY <1>4 DEF Dropped, ReceivedLate, ClientConnects
<1> QED BY <1>1, <1>2, <1>3, <1>4 DEF SenderHandler

\* What ReadScript writes for an address is that address.
LEMMA AddressWritten ==
    ASSUME NEW ip PROVE ScriptParamWrite(ip)["SERVER_IP"] = ip
BY DEF ScriptParamWrite, ServerPorts, Settings

LEMMA LifeStep == LifeInv /\ [Next]_vars => LifeInv'
<1> SUFFICES ASSUME LifeInv, [Next]_vars PROVE LifeInv'
  OBVIOUS
<1> USE DEF LifeInv, ServersOfStep, PrimaryOfStep, AddressOfScript, ThreadOfStep, Building,
            Ports, lifeVars, primaryVars, scriptVars, robotVars, linkVars, stopVars, senderVars
<1>1. CASE ConnectPrimary
  BY <1>1 DEF ConnectPrimary, Throw
<1>2. CASE ReadScript
  <2>1. config.file => robotScript'["SERVER_IP"] = LocalIp
    BY <1>2, AddressWritten DEF ReadScript
  <2>2. LocalIp = "" => ~config.local /\ lost = "early"
    BY <1>2 DEF LocalIp, ReadScript
  <2> QED BY <1>2, <2>1, <2>2 DEF ReadScript, Throw
<1>3. ASSUME NEW p \in Ports, CreateServer(p) PROVE LifeInv'
  BY <1>3 DEF CreateServer, NextStep, Throw
<1>4. CASE StartHeadless \/ StartSender
  BY <1>4 DEF StartHeadless, StartSender, Construct, Throw
<1>5. CASE BeginDestroy \/ DestroyServers \/ Shutdown
  BY <1>5 DEF BeginDestroy, DestroyServers, Shutdown, Destroy, SenderShutdown
<1>6. CASE PrimaryLost \/ PrimaryBack \/ PrimaryReconnect \/ SendExternalControlScript
  BY <1>6 DEF PrimaryLost, PrimaryBack, PrimaryReconnect, SendExternalControlScript
<1>7. CASE RobotStarts \/ RobotLeavesLoop \/ RobotCloses \/ NetworkCuts
  BY <1>7 DEF RobotStarts, RobotLeavesLoop, RobotCloses, NetworkCuts
<1>8. CASE RobotOpens
  BY <1>8 DEF RobotOpens
<1>9. ASSUME NEW p \in Ports, ServerSeesEnd(p) PROVE LifeInv'
  BY <1>9 DEF ServerSeesEnd
<1>9a. ASSUME NEW p \in Ports, AcceptFails(p) PROVE LifeInv'
  BY <1>9a DEF AcceptFails
<1>10. ASSUME NEW p \in Ports, NEW n \in 1 .. MaxScripts, ServerAccepts(p, n) PROVE LifeInv'
  BY <1>10 DEF ServerAccepts
<1>11. CASE StopControl \/ WriteStop \/ Clock \/ ReturnStop
  BY <1>11 DEF StopControl, WriteStop, Clock, ReturnStop
<1>12. ASSUME NEW p \in Ports, Poll(p) PROVE LifeInv'
  BY <1>12 DEF Poll
<1>13. CASE (SenderHandler \/ \E c \in Clients : ClientConnects(c)) /\ UNCHANGED driverVars
  BY <1>13, HandlersArmNothing DEF driverVars
<1>14. CASE UNCHANGED vars
  BY <1>14 DEF vars, driverVars
<1> QED BY <1>1, <1>2, <1>3, <1>4, <1>5, <1>6, <1>7, <1>8, <1>9, <1>9a, <1>10, <1>11, <1>12, <1>13,
           <1>14
        DEF Next, Constructor, Destructor, Robot, Network, Stopping

\* InitAllOrNothing: an init() that returned made every server of its mode and a script,
\* with an address unless none was configured and the primary connection was lost before
\* it was asked for one; an init() that threw, or a driver that is gone, has left nothing,
\* whatever port, file or connection failed.
THEOREM DriverAllOrNothing == Spec => []InitAllOrNothing
<1>1. Init => LifeInv
  BY DEF Init, LifeInv, ServersOfStep, PrimaryOfStep, AddressOfScript, ThreadOfStep, Building
<1>2. LifeInv => InitAllOrNothing
  BY DEF LifeInv, ServersOfStep, PrimaryOfStep, AddressOfScript, ThreadOfStep, Building,
         InitAllOrNothing
<1> QED BY <1>1, <1>2, LifeStep, PTL DEF Spec

---------------------------------------------------------------------------
(* stopControl.                                                             *)

\* Scripts are numbered, and a connection belongs to one that was started.
ScriptNumbers ==
    /\ number \in Nat /\ stopped \in Nat /\ stopped <= number
    /\ linked \in [Ports -> Nat] /\ \A p \in Ports : linked[p] <= number
    /\ \A b \in backlog : b \in Ports \X (1 .. number)
    /\ program # "none" => number > 0

\* The script on the robot names the three servers under their ports.
NamesPorts ==
    /\ robotScript["REVERSE_PORT"] = "reverse"
    /\ robotScript["TRAJECTORY_SERVER_PORT"] = "trajectory"
    /\ robotScript["SCRIPT_COMMAND_PORT"] = "command"

ScriptNamesPorts ==
    pc \in Building \/ given \/ program # "none" \/ sender # "absent"
      \/ (\E c \in Clients : reply[c] = "whole")  => NamesPorts

\* The sockets of the script: opened in order, all open while it loops, and none
\* left when it has ended.
SocketsOfProgram ==
    /\ program \in {"none", "opening", "looping", "closing"}
    /\ program = "opening" => ropen \in {{}, {"reverse"}, {"reverse", "trajectory"}}
    /\ program = "none" => ropen = {}
    /\ program = "looping" /\ pc \notin {"shutdown", "gone"} => ropen = Ports \/ cut = number

\* Connections are accepted in order, and the one to the reverse port is open
\* on the robot's side until the script closes it.
ReverseLink ==
    /\ \A k \in 1 .. number : k < linked["reverse"] => <<"reverse", k>> \notin backlog
    /\ program = "opening" /\ (linked["reverse"] = number \/ <<"reverse", number>> \in backlog)
         => "reverse" \in ropen

Left == program \in {"closing", "none"} \/ cut = number

\* Once STOP is written, the script that was sent it stays connected to the reverse port
\* until it has left its loop; past the question for that port it has left.
StopUnderWay ==
    /\ stop # "none" => pc = "ready" /\ ~result
    /\ stop = "writing" => stopped = 0
    /\ stop \notin {"none", "writing"} => stopped # 0
    /\ stop \notin {"none", "writing"} /\ stopped = number => linked["reverse"] = number \/ Left
    /\ stop \in {"trajectory", "return"} /\ stopped = number => Left

StopInv ==
    /\ ScriptNumbers /\ ScriptNamesPorts /\ SocketsOfProgram /\ ReverseLink /\ StopUnderWay
    /\ StopTrueMeansStopped

---------------------------------------------------------------------------

\* The sender gives a whole script away only while it exists.
LEMMA RepliesOfSender ==
    ASSUME SenderHandler \/ \E c \in Clients : ClientConnects(c)
    PROVE  /\ sender' = sender
           /\ reply' = reply \/ sender = "alive"
<1>1. CASE AcceptAborted
  BY <1>1 DEF AcceptAborted
<1>2. ASSUME NEW c \in Clients, Received(c) PROVE sender' = sender /\ sender = "alive"
  BY <1>2 DEF Received
<1>3. ASSUME NEW c \in Clients, Accepted(c) \/ Dropped(c) \/ ReceivedLate(c) \/ ClientConnects(c)
      PROVE  sender' = sender /\ reply' = reply
  BY <1>3 DEF Accepted, Dropped, ReceivedLate, ClientConnects
<1> QED BY <1>1, <1>2, <1>3 DEF SenderHandler

LEMMA PortsWritten ==
    ASSUME NEW ip
    PROVE  /\ ScriptParamWrite(ip)["REVERSE_PORT"] = "reverse"
           /\ ScriptParamWrite(ip)["TRAJECTORY_SERVER_PORT"] = "trajectory"
           /\ ScriptParamWrite(ip)["SCRIPT_COMMAND_PORT"] = "command"
BY DEF ScriptParamWrite, ServerPorts, Settings

\* The socket that is opened next is the next one in the order of the script.
LEMMA NextSocket ==
    ASSUME NamesPorts, ropen \in {{}, {"reverse"}, {"reverse", "trajectory"}}
    PROVE  \/ /\ ropen = {} /\ Cardinality(ropen) + 1 = 1
              /\ SocketPort(Cardinality(ropen) + 1) = "reverse"
           \/ /\ ropen = {"reverse"} /\ Cardinality(ropen) + 1 = 2
              /\ SocketPort(Cardinality(ropen) + 1) = "trajectory"
           \/ /\ ropen = {"reverse", "trajectory"} /\ Cardinality(ropen) + 1 = 3
              /\ SocketPort(Cardinality(ropen) + 1) = "command"
<1>1. Cardinality({}) = 0
  BY FS_EmptySet
<1>2. Cardinality({"reverse"}) = 1 /\ IsFiniteSet({"reverse"})
  BY FS_Singleton
<1>3. Cardinality({"reverse", "trajectory"}) = 2
  <2>1. {"reverse", "trajectory"} = {"reverse"} \cup {"trajectory"} /\ "trajectory" \notin {"reverse"}
    OBVIOUS
  <2> QED BY <1>2, <2>1, FS_AddElement
<1>4. SocketPort(1) = "reverse" /\ SocketPort(2) = "trajectory" /\ SocketPort(3) = "command"
  BY DEF SocketPort, NamesPorts
<1>5. CASE ropen = {}
  BY <1>1, <1>4, <1>5
<1>6. CASE ropen = {"reverse"}
  BY <1>2, <1>4, <1>6
<1>7. CASE ropen = {"reverse", "trajectory"}
  BY <1>3, <1>4, <1>7
<1> QED BY <1>5, <1>6, <1>7

LEMMA StopStep == StopInv /\ [Next]_vars => StopInv'
<1> SUFFICES ASSUME StopInv, [Next]_vars PROVE StopInv'
  OBVIOUS
<1> USE DEF StopInv, ScriptNumbers, ScriptNamesPorts, NamesPorts, SocketsOfProgram, ReverseLink,
            StopUnderWay, StopTrueMeansStopped, Left, Building, Ports,
            lifeVars, primaryVars, scriptVars, robotVars, linkVars, stopVars, senderVars
<1>1. CASE ConnectPrimary
  BY <1>1 DEF ConnectPrimary, Throw
<1>2. CASE ReadScript
  BY <1>2, PortsWritten DEF ReadScript, Throw
<1>3. ASSUME NEW p \in Ports, CreateServer(p) PROVE StopInv'
  BY <1>3 DEF CreateServer, NextStep, Throw
<1>4. CASE StartHeadless \/ StartSender
  BY <1>4 DEF StartHeadless, StartSender, Construct, Throw
<1>5. CASE BeginDestroy
  BY <1>5 DEF BeginDestroy
<1>6. CASE DestroyServers \/ Shutdown
  BY <1>6 DEF DestroyServers, Shutdown, Destroy, SenderShutdown
<1>7. CASE PrimaryLost \/ PrimaryBack \/ PrimaryReconnect \/ SendExternalControlScript
  BY <1>7 DEF PrimaryLost, PrimaryBack, PrimaryReconnect, SendExternalControlScript
<1>8. CASE RobotStarts
  <2>1. ScriptNumbers'
    BY <1>8 DEF RobotStarts
  <2>2. ScriptNamesPorts'
    BY <1>8 DEF RobotStarts
  <2>3. SocketsOfProgram'
    BY <1>8 DEF RobotStarts
  <2>4. ReverseLink'
    BY <1>8 DEF RobotStarts
  <2>5. StopUnderWay' /\ StopTrueMeansStopped'
    BY <1>8 DEF RobotStarts
  <2> QED BY <2>1, <2>2, <2>3, <2>4, <2>5
<1>9. CASE RobotOpens
  <2> DEFINE q == SocketPort(Cardinality(ropen) + 1)
             last == Cardinality(ropen) + 1 = 3
  <2>1. program = "opening" /\ number > 0
    BY <1>9 DEF RobotOpens
  <2>2. \/ ropen = {} /\ q = "reverse" /\ ~last
        \/ ropen = {"reverse"} /\ q = "trajectory" /\ ~last
        \/ ropen = {"reverse", "trajectory"} /\ q = "command" /\ last
    BY <2>1, NextSocket
  <2>3. \/ /\ ropen' = ropen \cup {q} /\ backlog' = backlog \cup {<<q, number>>}
           /\ program' = IF last THEN "looping" ELSE "opening"
        \/ program' = "closing" /\ ropen' = ropen /\ backlog' = backlog
    BY <1>9 DEF RobotOpens
  <2>4. UNCHANGED <<lifeVars, primaryVars, scriptVars, number, cut, linked, stopVars, senderVars>>
    BY <1>9 DEF RobotOpens
  <2> HIDE DEF q, last
  <2>5. <<q, number>> \in Ports \X (1 .. number)
    BY <2>1, <2>2
  <2>6. ScriptNumbers'
    <3>1. \A b \in backlog' : b \in Ports \X (1 .. number)
      BY <2>3, <2>5
    <3> QED BY <2>1, <2>4, <3>1
  <2>7. ScriptNamesPorts'
    BY <2>1, <2>4
  <2>8. SocketsOfProgram'
    BY <2>2, <2>3
  <2>9. ReverseLink'
    <3>1. \A k \in 1 .. number : k < linked["reverse"] => <<"reverse", k>> \notin backlog'
      BY <2>3
    <3>2. program' = "opening" => "reverse" \in ropen'
      BY <2>2, <2>3
    <3> QED BY <2>4, <3>1, <3>2
  <2>10. StopUnderWay' /\ StopTrueMeansStopped'
    BY <2>1, <2>3, <2>4
  <2> QED BY <2>6, <2>7, <2>8, <2>9, <2>10
<1>10. CASE RobotLeavesLoop \/ NetworkCuts
  BY <1>10 DEF RobotLeavesLoop, NetworkCuts
<1>11. CASE RobotCloses
  BY <1>11 DEF RobotCloses
<1>12. ASSUME NEW p \in Ports, ServerSeesEnd(p) PROVE StopInv'
  <2>1. /\ linked' = [linked EXCEPT ![p] = 0] /\ linked[p] # 0
        /\ linked[p] # number \/ p \notin ropen
        /\ UNCHANGED <<lifeVars, primaryVars, scriptVars, robotVars, ropen, backlog, stopVars, senderVars>>
    BY <1>12 DEF ServerSeesEnd, Ended
  <2>2. linked' \in [Ports -> Nat] /\ \A q \in Ports : linked'[q] = IF q = p THEN 0 ELSE linked[q]
    BY <2>1
  <2>3. ScriptNumbers'
    <3>1. \A q \in Ports : linked'[q] <= number
      BY <2>2
    <3> QED BY <2>1, <2>2, <3>1
  <2>4. ScriptNamesPorts' /\ SocketsOfProgram'
    BY <2>1
  <2>5. ReverseLink'
    BY <2>1, <2>2
  <2>6. StopUnderWay' /\ StopTrueMeansStopped'
    BY <2>1, <2>2
  <2> QED BY <2>3, <2>4, <2>5, <2>6
<1>12a. ASSUME NEW p \in Ports, AcceptFails(p) PROVE StopInv'
  <2>1. /\ linked' = [linked EXCEPT ![p] = 0] /\ linked[p] # 0 /\ cut = 0 /\ cut' = linked[p]
        /\ UNCHANGED <<lifeVars, primaryVars, scriptVars, program, number, ropen, backlog, stopVars, senderVars>>
    BY <1>12a DEF AcceptFails
  <2>2. linked' \in [Ports -> Nat] /\ \A q \in Ports : linked'[q] = IF q = p THEN 0 ELSE linked[q]
    BY <2>1
  <2>3. ScriptNumbers'
    <3>1. \A q \in Ports : linked'[q] <= number
      BY <2>2
    <3> QED BY <2>1, <2>2, <3>1
  <2>4. number # 0
    BY <2>1
  <2>5. ScriptNamesPorts' /\ SocketsOfProgram'
    BY <2>1, <2>4
  <2>6. ReverseLink'
    BY <2>1, <2>2
  <2>7. Left => Left'
    BY <2>1, <2>4
  <2>8. linked["reverse"] = number => linked'["reverse"] = number \/ Left'
    BY <2>1, <2>2
  <2>9. StopUnderWay' /\ StopTrueMeansStopped'
    BY <2>1, <2>7, <2>8
  <2> QED BY <2>3, <2>5, <2>6, <2>9
<1>13. ASSUME NEW p \in Ports, NEW n \in 1 .. MaxScripts, ServerAccepts(p, n) PROVE StopInv'
  BY <1>13, BoundsAssumption DEF ServerAccepts, MayHandleAccept
<1>14. CASE StopControl
  BY <1>14 DEF StopControl
<1>14w. CASE WriteStop
  <2>1. CASE linked["reverse"] # 0 /\ stop' = "command" /\ stopped' = linked["reverse"]
    BY <1>14w, <2>1 DEF WriteStop
  <2>2. CASE stop' = "none" /\ UNCHANGED stopped
    BY <1>14w, <2>2 DEF WriteStop
  <2> QED BY <1>14w, <2>1, <2>2 DEF WriteStop
<1>14a. CASE Clock
  BY <1>14a DEF Clock
<1>14b. CASE ReturnStop
  BY <1>14b DEF ReturnStop
<1>15. ASSUME NEW p \in Ports, Poll(p) PROVE StopInv'
  <2>1. CASE linked[p] # 0
    BY <1>15, <2>1 DEF Poll
  <2>2. CASE linked[p] = 0 /\ p = "command"
    BY <1>15, <2>2 DEF Poll
  <2>3. CASE linked[p] = 0 /\ p = "reverse"
    <3>1. stop = "reverse" /\ stop' = "trajectory"
      BY <1>15, <2>3 DEF Poll
    <3>2. /\ UNCHANGED <<lifeVars, primaryVars, scriptVars, robotVars, linkVars>>
          /\ UNCHANGED <<stopped, result, senderVars>>
      BY <1>15 DEF Poll
    <3>3. stopped = number => Left
      BY <2>3, <3>1
    <3> QED BY <3>1, <3>2, <3>3
  <2>4. CASE linked[p] = 0 /\ p = "trajectory"
    BY <1>15, <2>4 DEF Poll
  <2> QED BY <2>1, <2>2, <2>3, <2>4
<1>16. CASE (SenderHandler \/ \E c \in Clients : ClientConnects(c)) /\ UNCHANGED driverVars
  BY <1>16, RepliesOfSender DEF driverVars
<1>17. CASE UNCHANGED vars
  BY <1>17 DEF vars, driverVars
<1> QED BY <1>1, <1>2, <1>3, <1>4, <1>5, <1>6, <1>7, <1>8, <1>9, <1>10, <1>11, <1>12, <1>12a, <1>13,
           <1>14, <1>14w, <1>14a, <1>14b, <1>15, <1>16, <1>17
        DEF Next, Constructor, Destructor, Robot, Network, Stopping

\* StopTrueMeansStopped: when stopControl has returned true, the script it was called
\* for has left its loop or was cut off, although the three ports were asked one after
\* another while the robot connected and closed.
THEOREM StopIsReal == Spec => []StopTrueMeansStopped
<1>1. Init => StopInv
  BY DEF Init, StopInv, ScriptNumbers, ScriptNamesPorts, SocketsOfProgram, ReverseLink,
         StopUnderWay, StopTrueMeansStopped, Left, Building, Ports, SenderInit
<1>2. StopInv => StopTrueMeansStopped
  BY DEF StopInv
<1> QED BY <1>1, <1>2, StopStep, PTL DEF Spec
=============================================================================
