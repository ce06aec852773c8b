------------------------------- MODULE Rs485 -------------------------------
(***************************************************************************)
(* startToolRs485, startBoardRs485, endToolRs485 and endBoardRs485 of         *)
(* EliteDriver.cpp: an RS-485 line of the robot is configured by a script and *)
(* served on a TCP port by a socat process that is started over ssh.  A       *)
(* process is found again by the port in its command line: the pattern also   *)
(* fits a longer number that starts with the port.                            *)
(***************************************************************************)
EXTENDS Naturals, FiniteSets

CONSTANTS
    Threads,        \* threads that start and end lines
    TcpPorts,       \* the ports they use
    Fits,           \* pairs <<p, q>>: the pattern for p fits a process on port q
    MaxStarts       \* bound: lines started

VARIABLES
    socats,     \* socat processes on the robot: [pid, port, line]
    lineSet,    \* lines a script has configured
    starting,   \* each thread: the start it is in, and the step
    handles,    \* what starts returned: [line, serves, pid, reused, alone]
    starts

rs485Vars == <<socats, lineSet, starting, handles, starts>>

Lines == {"tool", "board"}

NoStart == [line |-> "tool", port |-> 0, step |-> "idle", alone |-> TRUE]

Rs485Init ==
    /\ socats = {} /\ lineSet = {} /\ handles = {} /\ starts = 0
    /\ starting = [u \in Threads |-> NoStart]

\* getSocatPid: one of the processes whose command line fits.
Found(port) == {s \in socats : <<port, s.port>> \in Fits}

Running(u) == starting[u].step # "idle"

\* Nobody else starts or has a process on a port that could be mistaken.
Overlaps(p, q) == <<p, q>> \in Fits \/ <<q, p>> \in Fits

Rs485Start(u, line, port) ==
    /\ ~Running(u) /\ starts < MaxStarts
    /\ starts' = starts + 1
    /\ LET others == {v \in Threads \ {u} : Running(v) /\ Overlaps(port, starting[v].port)}
       IN  starting' = [v \in Threads |->
             IF v = u THEN [line |-> line, port |-> port, step |-> "find", alone |-> others = {}]
             ELSE [starting[v] EXCEPT !.alone = @ /\ v \notin others]]
    /\ UNCHANGED <<socats, lineSet, handles>>

Handle(u, s) ==
    [line |-> starting[u].line, serves |-> s.line, pid |-> s.pid,
     reused |-> starting[u].step = "find", alone |-> starting[u].alone]

StartDone(u) == starting' = [starting EXCEPT ![u] = NoStart]

\* A process that is there already is used as it is.
FindSocat(u) ==
    /\ starting[u].step = "find"
    /\ IF Found(starting[u].port) = {}
       THEN starting' = [starting EXCEPT ![u].step = "script"] /\ UNCHANGED handles
       ELSE \E s \in Found(starting[u].port) : handles' = handles \cup {Handle(u, s)} /\ StartDone(u)
    /\ UNCHANGED <<socats, lineSet, starts>>

SendConfig(u) ==
    /\ starting[u].step = "script"
    /\ \/ /\ lineSet' = lineSet \cup {starting[u].line}
          /\ starting' = [starting EXCEPT ![u].step = "launch"]
       \/ StartDone(u) /\ UNCHANGED lineSet
    /\ UNCHANGED <<socats, handles, starts>>

LaunchFaulty(u) ==
    /\ starting[u].step = "launch"
    /\ starting' = [starting EXCEPT ![u].step = "poll"]
    /\ socats' = socats \cup {[pid |-> starts, port |-> starting[u].port, line |-> "tool"]}
    /\ UNCHANGED <<lineSet, handles, starts>>

\* socat ends at once if the port is taken; ssh may fail, which nobody asks.
Launch(u) ==
    /\ starting[u].step = "launch"
    /\ starting' = [starting EXCEPT ![u].step = "poll"]
    /\ \/ /\ \A s \in socats : s.port # starting[u].port
          /\ socats' = socats \cup {[pid |-> starts, port |-> starting[u].port, line |-> starting[u].line]}
       \/ UNCHANGED socats
    /\ UNCHANGED <<lineSet, handles, starts>>

\* Ten looks for the process, after which the start has failed.
PollSocat(u) ==
    /\ starting[u].step = "poll"
    /\ \/ \E s \in Found(starting[u].port) : handles' = handles \cup {Handle(u, s)} /\ StartDone(u)
       \/ StartDone(u) /\ UNCHANGED handles
    /\ UNCHANGED <<socats, lineSet, starts>>

\* The end of a line: kill, whether it works or not.
Rs485End(h) ==
    /\ handles' = handles \ {h}
    /\ \/ socats' = {s \in socats : s.pid # h.pid}
       \/ UNCHANGED socats
    /\ UNCHANGED <<lineSet, starting, starts>>

Rs485Next ==
    \/ \E u \in Threads :
         \/ FindSocat(u) \/ SendConfig(u) \/ Launch(u) \/ PollSocat(u)
         \/ \E line \in Lines, port \in TcpPorts : Rs485Start(u, line, port)
    \/ \E h \in handles : Rs485End(h)

\* The line a start was asked for is the line its process serves, and a script
\* has configured it, unless the start took over a process that was there before
\* it, or another start on a port that fits ran at the same time
\* (EliteDriver.cpp:404-441 and 454-490).
HandleServesItsLine ==
    \A h \in handles : ~h.reused /\ h.alone => h.serves = h.line /\ h.line \in lineSet
=============================================================================
