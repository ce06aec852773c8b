--------------------------- MODULE DashboardProofs ---------------------------
(***************************************************************************)
(* Proofs about Dashboard for any threads, robot states and numbers of      *)
(* calls.                                                                   *)
(*                                                                         *)
(* Calm says who may use the socket while no call without the mutex has     *)
(* overlapped with another; InStep says that, while nothing has put the      *)
(* connection out of step, all that is on its way belongs to the one call   *)
(* that awaits a reply.                                                     *)
(***************************************************************************)
EXTENDS Dashboard, SequenceTheorems, WellFoundedInduction, TLAPS

Places == {"lock", "dial", "send", "start", "read", "aborted", "reset"}
Commands == {"order", "note", "status", "value", "text", "leave", "poll", "check", "hello"}
Lines == [n : Nat, form : {"hello", "ack", "value", "text", "status"}, val : States \cup {NoGoal}]
Requested == [n : Nat, cmd : Commands, goal : Goals \cup {NoGoal}]

ActiveCalls ==
    [pc : Places, op : Requests \cup Bare, cmd : Commands, goal : Goals \cup {NoGoal},
     n : Nat, polls : Nat, res : {"none", "true", "false"}, seen : SUBSET States]

\* Where a call is, what it sends and what it is for.
Formed(c) ==
    /\ c.op = "connect" => c.pc \in {"lock", "dial", "start", "read", "aborted"} /\ c.n = 0
    /\ c.op = "sendAndReceive" => c.pc \in {"send", "start", "read", "aborted"}
    /\ c.op \in Requests => c.pc # "dial"
    /\ c.pc = "reset" => c.op = "quit"
    /\ c.op \in Names => c.cmd = Op[c.op].cmd \/ (c.op = "setSpeedScaling" /\ c.cmd = "check")
    /\ c.op = "waitForReply" => c.cmd = "poll"
    /\ c.goal \in Goals => c.op \in Orders \cup {"waitForReply"}

CallInv ==
    /\ DOMAIN call = Threads
    /\ \A t \in Threads :
          call[t].pc # "idle" =>
             call[t] \in ActiveCalls /\ Formed(call[t]) /\ state \in call[t].seen

TypeInv ==
    /\ CallInv
    /\ socket \in {"null", "dialing", "up", "down"} /\ mutex \in Threads \cup {None}
    /\ inbox \in Seq(Lines) /\ late \in Seq(Lines) /\ orders \in Seq(Requested)
    /\ sent \in Nat /\ state \in States /\ crashed \in BOOLEAN
    /\ socket # "up" => orders = <<>> /\ late = <<>>
    /\ taint \subseteq {"overlap", "unconnected", "cut"}

Awaits(t) == call[t].pc \in {"start", "read"}

\* Without overlapping calls, the socket is used by the holder of the mutex, or by a
\* call that is alone.
Calm ==
    taint \cap {"overlap", "unconnected"} = {} =>
        /\ ~crashed
        /\ \A t \in Threads :
              /\ call[t].pc # "idle" /\ call[t].op \in Bare => Alone(t)
              /\ call[t].pc \in {"dial", "send", "start", "read"} => socket # "null"
              /\ call[t].pc \in {"send", "start", "read"} /\ call[t].op \in Requests => mutex = t

\* A line of the reply to the command of thread t, which tells what the robot was in.
Ours(t, line) ==
    line.n = call[t].n /\ (line.form \in {"value", "status"} => line.val \in call[t].seen)

\* All that is on its way belongs to the one call that awaits a reply.
InStep ==
    taint = {} =>
        /\ (\A t \in Threads : ~Awaits(t)) => inbox = <<>> /\ late = <<>> /\ orders = <<>>
        /\ \A t \in Threads : Awaits(t) =>
              /\ \A i \in DOMAIN inbox : Ours(t, inbox[i])
              /\ \A i \in DOMAIN late : Ours(t, late[i])
              /\ \A i \in DOMAIN orders : orders[i].n = call[t].n
        /\ orders # <<>> => Len(orders) = 1 /\ inbox = <<>> /\ late = <<>>

DashInv == TypeInv /\ Calm /\ InStep

----------------------------------------------------------------------------
(* The operations and what they make of a reply.                            *)

\* What the table of the operations holds.
LEMMA OperationTable ==
    /\ Names = {"brakeRelease", "powerOn", "playProgram", "setSpeedScaling", "echo",
                "speedScaling", "getTaskStatus", "help", "quit"}
    /\ \A o \in Names :
          /\ Op[o].cmd \in {"order", "note", "status", "value", "text", "leave"}
          /\ Op[o].empty \in {"false", "poll", "check", "thrown", "default", "text", "reset"}
          /\ Op[o].then \in {"poll", "compare", "check", "return", "reset"}
          /\ "reset" \in {Op[o].empty, Op[o].then} => o = "quit"
          /\ "check" \in {Op[o].empty, Op[o].then} => o = "setSpeedScaling"
          /\ Op[o].cmd \in {"status", "value"} => Op[o].expects
          /\ Op[o].then = "return" => Op[o].cmd # "order"
    /\ "quit" \in Names \ Orders /\ "connect" \notin Requests /\ "sendAndReceive" \notin Requests
    /\ "waitForReply" \notin Names /\ "waitForReply" \notin Bare
    /\ \A o \in Names : o \in Orders <=> Op[o].cmd = "order"
<1>1. Names = {"brakeRelease", "powerOn", "playProgram", "setSpeedScaling", "echo",
               "speedScaling", "getTaskStatus", "help", "quit"}
  BY DEF Names, Op
<1>2. ASSUME NEW o \in Names
      PROVE  /\ Op[o].cmd \in {"order", "note", "status", "value", "text", "leave"}
             /\ Op[o].empty \in {"false", "poll", "check", "thrown", "default", "text", "reset"}
             /\ Op[o].then \in {"poll", "compare", "check", "return", "reset"}
             /\ "reset" \in {Op[o].empty, Op[o].then} => o = "quit"
             /\ "check" \in {Op[o].empty, Op[o].then} => o = "setSpeedScaling"
             /\ Op[o].cmd \in {"status", "value"} => Op[o].expects
             /\ Op[o].then = "return" => Op[o].cmd # "order"
  BY <1>1 DEF Op, Operation, BrakeRelease, PowerOn, PlayProgram, SetSpeedScaling, Echo,
              SpeedScaling, GetTaskStatus, Help, Quit
<1>3. Op["quit"].cmd = "leave"
  BY DEF Op, Operation, Quit
<1> QED BY <1>1, <1>2, <1>3 DEF Orders, Requests, Bare

\* A set of places in a response has a first one.
LEMMA FirstPlace ==
    ASSUME NEW T \in SUBSET Nat, T # {}
    PROVE  \E x \in T : \A y \in T : x <= y
<1>1. PICK R : R = {ss \in Nat \X Nat : ss[1] < ss[2]}
  OBVIOUS
<1>2. IsWellFoundedOn(R, Nat)
  BY <1>1, NatLessThanWellFounded DEF OpToRel
<1>3. PICK x \in T : \A y \in T : ~(<<y, x>> \in R)
  BY <1>2, WFMin
<1>4. ASSUME NEW y \in T PROVE x <= y
  <2>1. ~(y < x)
    BY <1>1, <1>3
  <2> QED BY <2>1
<1> QED BY <1>3, <1>4

\* A call that ends.
LEMMA ReturnShape == ASSUME NEW r PROVE Return(r).pc = "idle" /\ Return(r).res = r
BY DEF Return, Idle

\* A call that asks again.
LEMMA AskShape ==
    ASSUME NEW c \in ActiveCalls, NEW cmd \in Commands
    PROVE  /\ Ask(c, cmd) \in ActiveCalls
           /\ Ask(c, cmd).pc = "lock" /\ Ask(c, cmd).cmd = cmd /\ Ask(c, cmd).op = c.op
           /\ Ask(c, cmd).goal = c.goal /\ Ask(c, cmd).seen = c.seen
BY DEF ActiveCalls, Ask, Places

\* What the call of a request becomes when it has a response: it is over, asks again
\* without the mutex, or goes on to reset the socket.
Continues(c, d) ==
    /\ d.pc \in {"idle", "lock", "reset"}
    /\ d.pc # "idle" => /\ d \in ActiveCalls /\ Formed(d)
                        /\ d.seen = c.seen /\ (d.op \in Bare => c.op \in Bare)

\* The call of a request, by the command whose reply it awaits.
LEMMA RequestForms ==
    ASSUME NEW c \in ActiveCalls, Formed(c), c.op \in Requests
    PROVE  \/ c.op = "waitForReply" /\ c.cmd = "poll"
           \/ c.op = "setSpeedScaling" /\ c.cmd = "check"
           \/ c.op \in Names /\ c.cmd = Op[c.op].cmd /\ c.cmd \notin {"poll", "check"}
BY OperationTable DEF Formed, Requests

\* The first value in a response is one of its lines.
LEMMA FirstValueIsThere ==
    ASSUME NEW c, NEW got \in Seq(Lines), Matches(c, got) # {}
    PROVE  \E i \in Matches(c, got) : i \in DOMAIN got /\ FirstValue(c, got) = got[i].val
<1>1. Matches(c, got) \in SUBSET Nat
  BY LenProperties DEF Matches
<1>2. \E x \in Matches(c, got) : \A y \in Matches(c, got) : x <= y
  BY <1>1, FirstPlace
<1>3. PICK i : i = CHOOSE x \in Matches(c, got) : \A j \in Matches(c, got) : x <= j
  OBVIOUS
<1>4. i \in Matches(c, got)
  BY <1>2, <1>3
<1>5. FirstValue(c, got) = got[i].val
  BY <1>3 DEF FirstValue
<1>6. i \in DOMAIN got
  BY <1>4 DEF Matches
<1> QED BY <1>4, <1>5, <1>6

\* Going on to the next command of an operation, or returning.
LEMMA ThenShape ==
    ASSUME NEW c \in ActiveCalls, Formed(c), c.op \in Names, NEW what,
           what = "reset" => c.op = "quit", what = "check" => c.op = "setSpeedScaling"
    PROVE  /\ Continues(c, Then(c, what))
           /\ Then(c, what).pc = "idle" => Then(c, what).res \in {what, "false"}
<1>0. "poll" \in Commands /\ "check" \in Commands
  BY DEF Commands
<1>1. CASE what = "poll" /\ MaxPolls > 0
  <2>1. PICK d : d = [Ask(c, "poll") EXCEPT !.op = "waitForReply"]
    OBVIOUS
  <2>2. /\ d \in ActiveCalls /\ d.pc = "lock" /\ d.op = "waitForReply" /\ d.cmd = "poll"
        /\ d.seen = c.seen
    BY <1>0, <2>1, AskShape DEF ActiveCalls, Requests
  <2>3. Formed(d)
    BY <2>2, OperationTable DEF Formed
  <2>4. Then(c, what) = d
    BY <1>1, <2>1 DEF Then
  <2> QED BY <2>2, <2>3, <2>4, OperationTable DEF Continues
<1>2. CASE what = "poll" /\ ~(MaxPolls > 0)
  <2>1. Then(c, what) = Return("false")
    BY <1>2 DEF Then
  <2> QED BY <2>1, ReturnShape DEF Continues
<1>3. CASE what = "check"
  <2>1. Then(c, what) = Ask(c, "check")
    BY <1>3 DEF Then
  <2>2. PICK d : d = Ask(c, "check")
    OBVIOUS
  <2>3. /\ d \in ActiveCalls /\ d.pc = "lock" /\ d.op = c.op /\ d.cmd = "check"
        /\ d.seen = c.seen /\ d.goal = c.goal
    BY <1>0, <2>2, AskShape
  <2>4. Formed(d)
    BY <1>3, <2>3, OperationTable DEF Formed
  <2> QED BY <2>1, <2>2, <2>3, <2>4, OperationTable DEF Continues
<1>4. CASE what = "reset"
  <2>1. PICK d : d = [c EXCEPT !.pc = "reset"]
    OBVIOUS
  <2>2. /\ d \in ActiveCalls /\ d.pc = "reset" /\ d.op = c.op /\ d.cmd = c.cmd
        /\ d.seen = c.seen /\ d.goal = c.goal
    BY <2>1 DEF ActiveCalls, Places
  <2>3. Formed(d)
    BY <1>4, <2>2, OperationTable DEF Formed
  <2>4. Then(c, what) = d
    BY <1>4, <2>1 DEF Then
  <2> QED BY <2>2, <2>3, <2>4, OperationTable DEF Continues
<1>5. CASE what \notin {"poll", "check", "reset"}
  <2>1. Then(c, what) = Return(what)
    BY <1>5 DEF Then
  <2> QED BY <2>1, ReturnShape DEF Continues
<1> QED BY <1>1, <1>2, <1>3, <1>4, <1>5

\* A line of the response reports state v.
Tells(got, v) == \E i \in DOMAIN got : got[i].form \in {"value", "status"} /\ got[i].val = v

\* A call that ends answers with a state, or says that its goal was reached, only if
\* the response says so.
Honest(c, got, d) ==
    d.pc = "idle" => /\ d.res \in States => Tells(got, d.res)
                     /\ c.goal \in Goals /\ d.res = "true" => Tells(got, c.goal)

\* The words a call may return are not states.
LEMMA WordsAreNotStates ==
    /\ "none" \notin States /\ "true" \notin States /\ "false" \notin States
    /\ "thrown" \notin States /\ "text" \notin States /\ "default" \notin States
BY DashboardNames

\* waitForReply
LEMMA WaitResponds ==
    ASSUME NEW c \in ActiveCalls, Formed(c), c.op = "waitForReply", NEW got \in Seq(Lines)
    PROVE  Continues(c, WaitForReply(c, got)) /\ Honest(c, got, WaitForReply(c, got))
<1>1. CASE Len(got) = 1 /\ got[1].form = "value" /\ got[1].val = c.goal
  <2>1. WaitForReply(c, got) = Return("true")
    BY <1>1 DEF WaitForReply
  <2>2. 1 \in DOMAIN got
    BY <1>1, LenProperties
  <2>3. Tells(got, c.goal)
    BY <1>1, <2>2 DEF Tells
  <2> QED BY <2>1, <2>3, ReturnShape, WordsAreNotStates DEF Continues, Honest
<1>2. CASE ~(Len(got) = 1 /\ got[1].form = "value" /\ got[1].val = c.goal) /\ c.polls > 1
  <2>1. PICK d : d = [Ask(c, "poll") EXCEPT !.polls = c.polls - 1]
    OBVIOUS
  <2>2. c.polls - 1 \in Nat
    BY <1>2 DEF ActiveCalls
  <2>3. /\ d \in ActiveCalls /\ d.pc = "lock" /\ d.op = "waitForReply" /\ d.cmd = "poll"
        /\ d.seen = c.seen
    <3>1. "poll" \in Commands
      BY DEF Commands
    <3>2. PICK a : a = Ask(c, "poll")
      OBVIOUS
    <3>3. /\ a \in ActiveCalls /\ a.pc = "lock" /\ a.op = c.op /\ a.cmd = "poll"
          /\ a.seen = c.seen
      BY <3>1, <3>2, AskShape
    <3> QED BY <2>1, <2>2, <3>2, <3>3 DEF ActiveCalls
  <2>4. Formed(d)
    BY <2>3, OperationTable DEF Formed
  <2>5. WaitForReply(c, got) = d
    BY <1>2, <2>1 DEF WaitForReply
  <2> QED BY <2>3, <2>4, <2>5, OperationTable DEF Continues, Honest
<1>3. CASE ~(Len(got) = 1 /\ got[1].form = "value" /\ got[1].val = c.goal) /\ ~(c.polls > 1)
  <2>1. WaitForReply(c, got) = Return("false")
    BY <1>3 DEF WaitForReply
  <2> QED BY <2>1, ReturnShape, WordsAreNotStates DEF Continues, Honest
<1> QED BY <1>1, <1>2, <1>3

\* setSpeedScaling
LEMMA CheckResponds ==
    ASSUME NEW c \in ActiveCalls, c.cmd = "check", NEW got \in Seq(Lines)
    PROVE  Continues(c, CheckScaling(c, got)) /\ Honest(c, got, CheckScaling(c, got))
<1>1. CASE Matches(c, got) = {}
  <2>1. CheckScaling(c, got) = Return("thrown")
    BY <1>1 DEF CheckScaling
  <2> QED BY <2>1, ReturnShape, WordsAreNotStates DEF Continues, Honest
<1>2. CASE Matches(c, got) # {} /\ FirstValue(c, got) # c.goal
  <2>1. CheckScaling(c, got) = Return("false")
    BY <1>2 DEF CheckScaling
  <2> QED BY <2>1, ReturnShape, WordsAreNotStates DEF Continues, Honest
<1>3. CASE Matches(c, got) # {} /\ FirstValue(c, got) = c.goal
  <2>1. CheckScaling(c, got) = Return("true")
    BY <1>3 DEF CheckScaling
  <2>2. PICK i \in Matches(c, got) : i \in DOMAIN got /\ c.goal = got[i].val
    BY <1>3, FirstValueIsThere
  <2>3. got[i].form = "status"
    BY <2>2 DEF Matches
  <2>4. Tells(got, c.goal)
    BY <2>2, <2>3 DEF Tells
  <2> QED BY <2>1, <2>4, ReturnShape, WordsAreNotStates DEF Continues, Honest
<1> QED BY <1>1, <1>2, <1>3

\* The first command of an operation.
LEMMA FirstResponds ==
    ASSUME NEW c \in ActiveCalls, Formed(c), c.op \in Names, c.cmd = Op[c.op].cmd,
           NEW got \in Seq(Lines)
    PROVE  Continues(c, FirstReply(c, got)) /\ Honest(c, got, FirstReply(c, got))
<1> DEFINE o == Op[c.op]
<1>0. /\ "reset" \in {o.empty, o.then} => c.op = "quit"
      /\ "check" \in {o.empty, o.then} => c.op = "setSpeedScaling"
      /\ o.empty \in {"false", "poll", "check", "thrown", "default", "text", "reset"}
      /\ o.then \in {"poll", "compare", "check", "return", "reset"}
      /\ c.cmd \in {"status", "value"} => o.expects
      /\ o.then = "return" => c.cmd # "order"
      /\ c.goal \in Goals => c.cmd = "order"
  BY OperationTable DEF Formed
<1>1. ASSUME NEW what \in {"poll", "check", "reset", "false", "thrown", "default", "text"},
             what = "reset" => c.op = "quit", what = "check" => c.op = "setSpeedScaling"
      PROVE  Continues(c, Then(c, what)) /\ Honest(c, got, Then(c, what))
  <2>1. /\ Continues(c, Then(c, what))
        /\ Then(c, what).pc = "idle" => Then(c, what).res \in {what, "false"}
    BY <1>1, ThenShape
  <2>2. what \notin {"poll", "check", "reset"} => what \notin States \cup {"true"}
    BY WordsAreNotStates
  <2>3. what \in {"check", "reset"} => Then(c, what).pc # "idle"
    BY AskShape DEF Then, Ask, ActiveCalls
  <2>4. what = "poll" /\ Then(c, what).pc = "idle" => Then(c, what).res = "false"
    <3>1. CASE MaxPolls > 0
      <4>1. what = "poll" => Then(c, what).pc = "lock"
        BY <3>1 DEF Then, Ask, ActiveCalls
      <4> QED BY <4>1
    <3>2. CASE ~(MaxPolls > 0)
      BY <3>2, ReturnShape DEF Then
    <3> QED BY <3>1, <3>2
  <2> QED BY <2>1, <2>2, <2>3, <2>4, WordsAreNotStates DEF Honest
<1>2. ASSUME NEW r, r \notin States, r = "true" => c.goal \notin Goals
      PROVE  Continues(c, Return(r)) /\ Honest(c, got, Return(r))
  BY <1>2, ReturnShape DEF Continues, Honest
<1>3. CASE got = <<>>
  <2>1. FirstReply(c, got) = Then(c, o.empty)
    BY <1>3 DEF FirstReply
  <2> HIDE DEF o
  <2> QED BY <1>0, <1>1, <2>1
<1>4. CASE got # <<>> /\ o.expects /\ Matches(c, got) = {}
  <2>1. FirstReply(c, got) = Return("thrown")
    BY <1>4 DEF FirstReply
  <2> QED BY <1>2, <2>1, WordsAreNotStates
<1>5. CASE got # <<>> /\ ~(o.expects /\ Matches(c, got) = {})
  <2>1. CASE o.then = "compare"
    <3>1. FirstReply(c, got) \in {Then(c, "poll"), Return("false")}
      BY <1>5, <2>1 DEF FirstReply
    <3> QED BY <1>1, <1>2, <3>1, WordsAreNotStates
  <2>2. CASE o.then = "return" /\ c.cmd \in {"status", "value"}
    <3>1. FirstReply(c, got) = Return(FirstValue(c, got))
      BY <1>5, <2>2 DEF FirstReply
    <3>2. Matches(c, got) # {}
      BY <1>0, <1>5, <2>2
    <3>3. PICK i \in Matches(c, got) : i \in DOMAIN got /\ FirstValue(c, got) = got[i].val
      BY <3>2, FirstValueIsThere
    <3>4. got[i].form \in {"value", "status"}
      BY <2>2, <3>3 DEF Matches
    <3>5. Tells(got, FirstValue(c, got))
      BY <3>3, <3>4 DEF Tells
    <3>6. c.goal \notin Goals
      BY <1>0, <2>2
    <3> QED BY <3>1, <3>5, <3>6, ReturnShape DEF Continues, Honest
  <2>3. CASE o.then = "return" /\ c.cmd \notin {"status", "value"}
    <3>1. FirstReply(c, got) \in {Return("true"), Return("text")}
      BY <1>5, <2>3 DEF FirstReply
    <3>2. c.goal \notin Goals
      BY <1>0, <2>3
    <3> QED BY <1>2, <3>1, <3>2, WordsAreNotStates
  <2>4. CASE o.then \notin {"compare", "return"}
    <3>1. FirstReply(c, got) = Then(c, o.then)
      BY <1>5, <2>4 DEF FirstReply
    <3> HIDE DEF o
    <3> QED BY <1>0, <1>1, <2>4, <3>1
  <2> QED BY <2>1, <2>2, <2>3, <2>4
<1> QED BY <1>3, <1>4, <1>5

\* Every response.
LEMMA Responds ==
    ASSUME NEW c \in ActiveCalls, Formed(c), c.op \in Requests, NEW got \in Seq(Lines)
    PROVE  Continues(c, Respond(c, got)) /\ Honest(c, got, Respond(c, got))
<1>1. CASE c.op = "waitForReply" /\ c.cmd = "poll"
  <2>1. Respond(c, got) = WaitForReply(c, got)
    BY <1>1 DEF Respond
  <2> QED BY <1>1, <2>1, WaitResponds
<1>2. CASE c.op = "setSpeedScaling" /\ c.cmd = "check"
  <2>1. Respond(c, got) = CheckScaling(c, got)
    BY <1>2 DEF Respond
  <2> QED BY <1>2, <2>1, CheckResponds
<1>3. CASE c.op \in Names /\ c.cmd = Op[c.op].cmd /\ c.cmd \notin {"poll", "check"}
  <2>1. Respond(c, got) = FirstReply(c, got)
    BY <1>3 DEF Respond
  <2> QED BY <1>3, <2>1, FirstResponds
<1> QED BY <1>1, <1>2, <1>3, RequestForms

----------------------------------------------------------------------------
(* Types.                                                                   *)

\* A call that goes to another place.
LEMMA PlaceChanges ==
    ASSUME NEW c \in ActiveCalls, NEW p \in Places
    PROVE  LET d == [c EXCEPT !.pc = p]
           IN  /\ d \in ActiveCalls /\ d.pc = p /\ d.op = c.op /\ d.cmd = c.cmd
               /\ d.goal = c.goal /\ d.n = c.n /\ d.seen = c.seen
BY DEF ActiveCalls

\* The operations that are not requests.
LEMMA OtherOperations ==
    ASSUME NEW c \in ActiveCalls
    PROVE  c.op \in Requests \/ c.op \in {"connect", "sendAndReceive"}
BY OperationTable DEF ActiveCalls, Bare, Requests

\* What the robot answers.
LEMMA RepliesShape ==
    ASSUME NEW o \in Requested, state \in States, NEW r \in Replies(o)
    PROVE  /\ r \in Seq(Lines) /\ Len(r) \in {1, 2}
           /\ \A i \in DOMAIN r : r[i].n = o.n /\ (r[i].form \in {"value", "status"} => r[i].val = state)
<1> DEFINE line(form, val) == [n |-> o.n, form |-> form, val |-> val]
<1>1. ASSUME NEW f \in {"hello", "ack", "value", "text", "status"}, NEW v \in States \cup {NoGoal}
      PROVE  line(f, v) \in Lines /\ line(f, v).n = o.n /\ line(f, v).form = f /\ line(f, v).val = v
  BY DEF Lines, Requested
<1>2. o.goal \in States \cup {NoGoal}
  BY DashboardNames DEF Requested
<1>3. \/ r = <<line("hello", NoGoal)>> \/ r = <<line("ack", o.goal)>> \/ r = <<line("ack", NoGoal)>>
      \/ r = <<line("value", state)>> \/ r = <<line("text", NoGoal), line("status", state)>>
      \/ r = <<line("text", NoGoal)>> \/ r = <<line("text", NoGoal), line("text", NoGoal)>>
  BY DEF Replies
<1> HIDE DEF line
<1>4. ASSUME NEW a \in Lines, NEW b \in Lines
      PROVE  /\ <<a>> \in Seq(Lines) /\ Len(<<a>>) = 1 /\ DOMAIN <<a>> = {1} /\ <<a>>[1] = a
             /\ <<a, b>> \in Seq(Lines) /\ Len(<<a, b>>) = 2 /\ DOMAIN <<a, b>> = {1, 2}
             /\ <<a, b>>[1] = a /\ <<a, b>>[2] = b
  OBVIOUS
<1>5. ASSUME NEW f \in {"hello", "ack", "value", "text"}, NEW v \in States \cup {NoGoal},
             f = "value" => v = state, r = <<line(f, v)>>
      PROVE  /\ r \in Seq(Lines) /\ Len(r) \in {1, 2}
             /\ \A i \in DOMAIN r : r[i].n = o.n /\ (r[i].form \in {"value", "status"} => r[i].val = state)
  BY <1>1, <1>4, <1>5
<1>6. ASSUME NEW f \in {"text", "status"}, NEW v \in States \cup {NoGoal},
             f = "status" => v = state, r = <<line("text", NoGoal), line(f, v)>>
      PROVE  /\ r \in Seq(Lines) /\ Len(r) \in {1, 2}
             /\ \A i \in DOMAIN r : r[i].n = o.n /\ (r[i].form \in {"value", "status"} => r[i].val = state)
  BY <1>1, <1>4, <1>6
<1> QED BY <1>2, <1>3, <1>5, <1>6

\* Only thread t changes what it does.
OnlyCall(t) == DOMAIN call' = Threads /\ \A u \in Threads \ {t} : call'[u] = call[u]

\* A thread goes on with its call, or ends it.
LEMMA CallOfOne ==
    ASSUME CallInv, NEW t \in Threads, OnlyCall(t), state' = state,
           call'[t].pc # "idle" =>
              call'[t] \in ActiveCalls /\ Formed(call'[t]) /\ state \in call'[t].seen
    PROVE  CallInv'
<1> SUFFICES ASSUME NEW u \in Threads, call'[u].pc # "idle"
             PROVE  call'[u] \in ActiveCalls /\ Formed(call'[u]) /\ state' \in call'[u].seen
  BY DEF CallInv, OnlyCall, Formed
<1>1. CASE u = t
  BY <1>1
<1>2. CASE u # t
  BY <1>2 DEF CallInv, OnlyCall
<1> QED BY <1>1, <1>2

\* An assignment to one thread's call.
LEMMA CallAssigned ==
    ASSUME DOMAIN call = Threads, NEW t \in Threads, NEW c, call' = [call EXCEPT ![t] = c]
    PROVE  OnlyCall(t) /\ call'[t] = c
BY DEF OnlyCall

\* A call that leaves gives the mutex back, and no other's.
LEMMA LeavesShape ==
    ASSUME TypeInv, NEW t \in Threads, NEW c, Leaves(t, c)
    PROVE  /\ OnlyCall(t) /\ call'[t] = c /\ mutex' \in Threads \cup {None}
           /\ \A u \in Threads \ {t} : mutex = u => mutex' = u
BY CallAssigned DEF Leaves, TypeInv, CallInv

\* Dropping the socket aborts the reads on it.
LEMMA DropShape ==
    ASSUME NEW new, NEW c, DOMAIN c = Threads, DropSocket(new, c),
           \A t \in Threads :
              c[t].pc # "idle" => c[t] \in ActiveCalls /\ Formed(c[t]) /\ state \in c[t].seen
    PROVE  /\ DOMAIN call' = Threads
           /\ \A t \in Threads :
                 /\ call'[t].pc # "idle" =>
                       call'[t] \in ActiveCalls /\ Formed(call'[t]) /\ state \in call'[t].seen
                 /\ call'[t].pc # "idle" <=> c[t].pc # "idle"
                 /\ c[t].pc # "idle" => call'[t].op = c[t].op
                 /\ c[t].pc # "read" => call'[t] = c[t]
                 /\ c[t].pc = "read" => call'[t].pc = "aborted"
<1>1. /\ DOMAIN call' = Threads
      /\ \A t \in Threads : call'[t] = IF c[t].pc = "read" THEN [c[t] EXCEPT !.pc = "aborted"] ELSE c[t]
  BY DEF DropSocket
<1> SUFFICES ASSUME NEW t \in Threads
             PROVE  /\ call'[t].pc # "idle" =>
                          call'[t] \in ActiveCalls /\ Formed(call'[t]) /\ state \in call'[t].seen
                    /\ call'[t].pc # "idle" <=> c[t].pc # "idle"
                    /\ c[t].pc # "idle" => call'[t].op = c[t].op
                    /\ c[t].pc # "read" => call'[t] = c[t]
                    /\ c[t].pc = "read" => call'[t].pc = "aborted"
  BY <1>1
<1>2. CASE c[t].pc # "read"
  BY <1>1, <1>2
<1>3. CASE c[t].pc = "read"
  <2>1. PICK d : d = [c[t] EXCEPT !.pc = "aborted"]
    OBVIOUS
  <2>2. call'[t] = d
    BY <1>1, <1>3, <2>1
  <2>3. c[t] \in ActiveCalls /\ Formed(c[t]) /\ state \in c[t].seen
    BY <1>3
  <2>4. /\ d \in ActiveCalls /\ d.pc = "aborted" /\ d.op = c[t].op /\ d.cmd = c[t].cmd
        /\ d.goal = c[t].goal /\ d.n = c[t].n /\ d.seen = c[t].seen
    BY <2>1, <2>3, PlaceChanges DEF Places
  <2>5. Formed(d)
    BY <2>3, <2>4 DEF Formed
  <2> QED BY <1>3, <2>2, <2>3, <2>4, <2>5
<1> QED BY <1>2, <1>3

----------------------------------------------------------------------------
(* Steps of one thread that leave the other calls alone.                    *)

\* At most one thread uses the connection.
LEMMA OneUser ==
    ASSUME TypeInv, Calm, taint = {}, NEW t \in Threads, NEW u \in Threads, Awaits(t),
           call[u].pc \in {"dial", "send", "start", "read"}
    PROVE  u = t
<1>1. /\ call[t].op \in Requests \/ call[t].op \in {"connect", "sendAndReceive"}
      /\ call[u].op \in Requests \/ call[u].op \in {"connect", "sendAndReceive"}
      /\ call[u].op \in Requests => call[u].pc # "dial"
  BY OtherOperations DEF TypeInv, CallInv, Awaits, Formed
<1>2. CASE call[t].op \in Bare \/ call[u].op \in Bare
  BY <1>2 DEF Calm, Alone, Awaits
<1>3. CASE ~(call[t].op \in Bare \/ call[u].op \in Bare)
  <2>1. call[t].op \in Requests /\ call[u].op \in Requests
    BY <1>1, <1>3 DEF Bare
  <2> QED BY <1>1, <2>1 DEF Calm, Awaits
<1> QED BY <1>2, <1>3

\* The thread uses the socket only as Calm allows.
LEMMA CalmOfOne ==
    ASSUME TypeInv, Calm, NEW t \in Threads, OnlyCall(t), crashed' = crashed, taint \subseteq taint',
           socket # "null" => socket' # "null",
           \A u \in Threads \ {t} : mutex = u => mutex' = u,
           call'[t].pc # "idle" => call[t].pc # "idle",
           call'[t].pc # "idle" /\ call'[t].op \in Bare => call[t].op \in Bare,
           taint \cap {"overlap", "unconnected"} = {} =>
              /\ call'[t].pc \in {"dial", "send", "start", "read"} => socket' # "null"
              /\ call'[t].pc \in {"send", "start", "read"} /\ call'[t].op \in Requests => mutex' = t
    PROVE  Calm'
<1> SUFFICES ASSUME taint' \cap {"overlap", "unconnected"} = {}
             PROVE  /\ ~crashed'
                    /\ \A u \in Threads :
                          /\ call'[u].pc # "idle" /\ call'[u].op \in Bare =>
                                \A v \in Threads \ {u} : call'[v].pc = "idle"
                          /\ call'[u].pc \in {"dial", "send", "start", "read"} => socket' # "null"
                          /\ call'[u].pc \in {"send", "start", "read"} /\ call'[u].op \in Requests =>
                                mutex' = u
  BY DEF Calm, Alone
<1>1. taint \cap {"overlap", "unconnected"} = {}
  OBVIOUS
<1>2. ~crashed'
  BY <1>1 DEF Calm
<1>3. ASSUME NEW u \in Threads, call'[u].pc # "idle", call'[u].op \in Bare,
             NEW v \in Threads \ {u}
      PROVE  call'[v].pc = "idle"
  <2>1. call[u].pc # "idle" /\ call[u].op \in Bare
    BY <1>3 DEF OnlyCall
  <2>2. call[v].pc = "idle"
    BY <1>1, <1>3, <2>1 DEF Calm, Alone
  <2> QED BY <2>2 DEF OnlyCall
<1>4. ASSUME NEW u \in Threads, call'[u].pc \in {"dial", "send", "start", "read"}
      PROVE  socket' # "null"
  BY <1>1, <1>4 DEF Calm, OnlyCall
<1>5. ASSUME NEW u \in Threads, call'[u].pc \in {"send", "start", "read"}, call'[u].op \in Requests
      PROVE  mutex' = u
  BY <1>1, <1>5 DEF Calm, OnlyCall
<1> QED BY <1>2, <1>3, <1>4, <1>5

\* A step that sends and reads nothing.
LEMMA InStepOfOne ==
    ASSUME InStep, NEW t \in Threads, OnlyCall(t), UNCHANGED <<inbox, late, orders>>,
           taint \subseteq taint',
           call'[t].pc \in {"start", "read"} =>
              Awaits(t) /\ call'[t].n = call[t].n /\ call'[t].seen = call[t].seen,
           taint = {} /\ Awaits(t) /\ call'[t].pc \notin {"start", "read"} =>
              inbox = <<>> /\ late = <<>> /\ orders = <<>>
    PROVE  InStep'
<1> SUFFICES ASSUME taint = {}
             PROVE  /\ (\A u \in Threads : call'[u].pc \notin {"start", "read"}) =>
                          inbox = <<>> /\ late = <<>> /\ orders = <<>>
                    /\ \A u \in Threads : call'[u].pc \in {"start", "read"} =>
                          /\ \A i \in DOMAIN inbox :
                                /\ inbox[i].n = call'[u].n
                                /\ inbox[i].form \in {"value", "status"} =>
                                      inbox[i].val \in call'[u].seen
                          /\ \A i \in DOMAIN late :
                                /\ late[i].n = call'[u].n
                                /\ late[i].form \in {"value", "status"} => late[i].val \in call'[u].seen
                          /\ \A i \in DOMAIN orders : orders[i].n = call'[u].n
                    /\ orders # <<>> => Len(orders) = 1 /\ inbox = <<>> /\ late = <<>>
  BY DEF InStep, Ours, Awaits
<1>1. ASSUME NEW u \in Threads, call'[u].pc \in {"start", "read"}
      PROVE  Awaits(u) /\ call'[u].n = call[u].n /\ call'[u].seen = call[u].seen
  BY <1>1 DEF OnlyCall, Awaits
<1>2. \A u \in Threads : call'[u].pc \in {"start", "read"} =>
                          /\ \A i \in DOMAIN inbox :
                                /\ inbox[i].n = call'[u].n
                                /\ inbox[i].form \in {"value", "status"} =>
                                      inbox[i].val \in call'[u].seen
                          /\ \A i \in DOMAIN late :
                                /\ late[i].n = call'[u].n
                                /\ late[i].form \in {"value", "status"} => late[i].val \in call'[u].seen
                          /\ \A i \in DOMAIN orders : orders[i].n = call'[u].n
  BY <1>1 DEF InStep, Ours
<1>3. ASSUME \A u \in Threads : call'[u].pc \notin {"start", "read"}
      PROVE  inbox = <<>> /\ late = <<>> /\ orders = <<>>
  <2>1. CASE Awaits(t)
    BY <1>3, <2>1
  <2>2. CASE ~Awaits(t)
    BY <1>3, <2>2 DEF InStep, OnlyCall, Awaits
  <2> QED BY <2>1, <2>2
<1> QED BY <1>2, <1>3 DEF InStep

\* Nothing is on its way after the socket was dropped.
LEMMA InStepEmpty ==
    ASSUME inbox' = <<>>, late' = <<>>, orders' = <<>>
    PROVE  InStep'
BY DEF InStep

\* Begin: a call starts.
LEMMA BeginKeeps ==
    ASSUME DashInv, NEW t \in Threads, NEW o \in Names \cup Bare, NEW g \in Goals \cup {NoGoal},
           Begin(t, o, g)
    PROVE  DashInv'
<1>0. TypeInv /\ Calm /\ InStep /\ CallInv
  BY DEF DashInv, TypeInv
<1> DEFINE pc0 == IF o = "sendAndReceive" THEN "send" ELSE "lock"
           cmd0 == IF o \in Names THEN Op[o].cmd ELSE IF o = "connect" THEN "hello" ELSE "text"
           over == IF Overlaps(t, o) THEN {"overlap"} ELSE {}
           unc == IF o = "sendAndReceive" /\ socket = "null" THEN {"unconnected"} ELSE {}
<1>1. PICK c : c = [pc |-> pc0, op |-> o, cmd |-> cmd0, goal |-> g, n |-> 0, polls |-> MaxPolls,
                    res |-> "none", seen |-> {state}]
  OBVIOUS
<1>2. /\ call' = [call EXCEPT ![t] = c] /\ call[t].pc = "idle" /\ ~crashed
      /\ taint' = taint \cup over \cup unc
      /\ g \in Goals <=> o \in Orders
      /\ UNCHANGED <<socket, mutex, inbox, sent, crashed, orders, late, state>>
  BY <1>1 DEF Begin, robotVars
<1>3. OnlyCall(t) /\ call'[t] = c
  BY <1>0, <1>2, CallAssigned DEF CallInv
<1>4. c.pc = pc0 /\ c.op = o /\ c.cmd = cmd0 /\ c.goal = g /\ c.n = 0 /\ c.seen = {state}
  BY <1>1
<1>5. c \in ActiveCalls
  <2>1. pc0 \in Places /\ cmd0 \in Commands
    BY OperationTable DEF Places, Commands
  <2>2. o \in Requests \cup Bare /\ MaxPolls \in Nat /\ {state} \in SUBSET States
    BY <1>0, DashboardBounds DEF Requests, TypeInv
  <2> HIDE DEF pc0, cmd0
  <2> QED BY <1>1, <2>1, <2>2 DEF ActiveCalls
<1>6. Formed(c)
  BY <1>2, <1>4, OperationTable DEF Formed, Orders, Bare, Requests
<1>7. TypeInv'
  <2>1. CallInv'
    BY <1>0, <1>2, <1>3, <1>4, <1>5, <1>6, CallOfOne
  <2> QED BY <1>0, <1>2, <2>1 DEF TypeInv
<1>8. Calm'
  <2> SUFFICES ASSUME taint' \cap {"overlap", "unconnected"} = {}
               PROVE  /\ ~crashed
                      /\ \A u \in Threads :
                          /\ call'[u].pc # "idle" /\ call'[u].op \in Bare =>
                                \A v \in Threads \ {u} : call'[v].pc = "idle"
                          /\ call'[u].pc \in {"dial", "send", "start", "read"} => socket # "null"
                          /\ call'[u].pc \in {"send", "start", "read"} /\ call'[u].op \in Requests =>
                                mutex = u
    BY <1>2 DEF Calm, Alone
  <2>1. /\ taint \cap {"overlap", "unconnected"} = {} /\ ~Overlaps(t, o)
        /\ ~(o = "sendAndReceive" /\ socket = "null")
    BY <1>2
  <2>2. \A u \in Threads \ {t} :
          /\ call'[u] = call[u]
          /\ call[u].pc # "idle" => o \notin Bare /\ call[u].op \notin Bare
    BY <1>3, <2>1 DEF Overlaps, OnlyCall
  <2>3. ASSUME NEW u \in Threads, call'[u].pc # "idle", call'[u].op \in Bare, NEW v \in Threads \ {u}
        PROVE  call'[v].pc = "idle"
    <3>1. CASE u = t
      BY <1>3, <1>4, <2>2, <2>3, <3>1
    <3>2. CASE u # t
      BY <2>2, <2>3, <3>2
    <3> QED BY <3>1, <3>2
  <2>4. ASSUME NEW u \in Threads, call'[u].pc \in {"dial", "send", "start", "read"}
        PROVE  socket # "null"
    BY <1>0, <1>3, <1>4, <2>1, <2>2, <2>4 DEF Calm
  <2>5. ASSUME NEW u \in Threads, call'[u].pc \in {"send", "start", "read"}, call'[u].op \in Requests
        PROVE  mutex = u
    BY <1>0, <1>3, <1>4, <2>1, <2>2, <2>5, OperationTable DEF Calm
  <2> QED BY <1>2, <2>3, <2>4, <2>5
<1>9. InStep'
  <2>1. call'[t].pc \notin {"start", "read"} /\ ~Awaits(t)
    BY <1>2, <1>3, <1>4 DEF Awaits
  <2> QED BY <1>0, <1>2, <1>3, <2>1, InStepOfOne
<1> QED BY <1>7, <1>8, <1>9 DEF DashInv

\* The calls of the threads after a step, as one record of facts about one thread.
LEMMA ActiveParts ==
    ASSUME TypeInv, NEW t \in Threads, call[t].pc # "idle"
    PROVE  call[t] \in ActiveCalls /\ Formed(call[t]) /\ state \in call[t].seen
BY DEF TypeInv, CallInv

\* Dial: the connection is made, refused, or not waited for any more.
LEMMA DialKeeps ==
    ASSUME DashInv, NEW t \in Threads, Dial(t)
    PROVE  DashInv'
<1>0. TypeInv /\ Calm /\ InStep /\ CallInv
  BY DEF DashInv, TypeInv
<1>1. /\ call[t].pc = "dial" /\ call[t] \in ActiveCalls /\ Formed(call[t])
      /\ state \in call[t].seen /\ call[t].op = "connect" /\ call[t].n = 0
  BY <1>0, ActiveParts, OtherOperations DEF Dial, Formed
<1>2. ASSUME NEW r \in {"true", "false"}
      PROVE  LET d == [call[t] EXCEPT !.pc = "start", !.res = r]
             IN  /\ d \in ActiveCalls /\ d.pc = "start" /\ d.op = "connect" /\ d.n = 0
                 /\ d.seen = call[t].seen /\ Formed(d)
  <2>1. PICK d : d = [call[t] EXCEPT !.pc = "start", !.res = r]
    OBVIOUS
  <2>2. /\ d \in ActiveCalls /\ d.pc = "start" /\ d.op = "connect" /\ d.n = 0
        /\ d.seen = call[t].seen /\ d.goal = call[t].goal
    BY <1>1, <2>1 DEF ActiveCalls, Places
  <2>3. Formed(d)
    BY <1>1, <2>2, OperationTable DEF Formed
  <2> QED BY <2>1, <2>2, <2>3
<1>3. PICK d :
              /\ Leaves(t, d)
              /\ d.pc = "start" \/ d.pc = "idle"
              /\ d.pc = "start" => /\ d \in ActiveCalls /\ d.op = "connect" /\ d.n = 0
                                   /\ d.seen = call[t].seen /\ Formed(d)
              /\ socket = socket' \/ (socket = "dialing" /\ socket' \in {"up", "down"})
              /\ \/ orders' = orders
                 \/ /\ orders' = <<[n |-> 0, cmd |-> "hello", goal |-> NoGoal]>> /\ d.pc = "start"
                    /\ socket = "dialing" /\ socket' = "up"
  BY <1>2, ReturnShape DEF Dial, Leaves
<1>4. UNCHANGED <<inbox, sent, crashed, late, state, taint>>
  BY DEF Dial
<1>5. /\ OnlyCall(t) /\ call'[t] = d /\ mutex' \in Threads \cup {None}
      /\ \A u \in Threads \ {t} : mutex = u => mutex' = u
  BY <1>0, <1>3, LeavesShape
<1>6. TypeInv'
  <2>1. CallInv'
    BY <1>0, <1>1, <1>3, <1>4, <1>5, CallOfOne
  <2>2. [n |-> 0, cmd |-> "hello", goal |-> NoGoal] \in Requested
    BY DEF Requested, Commands
  <2>3. orders' \in Seq(Requested)
    <3>1. \A o \in Requested : <<o>> \in Seq(Requested)
      OBVIOUS
    <3>2. orders \in Seq(Requested)
      BY <1>0 DEF TypeInv
    <3> QED BY <1>3, <2>2, <3>1, <3>2
  <2>4. socket' # "up" => orders' = <<>> /\ late' = <<>>
    BY <1>0, <1>3, <1>4 DEF TypeInv
  <2> QED BY <1>0, <1>3, <1>4, <1>5, <2>1, <2>3, <2>4 DEF TypeInv
<1>7. Calm'
  <2>1. taint \cap {"overlap", "unconnected"} = {} => socket # "null"
    BY <1>0, <1>1 DEF Calm
  <2>2. socket # "null" => socket' # "null"
    BY <1>3
  <2>3. d.pc # "idle" => d.op \notin Requests
    BY <1>3, OperationTable
  <2> QED BY <1>0, <1>1, <1>3, <1>4, <1>5, <2>1, <2>2, <2>3, CalmOfOne
<1>8. InStep'
  <2> SUFFICES ASSUME taint = {} PROVE InStep'
    BY <1>4 DEF InStep
  <2>1. \A u \in Threads \ {t} : call[u].pc = "idle"
    BY <1>0, <1>1 DEF Calm, Alone, Bare
  <2>2. inbox = <<>> /\ late = <<>> /\ orders = <<>>
    BY <1>0, <1>1, <2>1 DEF InStep, Awaits
  <2>3. CASE orders' = orders
    BY <1>4, <2>2, <2>3, InStepEmpty
  <2>4. CASE orders' # orders
    <3>1. orders' = <<[n |-> 0, cmd |-> "hello", goal |-> NoGoal]>> /\ d.pc = "start" /\ d.n = 0
      BY <1>3, <2>4
    <3>2. Len(orders') = 1 /\ DOMAIN orders' = {1} /\ orders'[1].n = 0
      BY <3>1
    <3>3. \A u \in Threads : Awaits(u)' => u = t
      BY <1>5, <2>1 DEF OnlyCall, Awaits
    <3>4. Awaits(t)'
      BY <1>5, <3>1 DEF Awaits
    <3> QED BY <1>4, <1>5, <2>2, <3>1, <3>2, <3>3, <3>4 DEF InStep
  <2> QED BY <2>3, <2>4
<1> QED BY <1>6, <1>7, <1>8 DEF DashInv

\* RequestLocks: the mutex is taken, or the response is empty.
LEMMA RequestLocksKeeps ==
    ASSUME DashInv, NEW t \in Threads, RequestLocks(t)
    PROVE  DashInv'
<1>0. TypeInv /\ Calm /\ InStep /\ CallInv
  BY DEF DashInv, TypeInv
<1>1. /\ call[t].pc = "lock" /\ call[t].op \in Requests /\ mutex = None
      /\ UNCHANGED <<socket, inbox, sent, crashed, orders, late, state, taint>>
      /\ call[t] \in ActiveCalls /\ Formed(call[t]) /\ state \in call[t].seen
  BY <1>0, ActiveParts DEF RequestLocks, robotVars
<1>2. CASE socket = "null"
  <2>1. PICK d : d = Respond(call[t], <<>>)
    OBVIOUS
  <2>2. Leaves(t, d)
    BY <1>2, <2>1 DEF RequestLocks, Leaves
  <2>3. Continues(call[t], d)
    <3>1. <<>> \in Seq(Lines)
      BY EmptySeq
    <3> QED BY <1>1, <2>1, <3>1, Responds
  <2>4. /\ OnlyCall(t) /\ call'[t] = d /\ mutex' \in Threads \cup {None}
        /\ \A u \in Threads \ {t} : mutex = u => mutex' = u
    BY <1>0, <2>2, LeavesShape
  <2>5. TypeInv'
    <3>1. CallInv'
      BY <1>0, <1>1, <2>3, <2>4, CallOfOne DEF Continues
    <3> QED BY <1>0, <1>1, <2>4, <3>1 DEF TypeInv
  <2>6. Calm'
    BY <1>0, <1>1, <2>3, <2>4, CalmOfOne DEF Continues
  <2>7. InStep'
    <3>1. ~Awaits(t) /\ call'[t].pc \notin {"start", "read"}
      BY <1>1, <2>3, <2>4 DEF Awaits, Continues
    <3> QED BY <1>0, <1>1, <2>4, <3>1, InStepOfOne
  <2> QED BY <2>5, <2>6, <2>7 DEF DashInv
<1>3. CASE socket # "null"
  <2>1. PICK d : d = [call[t] EXCEPT !.pc = "send"]
    OBVIOUS
  <2>2. mutex' = t /\ call' = [call EXCEPT ![t] = d]
    BY <1>3, <2>1 DEF RequestLocks
  <2>3. /\ d \in ActiveCalls /\ d.pc = "send" /\ d.op = call[t].op /\ d.cmd = call[t].cmd
        /\ d.goal = call[t].goal /\ d.n = call[t].n /\ d.seen = call[t].seen
    BY <1>1, <2>1, PlaceChanges DEF Places
  <2>4. Formed(d)
    BY <1>1, <2>3, OperationTable DEF Formed
  <2>5. OnlyCall(t) /\ call'[t] = d
    BY <1>0, <2>2, CallAssigned DEF CallInv
  <2>6. TypeInv'
    <3>1. CallInv'
      BY <1>0, <1>1, <2>3, <2>4, <2>5, CallOfOne
    <3> QED BY <1>0, <1>1, <2>2, <3>1 DEF TypeInv
  <2>7. Calm'
    <3>1. \A u \in Threads \ {t} : mutex # u
      BY <1>1, DashboardNames
    <3> QED BY <1>0, <1>1, <1>3, <2>2, <2>3, <2>5, <3>1, CalmOfOne
  <2>8. InStep'
    <3>1. ~Awaits(t) /\ call'[t].pc \notin {"start", "read"}
      BY <1>1, <2>3, <2>5 DEF Awaits
    <3> QED BY <1>0, <1>1, <2>5, <3>1, InStepOfOne
  <2> QED BY <2>6, <2>7, <2>8 DEF DashInv
<1> QED BY <1>2, <1>3

\* SendCommand: the command is sent, or the call throws, or the socket is null.
LEMMA SendCommandKeeps ==
    ASSUME DashInv, NEW t \in Threads, SendCommand(t)
    PROVE  DashInv'
<1>0. TypeInv /\ Calm /\ InStep /\ CallInv
  BY DEF DashInv, TypeInv
<1>1. /\ call[t].pc = "send" /\ UNCHANGED <<socket, inbox, late, state, taint>>
      /\ call[t] \in ActiveCalls /\ Formed(call[t]) /\ state \in call[t].seen
  BY <1>0, ActiveParts DEF SendCommand
<1>2. CASE socket = "null"
  <2>1. crashed' = TRUE /\ UNCHANGED <<mutex, call, sent, orders>>
    BY <1>2 DEF SendCommand
  <2>2. taint \cap {"overlap", "unconnected"} # {}
    BY <1>0, <1>1, <1>2 DEF Calm
  <2>3. TypeInv'
    BY <1>0, <1>1, <2>1 DEF TypeInv, CallInv
  <2>4. Calm' /\ InStep'
    BY <1>1, <2>2 DEF Calm, InStep
  <2> QED BY <2>3, <2>4 DEF DashInv
<1>3. CASE socket \in {"dialing", "down"}
  <2>1. PICK d : d = Return("thrown")
    OBVIOUS
  <2>2. Leaves(t, d) /\ UNCHANGED <<crashed, sent, orders>>
    BY <1>3, <2>1 DEF SendCommand, Leaves
  <2>3. d.pc = "idle"
    BY <2>1, ReturnShape
  <2>4. /\ OnlyCall(t) /\ call'[t] = d /\ mutex' \in Threads \cup {None}
        /\ \A u \in Threads \ {t} : mutex = u => mutex' = u
    BY <1>0, <2>2, LeavesShape
  <2>5. TypeInv'
    <3>1. CallInv'
      BY <1>0, <1>1, <2>3, <2>4, CallOfOne
    <3> QED BY <1>0, <1>1, <2>2, <2>4, <3>1 DEF TypeInv
  <2>6. Calm'
    BY <1>0, <1>1, <2>2, <2>3, <2>4, CalmOfOne
  <2>7. InStep'
    <3>1. ~Awaits(t) /\ call'[t].pc \notin {"start", "read"}
      BY <1>1, <2>3, <2>4 DEF Awaits
    <3> QED BY <1>0, <1>1, <2>2, <2>4, <3>1, InStepOfOne
  <2> QED BY <2>5, <2>6, <2>7 DEF DashInv
<1>4. CASE socket = "up"
  <2>1. PICK d : d = [[call[t] EXCEPT !.pc = "start"] EXCEPT !.n = sent + 1]
    OBVIOUS
  <2>2. PICK o : o = [n |-> sent + 1, cmd |-> call[t].cmd, goal |-> call[t].goal]
    OBVIOUS
  <2>3. /\ sent' = sent + 1 /\ orders' = Append(orders, o) /\ call' = [call EXCEPT ![t] = d]
        /\ UNCHANGED <<crashed, mutex>>
    BY <1>4, <2>1, <2>2 DEF SendCommand
  <2>4. /\ d \in ActiveCalls /\ d.pc = "start" /\ d.op = call[t].op /\ d.cmd = call[t].cmd
        /\ d.goal = call[t].goal /\ d.n = sent + 1 /\ d.seen = call[t].seen
        /\ o \in Requested /\ o.n = sent + 1
    <3>1. sent + 1 \in Nat
      BY <1>0 DEF TypeInv
    <3>2. PICK e : e = [call[t] EXCEPT !.pc = "start"]
      OBVIOUS
    <3>3. /\ e \in ActiveCalls /\ e.pc = "start" /\ e.op = call[t].op /\ e.cmd = call[t].cmd
          /\ e.goal = call[t].goal /\ e.seen = call[t].seen
      BY <1>1, <3>2, PlaceChanges DEF Places
    <3>4. d = [e EXCEPT !.n = sent + 1]
      BY <2>1, <3>2
    <3>5. o \in Requested /\ o.n = sent + 1
      BY <1>1, <2>2, <3>1 DEF ActiveCalls, Requested
    <3> QED BY <3>1, <3>3, <3>4, <3>5 DEF ActiveCalls
  <2>5. OnlyCall(t) /\ call'[t] = d
    BY <1>0, <2>3, CallAssigned DEF CallInv
  <2>6. call[t].op # "connect"
    BY <1>1 DEF Formed
  <2>7. Formed(d)
    BY <1>1, <2>4, <2>6 DEF Formed
  <2>8. TypeInv'
    <3>1. CallInv'
      BY <1>0, <1>1, <2>4, <2>5, <2>7, CallOfOne
    <3>2. orders' \in Seq(Requested)
      BY <1>0, <2>3, <2>4, AppendProperties DEF TypeInv
    <3> QED BY <1>0, <1>1, <1>4, <2>3, <3>1, <3>2 DEF TypeInv
  <2>9. Calm'
    <3>1. taint \cap {"overlap", "unconnected"} = {} =>
            socket' # "null" /\ (call'[t].op \in Requests => mutex' = t)
      BY <1>0, <1>1, <2>3, <2>4, <2>5 DEF Calm
    <3> QED BY <1>0, <1>1, <2>3, <2>4, <2>5, <3>1, CalmOfOne
  <2>10. InStep'
    <3> SUFFICES ASSUME taint = {} PROVE InStep'
      BY <1>1 DEF InStep
    <3>1. \A u \in Threads : ~Awaits(u)
      BY <1>0, <1>1, OneUser DEF Awaits
    <3>2. inbox = <<>> /\ late = <<>> /\ orders = <<>>
      BY <1>0, <3>1 DEF InStep
    <3>3. Len(orders') = 1 /\ DOMAIN orders' = {1} /\ orders'[1].n = call'[t].n
      BY <2>3, <2>4, <2>5, <3>2
    <3>4. \A u \in Threads : Awaits(u)' => u = t
      BY <2>5, <3>1 DEF OnlyCall, Awaits
    <3>5. Awaits(t)'
      BY <2>4, <2>5 DEF Awaits
    <3> QED BY <1>1, <3>2, <3>3, <3>4, <3>5 DEF InStep
  <2> QED BY <2>8, <2>9, <2>10 DEF DashInv
<1> QED BY <1>0, <1>2, <1>3, <1>4 DEF TypeInv

\* StartRead: the read is started, or the socket is null.
LEMMA StartReadKeeps ==
    ASSUME DashInv, NEW t \in Threads, StartRead(t)
    PROVE  DashInv'
<1>0. TypeInv /\ Calm /\ InStep /\ CallInv
  BY DEF DashInv, TypeInv
<1>1. /\ call[t].pc = "start"
      /\ UNCHANGED <<socket, mutex, inbox, sent, orders, late, state, taint>>
      /\ call[t] \in ActiveCalls /\ Formed(call[t]) /\ state \in call[t].seen
  BY <1>0, ActiveParts DEF StartRead, robotVars
<1>2. CASE socket = "null"
  <2>1. crashed' = TRUE /\ UNCHANGED call
    BY <1>2 DEF StartRead
  <2>2. taint \cap {"overlap", "unconnected"} # {}
    BY <1>0, <1>1, <1>2 DEF Calm
  <2>3. TypeInv'
    BY <1>0, <1>1, <2>1 DEF TypeInv, CallInv
  <2>4. Calm' /\ InStep'
    BY <1>1, <2>2 DEF Calm, InStep
  <2> QED BY <2>3, <2>4 DEF DashInv
<1>3. CASE socket # "null"
  <2>1. PICK d : d = [call[t] EXCEPT !.pc = "read"]
    OBVIOUS
  <2>2. crashed' = crashed /\ call' = [call EXCEPT ![t] = d]
    BY <1>3, <2>1 DEF StartRead
  <2>3. /\ d \in ActiveCalls /\ d.pc = "read" /\ d.op = call[t].op /\ d.cmd = call[t].cmd
        /\ d.goal = call[t].goal /\ d.n = call[t].n /\ d.seen = call[t].seen
    BY <1>1, <2>1, PlaceChanges DEF Places
  <2>4. Formed(d)
    BY <1>1, <2>3 DEF Formed
  <2>5. OnlyCall(t) /\ call'[t] = d
    BY <1>0, <2>2, CallAssigned DEF CallInv
  <2>6. TypeInv'
    <3>1. CallInv'
      BY <1>0, <1>1, <2>3, <2>4, <2>5, CallOfOne
    <3> QED BY <1>0, <1>1, <2>2, <3>1 DEF TypeInv
  <2>7. Calm'
    <3>1. taint \cap {"overlap", "unconnected"} = {} =>
            socket' # "null" /\ (call'[t].op \in Requests => mutex' = t)
      BY <1>0, <1>1, <2>3, <2>5 DEF Calm
    <3> QED BY <1>0, <1>1, <2>2, <2>3, <2>5, <3>1, CalmOfOne
  <2>8. InStep'
    <3>1. Awaits(t) /\ call'[t].pc = "read"
      BY <1>1, <2>3, <2>5 DEF Awaits
    <3> QED BY <1>0, <1>1, <2>3, <2>5, <3>1, InStepOfOne
  <2> QED BY <2>6, <2>7, <2>8 DEF DashInv
<1> QED BY <1>2, <1>3

\* ReadFails: the connection is closed, or the socket was dropped.
LEMMA ReadFailsKeeps ==
    ASSUME DashInv, NEW t \in Threads, ReadFails(t)
    PROVE  DashInv'
<1>0. TypeInv /\ Calm /\ InStep /\ CallInv
  BY DEF DashInv, TypeInv
<1>1. PICK d : d = Return("thrown")
  OBVIOUS
<1>2. /\ call[t].pc = "aborted" \/ (call[t].pc = "read" /\ socket = "down" /\ inbox = <<>>)
      /\ Leaves(t, d) /\ UNCHANGED <<socket, inbox, sent, crashed, orders, late, state, taint>>
  BY <1>1 DEF ReadFails, Leaves, robotVars
<1>3. d.pc = "idle"
  BY <1>1, ReturnShape
<1>4. /\ OnlyCall(t) /\ call'[t] = d /\ mutex' \in Threads \cup {None}
      /\ \A u \in Threads \ {t} : mutex = u => mutex' = u
  BY <1>0, <1>2, LeavesShape
<1>5. TypeInv'
  <2>1. CallInv'
    BY <1>0, <1>2, <1>3, <1>4, CallOfOne
  <2> QED BY <1>0, <1>2, <1>4, <2>1 DEF TypeInv
<1>6. Calm'
  BY <1>0, <1>2, <1>3, <1>4, CalmOfOne
<1>7. InStep'
  <2>1. Awaits(t) => inbox = <<>> /\ late = <<>> /\ orders = <<>>
    BY <1>0, <1>2 DEF Awaits, TypeInv
  <2>2. call'[t].pc \notin {"start", "read"}
    BY <1>3, <1>4
  <2> QED BY <1>0, <1>2, <1>4, <2>1, <2>2, InStepOfOne
<1> QED BY <1>5, <1>6, <1>7 DEF DashInv

\* What ReadLines does, for a thread and a number of lines.
LEMMA ReadLinesShape ==
    ASSUME TypeInv, NEW t \in Threads, ReadLines(t)
    PROVE  \E k \in 1..Len(inbox) : \E d :
              /\ inbox' = SubSeq(inbox, k + 1, Len(inbox))
              /\ taint' = IF k < Len(inbox) \/ late # <<>> THEN taint \cup {"cut"} ELSE taint
              /\ Leaves(t, d) /\ Continues(call[t], d)
              /\ Honest(call[t], SubSeq(inbox, 1, k), d)
<1>1. /\ call[t].pc = "read" /\ call[t] \in ActiveCalls /\ Formed(call[t])
      /\ inbox \in Seq(Lines) /\ Len(inbox) \in Nat
  BY ActiveParts, LenProperties DEF ReadLines, TypeInv
<1>2. PICK k \in 1..Len(inbox) :
          /\ inbox' = SubSeq(inbox, k + 1, Len(inbox))
          /\ taint' = IF k < Len(inbox) \/ late # <<>> THEN taint \cup {"cut"} ELSE taint
          /\ Leaves(t, CASE call[t].op = "connect" -> Return(call[t].res)
                         [] call[t].op = "sendAndReceive" -> Return("text")
                         [] OTHER -> Respond(call[t], SubSeq(inbox, 1, k)))
  BY DEF ReadLines
<1>3. PICK d : d = CASE call[t].op = "connect" -> Return(call[t].res)
                     [] call[t].op = "sendAndReceive" -> Return("text")
                     [] OTHER -> Respond(call[t], SubSeq(inbox, 1, k))
  OBVIOUS
<1>4. Leaves(t, d)
  BY <1>2, <1>3 DEF Leaves
<1>5. SubSeq(inbox, 1, k) \in Seq(Lines)
  <2>1. \A i \in 1..k : inbox[i] \in Lines
    BY <1>1, <1>2, LenProperties
  <2> QED BY <2>1, SubSeqProperties
<1>6. Continues(call[t], d) /\ Honest(call[t], SubSeq(inbox, 1, k), d)
  <2>1. CASE call[t].op = "connect"
    <3>1. d = Return(call[t].res)
      BY <1>3, <2>1
    <3>2. call[t].res \notin States
      BY <1>1, WordsAreNotStates DEF ActiveCalls
    <3>3. call[t].goal \notin Goals
      BY <1>1, <2>1, OperationTable DEF Formed, Orders, Requests
    <3> QED BY <3>1, <3>2, <3>3, ReturnShape DEF Continues, Honest
  <2>2. CASE call[t].op = "sendAndReceive"
    <3>1. d = Return("text")
      BY <1>3, <2>2
    <3> QED BY <3>1, ReturnShape, WordsAreNotStates DEF Continues, Honest
  <2>3. CASE call[t].op \notin {"connect", "sendAndReceive"}
    <3>1. d = Respond(call[t], SubSeq(inbox, 1, k))
      BY <1>3, <2>3
    <3>2. call[t].op \in Requests
      BY <1>1, <2>3, OtherOperations
    <3> QED BY <1>1, <1>5, <3>1, <3>2, Responds
  <2> QED BY <2>1, <2>2, <2>3
<1> QED BY <1>2, <1>4, <1>6

\* A place that is not before the end is the end.
LEMMA LastPlace == ASSUME NEW n \in Nat, NEW k \in 1..n, ~(k < n) PROVE k = n
OBVIOUS

\* A read that leaves the connection in step has taken the whole reply.
LEMMA WholeReply ==
    ASSUME DashInv, NEW t \in Threads, call[t].pc = "read", NEW k \in 1..Len(inbox),
           inbox' = SubSeq(inbox, k + 1, Len(inbox)), taint' = {},
           taint' = IF k < Len(inbox) \/ late # <<>> THEN taint \cup {"cut"} ELSE taint
    PROVE  /\ taint = {} /\ k = Len(inbox) /\ inbox' = <<>> /\ late = <<>> /\ orders = <<>>
           /\ \A i \in 1..Len(inbox) : Ours(t, inbox[i])
<1>1. /\ inbox \in Seq(Lines) /\ Len(inbox) \in Nat /\ DOMAIN inbox = 1..Len(inbox) /\ InStep
  BY LenProperties DEF DashInv, TypeInv
<1>2. taint = {} /\ k = Len(inbox) /\ late = <<>>
  <2>1. taint \cup {"cut"} # {}
    OBVIOUS
  <2>2. ~(k < Len(inbox) \/ late # <<>>)
    BY <2>1
  <2>3. taint' = taint
    BY <2>2
  <2>4. k = Len(inbox)
    BY <1>1, <2>2, LastPlace, Zenon
  <2> QED BY <2>2, <2>3, <2>4
<1>3. inbox' = <<>>
  BY <1>1, <1>2, SubSeqEmpty
<1>4. orders = <<>>
  <2>1. inbox # <<>>
    BY <1>1, EmptySeq
  <2> QED BY <1>1, <1>2, <2>1 DEF InStep
<1>5. \A i \in 1..Len(inbox) : Ours(t, inbox[i])
  BY <1>1, <1>2 DEF InStep, Awaits
<1> QED BY <1>2, <1>3, <1>4, <1>5

\* ReadLines: a response.
LEMMA ReadLinesKeeps ==
    ASSUME DashInv, NEW t \in Threads, ReadLines(t)
    PROVE  DashInv'
<1>0. TypeInv /\ Calm /\ InStep /\ CallInv
  BY DEF DashInv, TypeInv
<1>1. /\ call[t].pc = "read" /\ call[t] \in ActiveCalls /\ state \in call[t].seen
      /\ UNCHANGED <<socket, sent, crashed, orders, late, state>>
  BY <1>0, ActiveParts DEF ReadLines, robotVars
<1>1a. PICK k \in 1..Len(inbox) : \E d :
              /\ inbox' = SubSeq(inbox, k + 1, Len(inbox))
              /\ taint' = IF k < Len(inbox) \/ late # <<>> THEN taint \cup {"cut"} ELSE taint
              /\ Leaves(t, d) /\ Continues(call[t], d)
  BY <1>0, ReadLinesShape
<1>2. PICK d :
              /\ inbox' = SubSeq(inbox, k + 1, Len(inbox))
              /\ taint' = IF k < Len(inbox) \/ late # <<>> THEN taint \cup {"cut"} ELSE taint
              /\ Leaves(t, d) /\ Continues(call[t], d)
  BY <1>1a
<1>3. /\ OnlyCall(t) /\ call'[t] = d /\ mutex' \in Threads \cup {None}
      /\ \A u \in Threads \ {t} : mutex = u => mutex' = u
  BY <1>0, <1>2, LeavesShape
<1>4. taint \subseteq taint' /\ taint' \subseteq {"overlap", "unconnected", "cut"}
  BY <1>0, <1>2 DEF TypeInv
<1>5. TypeInv'
  <2>1. CallInv'
    BY <1>0, <1>1, <1>2, <1>3, CallOfOne DEF Continues
  <2>2. inbox' \in Seq(Lines)
    <3>1. inbox \in Seq(Lines) /\ Len(inbox) \in Nat
      BY <1>0, LenProperties DEF TypeInv
    <3>2. \A i \in k + 1..Len(inbox) : inbox[i] \in Lines
      BY <3>1, LenProperties
    <3> QED BY <1>2, <3>1, <3>2, SubSeqProperties
  <2> QED BY <1>0, <1>1, <1>3, <1>4, <2>1, <2>2 DEF TypeInv
<1>6. Calm'
  BY <1>0, <1>1, <1>2, <1>3, <1>4, CalmOfOne DEF Continues
<1>7. InStep'
  <2>1. CASE taint' = {}
    BY <1>1, <1>2, <2>1, WholeReply, InStepEmpty
  <2>2. CASE taint' # {}
    BY <2>2 DEF InStep
  <2> QED BY <2>1, <2>2
<1> QED BY <1>5, <1>6, <1>7 DEF DashInv

----------------------------------------------------------------------------
(* Steps that drop the socket, and the robot's.                             *)

\* Disconnect: the mutex is free, so nobody uses the socket.
LEMMA DisconnectKeeps ==
    ASSUME DashInv, NEW t \in Threads, Disconnect(t)
    PROVE  DashInv'
<1>0. TypeInv /\ Calm /\ InStep /\ CallInv
  BY DEF DashInv, TypeInv
<1>1. /\ call[t].pc = "idle" /\ mutex = None /\ ~crashed /\ DropSocket("null", call)
      /\ taint' = taint \cup (IF Overlaps(t, "disconnect") THEN {"overlap"} ELSE {})
      /\ UNCHANGED <<mutex, sent, crashed, state>>
      /\ socket' = "null" /\ inbox' = <<>> /\ orders' = <<>> /\ late' = <<>>
  BY DEF Disconnect, DropSocket
<1>2. /\ DOMAIN call' = Threads
      /\ \A u \in Threads :
            /\ call'[u].pc # "idle" =>
                  call'[u] \in ActiveCalls /\ Formed(call'[u]) /\ state \in call'[u].seen
            /\ call'[u].pc # "idle" <=> call[u].pc # "idle"
            /\ call[u].pc # "idle" => call'[u].op = call[u].op
            /\ call[u].pc # "read" => call'[u] = call[u]
            /\ call[u].pc = "read" => call'[u].pc = "aborted"
  BY <1>0, <1>1, DropShape DEF CallInv
<1>3. TypeInv'
  <2>1. CallInv'
    BY <1>1, <1>2 DEF CallInv, Formed
  <2> QED BY <1>0, <1>1, <2>1, EmptySeq DEF TypeInv
<1>4. Calm'
  <2>1. ASSUME taint' \cap {"overlap", "unconnected"} = {}, NEW u \in Threads, call[u].pc # "idle"
        PROVE  call[u].op \notin Bare /\ call'[u].pc \notin {"dial", "send", "start", "read"}
    <3>1. taint \cap {"overlap", "unconnected"} = {} /\ ~Overlaps(t, "disconnect") /\ u # t
      BY <1>1, <2>1
    <3>2. call[u].op \notin Bare
      BY <2>1, <3>1 DEF Overlaps
    <3>3. call[u].op \in Requests /\ call[u].pc # "dial"
      BY <1>0, <2>1, <3>2, ActiveParts, OtherOperations DEF Bare, Formed
    <3>4. mutex # u
      BY <1>1, DashboardNames
    <3>5. call[u].pc \notin {"send", "start", "read"}
      BY <1>0, <3>1, <3>3, <3>4 DEF Calm
    <3> QED BY <1>2, <3>2, <3>3, <3>5
  <2>2. ASSUME taint' \cap {"overlap", "unconnected"} = {}, NEW u \in Threads
        PROVE  /\ call'[u].pc # "idle" => call'[u].op \notin Bare
               /\ call'[u].pc \notin {"dial", "send", "start", "read"}
    BY <1>2, <2>1, <2>2
  <2> QED BY <1>1, <2>2 DEF Calm
<1>5. InStep'
  BY <1>1, InStepEmpty
<1> QED BY <1>3, <1>4, <1>5 DEF DashInv

\* ConnectLocks: a new socket, and nothing before it matters to a thread that is alone.
LEMMA ConnectLocksKeeps ==
    ASSUME DashInv, NEW t \in Threads, ConnectLocks(t)
    PROVE  DashInv'
<1>0. TypeInv /\ Calm /\ InStep /\ CallInv
  BY DEF DashInv, TypeInv
<1>1. PICK d : d = [call[t] EXCEPT !.pc = "dial"]
  OBVIOUS
<1>2. PICK c : c = [call EXCEPT ![t] = d]
  OBVIOUS
<1>3. /\ call[t].pc = "lock" /\ call[t].op = "connect" /\ ~crashed /\ mutex' = t
      /\ taint' = (IF Alone(t) THEN {} ELSE taint) /\ UNCHANGED <<sent, crashed, state>>
      /\ socket' = "dialing" /\ inbox' = <<>> /\ orders' = <<>> /\ late' = <<>>
  BY DEF ConnectLocks, DropSocket
<1>4. DropSocket("dialing", c)
  BY <1>1, <1>2 DEF ConnectLocks, DropSocket
<1>5. /\ d \in ActiveCalls /\ d.pc = "dial" /\ d.op = "connect" /\ Formed(d)
      /\ state \in d.seen
  <2>1. call[t] \in ActiveCalls /\ Formed(call[t]) /\ state \in call[t].seen
    BY <1>0, <1>3, ActiveParts
  <2>2. /\ d \in ActiveCalls /\ d.pc = "dial" /\ d.op = "connect" /\ d.n = call[t].n
        /\ d.seen = call[t].seen /\ d.goal = call[t].goal
    BY <1>1, <1>3, <2>1, PlaceChanges DEF Places
  <2>3. Formed(d)
    BY <1>3, <2>1, <2>2, OperationTable DEF Formed
  <2> QED BY <2>1, <2>2, <2>3
<1>6. /\ DOMAIN c = Threads /\ c[t] = d /\ \A u \in Threads \ {t} : c[u] = call[u]
  BY <1>0, <1>2 DEF CallInv
<1>7. \A u \in Threads :
         c[u].pc # "idle" => c[u] \in ActiveCalls /\ Formed(c[u]) /\ state \in c[u].seen
  BY <1>0, <1>5, <1>6 DEF CallInv
<1>8. /\ DOMAIN call' = Threads
      /\ \A u \in Threads :
            /\ call'[u].pc # "idle" =>
                  call'[u] \in ActiveCalls /\ Formed(call'[u]) /\ state \in call'[u].seen
            /\ call'[u].pc # "idle" <=> c[u].pc # "idle"
            /\ c[u].pc # "idle" => call'[u].op = c[u].op
            /\ c[u].pc # "read" => call'[u] = c[u]
            /\ c[u].pc = "read" => call'[u].pc = "aborted"
  BY <1>4, <1>6, <1>7, DropShape
<1>9. TypeInv'
  <2>1. CallInv'
    BY <1>3, <1>8 DEF CallInv, Formed
  <2>2. taint' \subseteq {"overlap", "unconnected", "cut"}
    BY <1>0, <1>3 DEF TypeInv
  <2> QED BY <1>0, <1>3, <2>1, <2>2, EmptySeq DEF TypeInv
<1>10. Calm'
  <2>1. CASE Alone(t)
    <3>1. \A u \in Threads \ {t} : call'[u].pc = "idle"
      BY <1>6, <1>8, <2>1 DEF Alone
    <3>2. call'[t] = d
      BY <1>5, <1>6, <1>8
    <3> QED BY <1>3, <1>5, <3>1, <3>2, OperationTable DEF Calm, Alone
  <2>2. CASE ~Alone(t)
    <3>1. taint \cap {"overlap", "unconnected"} # {}
      BY <1>0, <1>3, <2>2 DEF Calm, Bare
    <3> QED BY <1>3, <2>2, <3>1 DEF Calm
  <2> QED BY <2>1, <2>2
<1>11. InStep'
  BY <1>3, InStepEmpty
<1> QED BY <1>9, <1>10, <1>11 DEF DashInv

\* QuitResets: the thread is alone, or has overlapped.
LEMMA QuitResetsKeeps ==
    ASSUME DashInv, NEW t \in Threads, QuitResets(t)
    PROVE  DashInv'
<1>0. TypeInv /\ Calm /\ InStep /\ CallInv
  BY DEF DashInv, TypeInv
<1>1. PICK c : c = [call EXCEPT ![t] = Return("text")]
  OBVIOUS
<1>2. /\ call[t].pc = "reset" /\ ~crashed
      /\ UNCHANGED <<mutex, sent, crashed, state, taint>>
      /\ socket' = "null" /\ inbox' = <<>> /\ orders' = <<>> /\ late' = <<>>
  BY DEF QuitResets, DropSocket
<1>3. DropSocket("null", c)
  BY <1>1 DEF QuitResets, DropSocket
<1>4. call[t].op = "quit"
  BY <1>0, <1>2, ActiveParts DEF Formed
<1>5. /\ DOMAIN c = Threads /\ c[t].pc = "idle" /\ \A u \in Threads \ {t} : c[u] = call[u]
  BY <1>0, <1>1, ReturnShape DEF CallInv
<1>6. \A u \in Threads :
         c[u].pc # "idle" => c[u] \in ActiveCalls /\ Formed(c[u]) /\ state \in c[u].seen
  BY <1>0, <1>5 DEF CallInv
<1>7. /\ DOMAIN call' = Threads
      /\ \A u \in Threads :
            /\ call'[u].pc # "idle" =>
                  call'[u] \in ActiveCalls /\ Formed(call'[u]) /\ state \in call'[u].seen
            /\ call'[u].pc # "idle" <=> c[u].pc # "idle"
            /\ c[u].pc # "read" => call'[u] = c[u]
  BY <1>3, <1>5, <1>6, DropShape
<1>8. TypeInv'
  <2>1. CallInv'
    BY <1>2, <1>7 DEF CallInv, Formed
  <2> QED BY <1>0, <1>2, <2>1, EmptySeq DEF TypeInv
<1>9. Calm'
  <2>1. CASE taint \cap {"overlap", "unconnected"} # {}
    BY <1>2, <2>1 DEF Calm
  <2>2. CASE taint \cap {"overlap", "unconnected"} = {}
    <3>1. Alone(t)
      BY <1>0, <1>2, <1>4, <2>2 DEF Calm, Bare
    <3>2. \A u \in Threads : call'[u].pc = "idle"
      BY <1>5, <1>7, <3>1 DEF Alone
    <3> QED BY <1>2, <3>2 DEF Calm
  <2> QED BY <2>1, <2>2
<1>10. InStep'
  BY <1>2, InStepEmpty
<1> QED BY <1>8, <1>9, <1>10 DEF DashInv

\* RobotAnswers: the reply to the command of the one call that awaits it.
LEMMA RobotAnswersKeeps ==
    ASSUME DashInv, RobotAnswers
    PROVE  DashInv'
<1>0. TypeInv /\ Calm /\ InStep /\ CallInv
  BY DEF DashInv, TypeInv
<1>1. /\ orders # <<>> /\ late = <<>> /\ orders' = Tail(orders) /\ socket = "up"
      /\ UNCHANGED <<socket, mutex, call, sent, crashed, state, taint>>
  BY DEF RobotAnswers
<1>2. PICK r \in Replies(Head(orders)) : \E k \in 1..Len(r) :
          inbox' = inbox \o SubSeq(r, 1, k) /\ late' = SubSeq(r, k + 1, Len(r))
  BY DEF RobotAnswers
<1>3. PICK k \in 1..Len(r) :
          inbox' = inbox \o SubSeq(r, 1, k) /\ late' = SubSeq(r, k + 1, Len(r))
  BY <1>2
<1>4. /\ Head(orders) \in Requested /\ Head(orders) = orders[1] /\ 1 \in DOMAIN orders
      /\ Tail(orders) \in Seq(Requested) /\ Len(Tail(orders)) = Len(orders) - 1
  BY <1>0, <1>1, HeadTailProperties, LenProperties, EmptySeq DEF TypeInv
<1>5. /\ r \in Seq(Lines) /\ Len(r) \in {1, 2}
      /\ \A i \in DOMAIN r : /\ r[i].n = Head(orders).n
                             /\ r[i].form \in {"value", "status"} => r[i].val = state
  BY <1>0, <1>2, <1>4, RepliesShape DEF TypeInv
<1>6. /\ DOMAIN r = 1..Len(r) /\ \A i \in 1..Len(r) : r[i] \in Lines
  BY <1>5, LenProperties
<1> DEFINE a == SubSeq(r, 1, k)
           b == SubSeq(r, k + 1, Len(r))
<1>7. /\ a \in Seq(Lines) /\ Len(a) = k /\ \A i \in 1..k : a[i] = r[i] /\ i \in DOMAIN r
  <2>1. \A i \in 1..k : r[i] \in Lines /\ i \in DOMAIN r
    BY <1>5, <1>6
  <2>2. 1 \in Int /\ k \in Int /\ 1 <= k /\ k - 1 + 1 = k
    OBVIOUS
  <2>3. \A i \in 1..k : 1 + i - 1 = i
    OBVIOUS
  <2> QED BY <2>1, <2>2, <2>3, SubSeqProperties
<1>8. /\ b \in Seq(Lines)
      /\ \A i \in 1..Len(b) : k + i \in DOMAIN r /\ b[i] = r[k + i]
  <2>1. k + 1 \in Int /\ Len(r) \in Int /\ k \in Int /\ k <= Len(r)
    BY <1>5
  <2>2. \A i \in k + 1..Len(r) : r[i] \in Lines
    BY <1>5, <1>6
  <2>3. /\ b \in Seq(Lines) /\ Len(b) = IF k + 1 <= Len(r) THEN Len(r) - (k + 1) + 1 ELSE 0
        /\ \A i \in 1..Len(r) - (k + 1) + 1 : b[i] = r[k + 1 + i - 1]
    BY <2>1, <2>2, SubSeqProperties
  <2> HIDE DEF b
  <2>4. Len(b) = Len(r) - k /\ Len(r) - (k + 1) + 1 = Len(r) - k
    BY <2>1, <2>3
  <2>5. ASSUME NEW i \in 1..Len(b) PROVE k + i \in DOMAIN r /\ b[i] = r[k + i]
    <3>1. k + i \in 1..Len(r) /\ k + 1 + i - 1 = k + i /\ i \in 1..Len(r) - (k + 1) + 1
      BY <2>1, <2>4
    <3> QED BY <1>6, <2>3, <3>1
  <2> QED BY <2>3, <2>5
<1> HIDE DEF a, b
<1>9. inbox' = inbox \o a /\ late' = b
  BY <1>3 DEF a, b
<1>10. TypeInv'
  <2>1. CallInv'
    BY <1>0, <1>1 DEF CallInv, Formed
  <2>2. inbox' \in Seq(Lines)
    BY <1>0, <1>7, <1>9, ConcatProperties DEF TypeInv
  <2> QED BY <1>0, <1>1, <1>4, <1>8, <1>9, <2>1, <2>2 DEF TypeInv
<1>11. Calm'
  BY <1>0, <1>1 DEF Calm, Alone
<1>12. InStep'
  <2> SUFFICES ASSUME taint = {} PROVE InStep'
    BY <1>1 DEF InStep
  <2>1. inbox = <<>> /\ Len(orders) = 1 /\ \E t \in Threads : Awaits(t)
    BY <1>0, <1>1 DEF InStep
  <2>2. inbox' = a /\ orders' = <<>>
    <3>1. Len(Tail(orders)) = 0
      BY <1>4, <2>1
    <3>2. Tail(orders) = <<>>
      BY <1>4, <3>1, EmptySeq
    <3> QED BY <1>1, <1>7, <1>9, <2>1, <3>2, ConcatEmptySeq
  <2>3. ASSUME NEW t \in Threads, Awaits(t), NEW i \in DOMAIN r
        PROVE  r[i].n = call[t].n /\ (r[i].form \in {"value", "status"} => r[i].val \in call[t].seen)
    <3>1. orders[1].n = call[t].n
      BY <1>0, <1>4, <2>3 DEF InStep
    <3>2. state \in call[t].seen
      BY <1>0, <2>3, ActiveParts DEF Awaits
    <3> QED BY <1>4, <1>5, <3>1, <3>2
  <2>4. DOMAIN a = 1..k /\ DOMAIN b = 1..Len(b)
    BY <1>7, <1>8, LenProperties
  <2>5. ASSUME NEW t \in Threads, Awaits(t)
        PROVE  /\ \A i \in DOMAIN a : Ours(t, a[i])
               /\ \A i \in DOMAIN b : Ours(t, b[i])
    BY <1>7, <1>8, <2>3, <2>4, <2>5 DEF Ours
  <2>6. ASSUME NEW t \in Threads, Awaits(t)'
        PROVE  /\ \A i \in DOMAIN inbox' : Ours(t, inbox[i])'
               /\ \A i \in DOMAIN late' : Ours(t, late[i])'
               /\ \A i \in DOMAIN orders' : orders'[i].n = call'[t].n
    <3>1. Awaits(t)
      BY <1>1, <2>6 DEF Awaits
    <3>2. \A i \in DOMAIN a : Ours(t, a[i])
      BY <2>5, <3>1
    <3>3. \A i \in DOMAIN b : Ours(t, b[i])
      BY <2>5, <3>1
    <3>4. \A i \in DOMAIN inbox' : Ours(t, inbox[i])'
      BY <1>1, <2>2, <3>2 DEF Ours
    <3>5. \A i \in DOMAIN late' : Ours(t, late[i])'
      BY <1>1, <1>9, <3>3 DEF Ours
    <3>6. DOMAIN orders' = {}
      BY <2>2, EmptySeq
    <3> QED BY <3>4, <3>5, <3>6
  <2>7. \E t \in Threads : Awaits(t)'
    BY <1>1, <2>1 DEF Awaits
  <2> QED BY <1>1, <2>2, <2>6, <2>7 DEF InStep, Ours
<1> QED BY <1>10, <1>11, <1>12 DEF DashInv

\* RestArrives: the rest of a reply.
LEMMA RestArrivesKeeps ==
    ASSUME DashInv, RestArrives
    PROVE  DashInv'
<1>0. TypeInv /\ Calm /\ InStep /\ CallInv
  BY DEF DashInv, TypeInv
<1>1. /\ late # <<>> /\ inbox' = inbox \o late /\ late' = <<>> /\ socket = "up"
      /\ UNCHANGED <<socket, mutex, call, sent, crashed, orders, state, taint>>
  BY DEF RestArrives
<1>2. TypeInv'
  <2>1. CallInv'
    BY <1>0, <1>1 DEF CallInv, Formed
  <2>2. inbox' \in Seq(Lines)
    BY <1>0, <1>1, ConcatProperties DEF TypeInv
  <2> QED BY <1>0, <1>1, <2>1, <2>2, EmptySeq DEF TypeInv
<1>3. Calm'
  BY <1>0, <1>1 DEF Calm, Alone
<1>4. InStep'
  <2> SUFFICES ASSUME taint = {} PROVE InStep'
    BY <1>1 DEF InStep
  <2>1. orders = <<>> /\ \E t \in Threads : Awaits(t)
    BY <1>0, <1>1 DEF InStep
  <2>2. /\ Len(inbox) \in Nat /\ Len(late) \in Nat /\ DOMAIN inbox = 1..Len(inbox)
        /\ DOMAIN late = 1..Len(late) /\ DOMAIN inbox' = 1..Len(inbox) + Len(late)
        /\ \A i \in 1..Len(inbox) + Len(late) :
              inbox'[i] = IF i <= Len(inbox) THEN inbox[i] ELSE late[i - Len(inbox)]
    BY <1>0, <1>1, ConcatProperties, LenProperties DEF TypeInv
  <2>3. ASSUME NEW t \in Threads, Awaits(t), NEW i \in DOMAIN inbox' PROVE Ours(t, inbox'[i])
    <3>1. CASE i <= Len(inbox)
      <4>1. i \in DOMAIN inbox /\ inbox'[i] = inbox[i]
        BY <2>2, <3>1
      <4> QED BY <1>0, <2>3, <4>1 DEF InStep
    <3>2. CASE ~(i <= Len(inbox))
      <4>1. i - Len(inbox) \in DOMAIN late /\ inbox'[i] = late[i - Len(inbox)]
        BY <2>2, <3>2
      <4> QED BY <1>0, <2>3, <4>1 DEF InStep
    <3> QED BY <3>1, <3>2
  <2>4. ASSUME NEW t \in Threads, Awaits(t)', NEW i \in DOMAIN inbox'
        PROVE  /\ inbox'[i].n = call'[t].n
               /\ inbox'[i].form \in {"value", "status"} => inbox'[i].val \in call'[t].seen
    BY <1>1, <2>3, <2>4 DEF Awaits, Ours
  <2>5. \E t \in Threads : Awaits(t)'
    BY <1>1, <2>1 DEF Awaits
  <2> QED BY <1>1, <2>1, <2>4, <2>5 DEF InStep, Ours
<1> QED BY <1>2, <1>3, <1>4 DEF DashInv

\* RobotMoves: every call takes note of the state.
LEMMA RobotMovesKeeps ==
    ASSUME DashInv, RobotMoves
    PROVE  DashInv'
<1>0. TypeInv /\ Calm /\ InStep /\ CallInv
  BY DEF DashInv, TypeInv
<1>1. /\ state' \in States
      /\ UNCHANGED <<socket, mutex, inbox, sent, crashed, orders, late, taint>>
      /\ DOMAIN call' = Threads
      /\ \A t \in Threads : call'[t] = IF call[t].pc = "idle" THEN call[t]
                                        ELSE [call[t] EXCEPT !.seen = @ \cup {state'}]
  BY DEF RobotMoves
<1>2. ASSUME NEW t \in Threads, call[t].pc # "idle"
      PROVE  /\ call'[t] \in ActiveCalls /\ Formed(call'[t]) /\ state' \in call'[t].seen
             /\ call'[t].pc = call[t].pc /\ call'[t].op = call[t].op /\ call'[t].n = call[t].n
             /\ call[t].seen \subseteq call'[t].seen
  <2>1. call[t] \in ActiveCalls /\ Formed(call[t])
    BY <1>0, <1>2, ActiveParts
  <2>2. PICK s : s = call[t].seen \cup {state'}
    OBVIOUS
  <2>3. s \in SUBSET States
    BY <1>1, <2>1, <2>2 DEF ActiveCalls
  <2>4. PICK d : d = [call[t] EXCEPT !.seen = s]
    OBVIOUS
  <2>5. call'[t] = d
    BY <1>1, <1>2, <2>2, <2>4
  <2>6. /\ d \in ActiveCalls /\ d.pc = call[t].pc /\ d.op = call[t].op /\ d.n = call[t].n
        /\ d.cmd = call[t].cmd /\ d.goal = call[t].goal /\ d.seen = s
    BY <2>1, <2>3, <2>4 DEF ActiveCalls
  <2>7. Formed(d)
    BY <2>1, <2>6 DEF Formed
  <2> QED BY <2>2, <2>5, <2>6, <2>7
<1>3. \A t \in Threads : call[t].pc = "idle" => call'[t] = call[t]
  BY <1>1
<1>4. \A t \in Threads : call'[t].pc = call[t].pc
  BY <1>2, <1>3
<1>5. TypeInv'
  <2>1. CallInv'
    BY <1>1, <1>2, <1>4 DEF CallInv, Formed
  <2> QED BY <1>0, <1>1, <2>1 DEF TypeInv
<1>6. Calm'
  BY <1>0, <1>1, <1>2, <1>4 DEF Calm, Alone
<1>7. InStep'
  <2> SUFFICES ASSUME taint = {} PROVE InStep'
    BY <1>1 DEF InStep
  <2>1. \A t \in Threads : Awaits(t)' <=> Awaits(t)
    BY <1>4 DEF Awaits
  <2>2. ASSUME NEW t \in Threads, Awaits(t) PROVE call'[t].n = call[t].n /\ call[t].seen \subseteq call'[t].seen
    BY <1>2, <2>2 DEF Awaits
  <2>3. ASSUME NEW t \in Threads, Awaits(t), NEW line, Ours(t, line)
        PROVE  /\ line.n = call'[t].n
               /\ line.form \in {"value", "status"} => line.val \in call'[t].seen
    BY <2>2, <2>3 DEF Ours
  <2>4. ASSUME NEW t \in Threads, Awaits(t)
        PROVE  /\ \A i \in DOMAIN inbox :
                     /\ inbox[i].n = call'[t].n
                     /\ inbox[i].form \in {"value", "status"} => inbox[i].val \in call'[t].seen
               /\ \A i \in DOMAIN late :
                     /\ late[i].n = call'[t].n
                     /\ late[i].form \in {"value", "status"} => late[i].val \in call'[t].seen
               /\ \A i \in DOMAIN orders : orders[i].n = call'[t].n
    BY <1>0, <2>2, <2>3, <2>4 DEF InStep
  <2> QED BY <1>0, <1>1, <2>1, <2>4 DEF InStep, Ours
<1> QED BY <1>5, <1>6, <1>7 DEF DashInv

\* RobotCloses: what was on its way is lost.
LEMMA RobotClosesKeeps ==
    ASSUME DashInv, RobotCloses
    PROVE  DashInv'
<1>0. TypeInv /\ Calm /\ InStep /\ CallInv
  BY DEF DashInv, TypeInv
<1>1. /\ socket = "up" /\ socket' = "down" /\ orders' = <<>> /\ late' = <<>>
      /\ UNCHANGED <<mutex, inbox, call, sent, crashed, state, taint>>
  BY DEF RobotCloses
<1>2. TypeInv'
  <2>1. CallInv'
    BY <1>0, <1>1 DEF CallInv, Formed
  <2> QED BY <1>0, <1>1, <2>1, EmptySeq DEF TypeInv
<1>3. Calm'
  BY <1>0, <1>1 DEF Calm, Alone
<1>4. InStep'
  BY <1>0, <1>1 DEF InStep, Awaits, Ours
<1> QED BY <1>2, <1>3, <1>4 DEF DashInv

----------------------------------------------------------------------------
\* The invariant holds at the start.
LEMMA InitDash == Init => DashInv
<1> SUFFICES ASSUME Init PROVE DashInv
  OBVIOUS
<1>1. \A t \in Threads : call[t].pc = "idle"
  BY DEF Init, Idle
<1>2. TypeInv
  BY <1>1, EmptySeq DEF Init, TypeInv, CallInv
<1>3. Calm /\ InStep
  BY <1>1 DEF Init, Calm, InStep
<1> QED BY <1>2, <1>3 DEF DashInv

\* Every step keeps it.
LEMMA NextDash == DashInv /\ [Next]_vars => DashInv'
<1> SUFFICES ASSUME DashInv, [Next]_vars PROVE DashInv'
  OBVIOUS
<1>1. CASE UNCHANGED vars
  BY <1>1 DEF vars, clientVars, robotVars, DashInv, TypeInv, CallInv, Formed, Calm, Alone, InStep,
              Awaits, Ours
<1>2. ASSUME NEW t \in Threads, Step(t) PROVE DashInv'
  BY <1>2, ConnectLocksKeeps, DialKeeps, RequestLocksKeeps, SendCommandKeeps, StartReadKeeps,
     ReadLinesKeeps, ReadFailsKeeps, QuitResetsKeeps DEF Step
<1> QED BY <1>1, <1>2, BeginKeeps, DisconnectKeeps, RobotAnswersKeeps, RestArrivesKeeps,
           RobotMovesKeeps, RobotClosesKeeps DEF Next

\* The invariant of the dashboard client: who may use the socket, and whose reply is on
\* its way.
THEOREM DashboardInvariant == Spec => []DashInv
BY InitDash, NextDash, PTL DEF Spec

\* However many threads share a client, a null socket_ptr_ is used only if a call that
\* works without socket_mutex_ overlapped with another, or sendAndReceive() was called
\* without a connection.
THEOREM NullUseIsExplained == Spec => []NullUseExplained
<1>1. DashInv => NullUseExplained
  BY DEF DashInv, Calm, NullUseExplained
<1> QED BY <1>1, DashboardInvariant, PTL

\* Whatever is refused, thrown, lost and dialled again in between, what a call reads is
\* the reply to its own command, as long as nothing has put the connection out of step.
THEOREM RepliesAreOwn == Spec => OwnReply
<1>1. ASSUME DashInv, NEW t \in Threads, ReadLines(t), taint' = {}
      PROVE  \A i \in 1..(Len(inbox) - Len(inbox')) : inbox[i].n = call[t].n
  <2>1. TypeInv /\ call[t].pc = "read" /\ inbox \in Seq(Lines) /\ Len(inbox) \in Nat
    BY <1>1, LenProperties DEF DashInv, TypeInv, ReadLines
  <2>2. PICK k \in 1..Len(inbox) :
              /\ inbox' = SubSeq(inbox, k + 1, Len(inbox))
              /\ taint' = IF k < Len(inbox) \/ late # <<>> THEN taint \cup {"cut"} ELSE taint
    BY <1>1 DEF ReadLines
  <2>3. inbox' = <<>> /\ \A i \in 1..Len(inbox) : Ours(t, inbox[i])
    BY <1>1, <2>1, <2>2, WholeReply
  <2>4. Len(inbox) - Len(inbox') = Len(inbox)
    BY <2>1, <2>3
  <2> QED BY <2>3, <2>4 DEF Ours
<1>2. DashInv /\ [Next]_vars =>
        [\A t \in Threads : ReadLines(t) /\ taint' = {} =>
           \A i \in 1..(Len(inbox) - Len(inbox')) : inbox[i].n = call[t].n]_vars
  BY <1>1
<1> QED BY <1>2, DashboardInvariant, PTL DEF Spec, OwnReply

----------------------------------------------------------------------------
(* Answers.                                                                 *)

\* The call of thread t ends without a state, and does not say its goal was reached.
Quiet(t) ==
    call'[t].res \notin States /\ ~(call[t].goal \in Goals /\ call'[t].res = "true")

\* A call that ends with one of the client's own words.
LEMMA QuietWords ==
    ASSUME NEW t \in Threads, NEW w \in {"thrown", "text"}, call'[t] = Return(w)
    PROVE  Quiet(t)
BY ReturnShape, WordsAreNotStates DEF Quiet

\* A call that goes on from another place has not ended.
LEMMA GoesOn ==
    ASSUME NEW c \in ActiveCalls, NEW p \in Places
    PROVE  [c EXCEPT !.pc = p].pc # "idle"
BY DEF ActiveCalls, Places

\* A step of another thread does not end the call of thread t.
LEMMA StepOfOther ==
    ASSUME TypeInv, NEW t \in Threads, NEW u \in Threads, t # u, Step(u), call[t].pc # "idle"
    PROVE  call'[t].pc # "idle"
<1>0. /\ DOMAIN call = Threads /\ call[t] \in ActiveCalls
  BY ActiveParts DEF TypeInv, CallInv
<1>1. ASSUME NEW new, NEW c, DropSocket(new, c), c[t] = call[t] PROVE call'[t].pc # "idle"
  <2>1. call'[t] = IF call[t].pc = "read" THEN [call[t] EXCEPT !.pc = "aborted"] ELSE call[t]
    BY <1>1 DEF DropSocket
  <2> QED BY <1>0, <2>1, GoesOn DEF Places
<1>2. CASE ConnectLocks(u)
  <2>1. [call EXCEPT ![u].pc = "dial"][t] = call[t]
    BY <1>0
  <2> QED BY <1>1, <1>2, <2>1 DEF ConnectLocks
<1>3. CASE QuitResets(u)
  <2>1. [call EXCEPT ![u] = Return("text")][t] = call[t]
    BY <1>0
  <2> QED BY <1>1, <1>3, <2>1 DEF QuitResets
<1>4. ASSUME NEW c, Leaves(u, c) PROVE call'[t].pc # "idle"
  BY <1>0, <1>4 DEF Leaves
<1>5. CASE Dial(u)
  BY <1>4, <1>5, Zenon DEF Dial
<1>6. CASE RequestLocks(u)
  <2>1. CASE socket = "null"
    BY <1>4, <1>6, <2>1 DEF RequestLocks
  <2>2. CASE socket # "null"
    BY <1>0, <1>6, <2>2 DEF RequestLocks
  <2> QED BY <2>1, <2>2
<1>7. CASE SendCommand(u)
  <2>1. \/ call' = call
        \/ Leaves(u, Return("thrown"))
        \/ call' = [call EXCEPT ![u].pc = "start", ![u].n = sent + 1]
    BY <1>7 DEF SendCommand
  <2> QED BY <1>0, <1>4, <2>1
<1>8. CASE StartRead(u)
  BY <1>0, <1>8 DEF StartRead
<1>9. CASE ReadLines(u)
  BY <1>4, <1>9 DEF ReadLines
<1>10. CASE ReadFails(u)
  BY <1>4, <1>10 DEF ReadFails
<1> QED BY <1>2, <1>3, <1>5, <1>6, <1>7, <1>8, <1>9, <1>10 DEF Step

\* A step of its own that is not a read ends a call quietly.
LEMMA StepOfItsOwn ==
    ASSUME TypeInv, NEW t \in Threads, Step(t), ~ReadLines(t), call[t].pc # "idle",
           call'[t].pc = "idle"
    PROVE  Quiet(t)
<1>0. DOMAIN call = Threads /\ call[t] \in ActiveCalls
  BY ActiveParts DEF TypeInv, CallInv
<1>1. ~ConnectLocks(t)
  <2> SUFFICES ASSUME ConnectLocks(t) PROVE FALSE
    OBVIOUS
  <2>1. PICK d : d = [call[t] EXCEPT !.pc = "dial"]
    OBVIOUS
  <2>2. d.pc = "dial"
    BY <1>0, <2>1, PlaceChanges DEF Places
  <2>3. PICK c : c = [call EXCEPT ![t].pc = "dial"]
    OBVIOUS
  <2>4. c[t] = d
    BY <1>0, <2>1, <2>3
  <2>5. call'[t] = IF c[t].pc = "read" THEN [c[t] EXCEPT !.pc = "aborted"] ELSE c[t]
    BY <2>3 DEF ConnectLocks, DropSocket
  <2> QED BY <2>2, <2>4, <2>5
<1>2. ASSUME NEW c, Leaves(t, c) PROVE call'[t] = c
  BY <1>0, <1>2 DEF Leaves
<1>3. ASSUME Leaves(t, Return("thrown")) PROVE Quiet(t)
  BY <1>2, <1>3, QuietWords
<1>4. CASE Dial(t)
  <2>1. ASSUME NEW r, Leaves(t, [call[t] EXCEPT !.pc = "start", !.res = r]) PROVE FALSE
    <3>1. call'[t] = [call[t] EXCEPT !.pc = "start", !.res = r]
      BY <1>2, <2>1
    <3> QED BY <1>0, <3>1 DEF ActiveCalls
  <2> QED BY <1>3, <1>4, <2>1, Zenon DEF Dial
<1>5. CASE RequestLocks(t)
  <2>1. CASE socket = "null"
    <3>1. PICK d : d = Respond(call[t], <<>>)
      OBVIOUS
    <3>2. call'[t] = d
      BY <1>2, <1>5, <2>1, <3>1 DEF RequestLocks
    <3>3. call[t].op \in Requests /\ Formed(call[t])
      BY <1>5, ActiveParts DEF RequestLocks
    <3>4. <<>> \in Seq(Lines) /\ DOMAIN <<>> = {}
      BY EmptySeq
    <3>5. Honest(call[t], <<>>, d)
      BY <1>0, <3>1, <3>3, <3>4, Responds
    <3> QED BY <3>2, <3>4, <3>5 DEF Honest, Tells, Quiet
  <2>2. CASE socket # "null"
    <3>1. call'[t] = [call[t] EXCEPT !.pc = "send"]
      BY <1>0, <1>5, <2>2 DEF RequestLocks
    <3> QED BY <1>0, <3>1, GoesOn DEF Places
  <2> QED BY <2>1, <2>2
<1>6. CASE SendCommand(t)
  <2>1. \/ call' = call
        \/ Leaves(t, Return("thrown"))
        \/ call' = [call EXCEPT ![t].pc = "start", ![t].n = sent + 1]
    BY <1>6 DEF SendCommand
  <2>2. CASE call' = [call EXCEPT ![t].pc = "start", ![t].n = sent + 1]
    <3>1. call'[t] = [call[t] EXCEPT !.pc = "start", !.n = sent + 1]
      BY <1>0, <2>2
    <3> QED BY <1>0, <3>1 DEF ActiveCalls
  <2> QED BY <1>3, <2>1, <2>2
<1>7. CASE StartRead(t)
  <2>1. call' = call \/ call' = [call EXCEPT ![t].pc = "read"]
    BY <1>7 DEF StartRead
  <2>2. CASE call' = [call EXCEPT ![t].pc = "read"]
    <3>1. call'[t] = [call[t] EXCEPT !.pc = "read"]
      BY <1>0, <2>2
    <3> QED BY <1>0, <3>1, GoesOn DEF Places
  <2> QED BY <2>1, <2>2
<1>8. CASE ReadFails(t)
  BY <1>3, <1>8 DEF ReadFails
<1>9. CASE QuitResets(t)
  <2>1. PICK c : c = [call EXCEPT ![t] = Return("text")]
    OBVIOUS
  <2>2. c[t] = Return("text")
    BY <1>0, <2>1
  <2>3. call'[t] = IF c[t].pc = "read" THEN [c[t] EXCEPT !.pc = "aborted"] ELSE c[t]
    BY <1>9, <2>1 DEF QuitResets, DropSocket
  <2>4. call'[t] = Return("text")
    BY <2>2, <2>3, ReturnShape
  <2> QED BY <2>4, QuietWords
<1> QED BY <1>1, <1>4, <1>5, <1>6, <1>7, <1>8, <1>9 DEF Step

\* Only a step of the thread itself ends its call.
LEMMA OwnStepEnds ==
    ASSUME TypeInv, NEW t \in Threads, [Next]_vars, call[t].pc # "idle", call'[t].pc = "idle"
    PROVE  Step(t)
<1>0. DOMAIN call = Threads /\ call[t] \in ActiveCalls
  BY ActiveParts DEF TypeInv, CallInv
<1>1. CASE UNCHANGED vars \/ RobotAnswers \/ RestArrives \/ RobotCloses
  <2>1. call' = call
    BY <1>1 DEF vars, clientVars, RobotAnswers, RestArrives, RobotCloses
  <2> QED BY <2>1
<1>2. CASE RobotMoves
  <2>1. call'[t] = [call[t] EXCEPT !.seen = @ \cup {state'}]
    BY <1>2 DEF RobotMoves
  <2> QED BY <1>0, <2>1 DEF ActiveCalls
<1>3. ASSUME NEW u \in Threads, Disconnect(u) PROVE FALSE
  <2>1. call'[t] = IF call[t].pc = "read" THEN [call[t] EXCEPT !.pc = "aborted"] ELSE call[t]
    BY <1>3 DEF Disconnect, DropSocket
  <2> QED BY <1>0, <2>1, GoesOn DEF Places
<1>4. ASSUME NEW u \in Threads, NEW o, NEW g, Begin(u, o, g) PROVE FALSE
  <2>1. u # t
    BY <1>4 DEF Begin
  <2>2. call'[t] = call[t]
    BY <1>0, <1>4, <2>1 DEF Begin
  <2> QED BY <2>2
<1>5. ASSUME NEW u \in Threads, Step(u) PROVE u = t
  BY <1>5, StepOfOther
<1> QED BY <1>1, <1>2, <1>3, <1>4, <1>5 DEF Next

\* A state that a read reports, or says was reached, is one the robot was in.
LEMMA ReadsAreCurrent ==
    ASSUME DashInv, NEW t \in Threads, ReadLines(t), taint' = {}, call'[t].pc = "idle"
    PROVE  /\ call'[t].res \in States => call'[t].res \in call[t].seen
           /\ call[t].goal \in Goals /\ call'[t].res = "true" => call[t].goal \in call[t].seen
<1>0. /\ TypeInv /\ call[t].pc = "read" /\ inbox \in Seq(Lines) /\ Len(inbox) \in Nat
      /\ DOMAIN inbox = 1..Len(inbox)
  BY LenProperties DEF DashInv, TypeInv, ReadLines
<1>0a. PICK k \in 1..Len(inbox) : \E d :
          /\ inbox' = SubSeq(inbox, k + 1, Len(inbox))
          /\ taint' = IF k < Len(inbox) \/ late # <<>> THEN taint \cup {"cut"} ELSE taint
          /\ Leaves(t, d) /\ Continues(call[t], d)
          /\ Honest(call[t], SubSeq(inbox, 1, k), d)
  BY <1>0, ReadLinesShape
<1>1. PICK d :
          /\ inbox' = SubSeq(inbox, k + 1, Len(inbox))
          /\ taint' = IF k < Len(inbox) \/ late # <<>> THEN taint \cup {"cut"} ELSE taint
          /\ Leaves(t, d) /\ Continues(call[t], d)
          /\ Honest(call[t], SubSeq(inbox, 1, k), d)
  BY <1>0a
<1>2. k = Len(inbox) /\ \A i \in 1..Len(inbox) : Ours(t, inbox[i])
  BY <1>0, <1>1, WholeReply
<1>3. PICK got : got = SubSeq(inbox, 1, k)
  OBVIOUS
<1>4. DOMAIN got = 1..Len(inbox) /\ \A i \in 1..Len(inbox) : got[i] = inbox[i]
  <2>1. \A i \in 1..k : inbox[i] \in Lines
    BY <1>0
  <2>2. /\ got \in Seq(Lines) /\ Len(got) = IF 1 <= k THEN k - 1 + 1 ELSE 0
        /\ \A i \in 1..(k - 1 + 1) : got[i] = inbox[1 + i - 1]
    BY <1>0, <1>3, <2>1, SubSeqProperties
  <2>3. Len(got) = Len(inbox) /\ k - 1 + 1 = Len(inbox)
    BY <1>0, <1>2, <2>2
  <2>4. \A i \in 1..Len(inbox) : 1 + i - 1 = i
    BY <1>0
  <2> QED BY <2>2, <2>3, <2>4, LenProperties
<1>5. ASSUME NEW v, Tells(got, v) PROVE v \in call[t].seen
  BY <1>2, <1>4, <1>5 DEF Tells, Ours
<1>6. call'[t] = d
  BY <1>0, <1>1, LeavesShape
<1> QED BY <1>1, <1>3, <1>5, <1>6 DEF Honest

\* Whatever the client and the robot do in between, a state that a call reports, or says
\* was reached, is one the robot was in while the call ran, as long as nothing has put
\* the connection out of step.
THEOREM AnswersOfTheCall == Spec => AnswersAreCurrent
<1>1. ASSUME DashInv, [Next]_vars, NEW t \in Threads,
             call[t].pc # "idle", call'[t].pc = "idle", taint' = {}
      PROVE  /\ call'[t].res \in States => call'[t].res \in call[t].seen
             /\ call[t].goal \in Goals /\ call'[t].res = "true" => call[t].goal \in call[t].seen
  <2>1. TypeInv /\ Step(t)
    BY <1>1, OwnStepEnds DEF DashInv
  <2>2. CASE ReadLines(t)
    BY <1>1, <2>2, ReadsAreCurrent
  <2>3. CASE ~ReadLines(t)
    BY <1>1, <2>1, <2>3, StepOfItsOwn DEF Quiet
  <2> QED BY <2>2, <2>3
<1>2. DashInv /\ [Next]_vars =>
        [\A t \in Threads : call[t].pc # "idle" /\ call'[t].pc = "idle" /\ taint' = {} =>
           /\ call'[t].res \in States => call'[t].res \in call[t].seen
           /\ call[t].goal \in Goals /\ call'[t].res = "true" => call[t].goal \in call[t].seen]_vars
  BY <1>1
<1> QED BY <1>2, DashboardInvariant, PTL DEF Spec, AnswersAreCurrent
=============================================================================
