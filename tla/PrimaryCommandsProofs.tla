----------------------- MODULE PrimaryCommandsProofs -----------------------
(***************************************************************************)
(* Proofs about PrimaryCommands for any number of threads, calls and        *)
(* outages: a command that returns true has read a package that showed it.  *)
(***************************************************************************)
EXTENDS PrimaryCommands, TLAPS

Steps == {"idle", "look", "safety", "send", "wait"}

Readings == {"target", "short", "nothing"}

CallsTyped ==
    /\ call \in [Users -> [command : Commands \cup {None}, step : Steps]]
    /\ waiting \in [Types -> Users \cup {None}]
    /\ seen \in [Users -> Readings]
    /\ result \in [Users -> {"none", "true", "false"}]

\* The thread that parser_sub_msg_ knows for a type is at a step that reads it,
\* so a package finds the step that asked for it.
WaitersRead ==
    \A t \in Types : waiting[t] # None => Reads(waiting[t]) /\ TypeOf(waiting[t]) = t

\* A call that is under way has returned nothing yet.
NoResultYet == \A u \in Users : call[u].step # "idle" => result[u] = "none"

CommandInv == CallsTyped /\ WaitersRead /\ NoResultYet /\ TrueWasSeen

---------------------------------------------------------------------------

\* The values the getters return without a package are no command's target: a
\* refused or timed out reading makes no command return true.
LEMMA NothingIsNoTarget == \A c \in Commands \cup {None} : ~Target(c, Nothing)
BY DEF Target, Nothing, Commands

\* What a reading does to the call that asked for it: the call goes on, or it
\* returns true because of the reading it records, or it returns false.
LEMMA DecideEffect ==
    ASSUME CommandInv, NEW u \in Users, NEW r, Reads(u), Decide(u, r)
    PROVE  /\ seen' \in [Users -> Readings]
           /\ \A v \in Users \ {u} : seen'[v] = seen[v] /\ result'[v] = result[v] /\ call'[v] = call[v]
           /\ call' \in [Users -> [command : Commands \cup {None}, step : Steps]]
           /\ result' \in [Users -> {"none", "true", "false"}]
           /\ call'[u].step # "idle" => result'[u] = "none"
           /\ result'[u] = "true" => seen'[u] \in {"target", "short"} /\ r # Nothing
<1> USE DEF CommandInv, CallsTyped, NoResultYet, Readings, Steps
<1> DEFINE c == call[u].command
<1>1. /\ seen' = [seen EXCEPT ![u] = IF r = Defaults THEN "short"
                                     ELSE IF Target(c, r) THEN "target" ELSE "nothing"]
      /\ seen' \in [Users -> Readings]
      /\ Target(c, r) => seen'[u] \in {"target", "short"}
  BY DEF Decide
<1>2. \/ Return(u, "true") /\ Target(c, r)
      \/ Return(u, "false")
      \/ \E s \in {"safety", "send"} : Goto(u, s)
      \/ UNCHANGED <<call, result>>
  <2>1. CASE call[u].step = "look"
    BY <2>1 DEF Decide, Already
  <2>2. CASE call[u].step = "safety"
    BY <2>2 DEF Decide
  <2>3. CASE call[u].step = "wait"
    BY <2>3 DEF Decide
  <2> QED BY <2>1, <2>2, <2>3 DEF Reads
<1>3. result[u] = "none"
  BY DEF Reads
<1>4. CASE Return(u, "true") /\ Target(c, r)
  BY <1>1, <1>4, NothingIsNoTarget DEF Return, Idle
<1>5. CASE Return(u, "false")
  BY <1>1, <1>5 DEF Return, Idle
<1>6. ASSUME NEW s \in {"safety", "send"}, Goto(u, s)
      PROVE  /\ call' \in [Users -> [command : Commands \cup {None}, step : Steps]]
             /\ \A v \in Users \ {u} : call'[v] = call[v]
             /\ result' = result
  BY <1>6 DEF Goto
<1> QED BY <1>1, <1>2, <1>3, <1>4, <1>5, <1>6

\* A reading takes nothing away from the other threads, and the one that got it
\* no longer waits.
LEMMA DecideInv ==
    ASSUME CommandInv, NEW u \in Users, NEW r, Reads(u), Decide(u, r),
           waiting' \in [Types -> Users \cup {None}],
           \A t \in Types : waiting'[t] # None => waiting'[t] = waiting[t] /\ waiting[t] # u
    PROVE  CommandInv'
<1> USE DEF CommandInv
<1>1. CallsTyped'
  BY DecideEffect DEF CallsTyped
<1>2. NoResultYet'
  BY DecideEffect DEF NoResultYet
<1>3. TrueWasSeen'
  BY DecideEffect DEF TrueWasSeen
<1>4. WaitersRead'
  BY DecideEffect DEF CallsTyped, WaitersRead, Reads, TypeOf
<1> QED BY <1>1, <1>2, <1>3, <1>4

LEMMA CommandStep == CommandInv /\ [Next]_vars => CommandInv'
<1> SUFFICES ASSUME CommandInv, [Next]_vars PROVE CommandInv'
  OBVIOUS
<1> USE DEF CommandInv, CallsTyped
<1>1. ASSUME NEW u \in Users, Register(u) PROVE CommandInv'
  <2>1. CASE waiting[TypeOf(u)] = None
    <3>1. TypeOf(u) \in Types
      BY DEF TypeOf, TypeAt, Types
    <3>2. CallsTyped' /\ NoResultYet' /\ TrueWasSeen'
      BY <1>1, <2>1, <3>1 DEF Register, NoResultYet, TrueWasSeen
    <3>3. WaitersRead'
      BY <1>1, <2>1, <3>1 DEF Register, WaitersRead, Reads, TypeOf
    <3> QED BY <3>2, <3>3
  <2>2. CASE waiting[TypeOf(u)] # None
    <3>1. Decide(u, Nothing) /\ waiting' = waiting /\ Reads(u) /\ \A t \in Types : waiting[t] # u
      BY <1>1, <2>2 DEF Register
    <3> QED BY <3>1, DecideInv
  <2> QED BY <2>1, <2>2
<1>2. ASSUME NEW t \in Types, Delivered(t) PROVE CommandInv'
  <2> DEFINE u == waiting[t]
  <2>1. u \in Users /\ Reads(u) /\ TypeOf(u) = t
    BY <1>2 DEF Delivered, WaitersRead
  <2>2. PICK r : Decide(u, r)
    BY <1>2 DEF Delivered
  <2>3. waiting' = [waiting EXCEPT ![t] = None]
    BY <1>2 DEF Delivered
  <2>4. \A s \in Types : waiting'[s] # None => waiting'[s] = waiting[s] /\ waiting[s] # u
    BY <2>1, <2>3 DEF WaitersRead
  <2> QED BY <2>1, <2>2, <2>3, <2>4, DecideInv
<1>3. ASSUME NEW u \in Users, TimesOut(u) PROVE CommandInv'
  <2>1. /\ Reads(u) /\ waiting[TypeOf(u)] = u /\ Decide(u, Nothing)
        /\ waiting' = [waiting EXCEPT ![TypeOf(u)] = None]
    BY <1>3 DEF TimesOut
  <2>2. \A s \in Types : waiting'[s] # None => waiting'[s] = waiting[s] /\ waiting[s] # u
    BY <2>1 DEF WaitersRead
  <2> QED BY <2>1, <2>2, DecideInv
<1>4. ASSUME NEW u \in Users, Send(u) PROVE CommandInv'
  <2>1. \A t \in Types : waiting[t] # None => waiting[t] # u
    BY <1>4 DEF Send, WaitersRead, Reads
  <2>2. CallsTyped' /\ NoResultYet' /\ TrueWasSeen'
    <3>1. CASE link
      <4>1. /\ call' = [call EXCEPT ![u].step = "wait"] /\ result' = result /\ waiting' = waiting
            /\ seen' = [seen EXCEPT ![u] = "nothing"] /\ call[u].step = "send"
        BY <1>4, <3>1 DEF Send, Goto
      <4>2. CallsTyped'
        BY <4>1 DEF Steps, Readings
      <4>3. result[u] = "none"
        BY <4>1 DEF NoResultYet
      <4>4. NoResultYet' /\ TrueWasSeen'
        BY <4>1, <4>3 DEF NoResultYet, TrueWasSeen
      <4> QED BY <4>2, <4>4
    <3>2. CASE ~link
      BY <1>4, <3>2 DEF Send, Return, Idle, NoResultYet, TrueWasSeen, Steps, Readings
    <3> QED BY <3>1, <3>2
  <2>3. WaitersRead'
    BY <1>4, <2>1 DEF Send, Goto, Return, WaitersRead, Reads, TypeOf
  <2> QED BY <2>2, <2>3
<1>5. ASSUME NEW u \in Users, GiveUp(u) PROVE CommandInv'
  <2>1. CallsTyped' /\ NoResultYet' /\ TrueWasSeen'
    BY <1>5 DEF GiveUp, Return, Idle, NoResultYet, TrueWasSeen, Steps, Readings
  <2>2. WaitersRead'
    BY <1>5 DEF GiveUp, Return, WaitersRead, Reads, TypeOf
  <2> QED BY <2>1, <2>2
<1>6. ASSUME NEW u \in Users, NEW c \in Commands, Begin(u, c) PROVE CommandInv'
  <2>1. \A t \in Types : waiting[t] # None => waiting[t] # u
    BY <1>6 DEF Begin, Idle, WaitersRead, Reads
  <2>2. CallsTyped' /\ NoResultYet' /\ TrueWasSeen'
    <3>1. CASE c = "setSpeed101"
      BY <1>6, <3>1 DEF Begin, Return, Idle, NoResultYet, TrueWasSeen, Steps, Readings
    <3>2. CASE c # "setSpeed101"
      BY <1>6, <3>2, SMTT(30) DEF Begin, FirstStep, NoResultYet, TrueWasSeen, Steps, Readings
    <3> QED BY <3>1, <3>2
  <2>3. WaitersRead'
    BY <1>6, <2>1 DEF Begin, Return, WaitersRead, Reads, TypeOf
  <2> QED BY <2>2, <2>3
<1>7. CASE RobotExecutes \/ RobotChanges \/ LinkFails \/ LinkReturns \/ UNCHANGED vars
  BY <1>7 DEF RobotExecutes, RobotChanges, LinkFails, LinkReturns, vars, WaitersRead, Reads, TypeOf,
              NoResultYet, TrueWasSeen
<1> QED BY <1>1, <1>2, <1>3, <1>4, <1>5, <1>6, <1>7 DEF Next, Step

\* A command returns true only after a reading that showed its state, or one that
\* was too short to show anything, whatever the other threads read, send and are
\* refused meanwhile.
THEOREM TrueIsEarned == Spec => []TrueWasSeen
<1>1. Init => CommandInv
  BY DEF Init, CommandInv, CallsTyped, WaitersRead, NoResultYet, TrueWasSeen, Idle, Steps,
         Readings
<1>2. CommandInv => TrueWasSeen
  BY DEF CommandInv
<1> QED BY <1>1, <1>2, CommandStep, PTL DEF Spec

\* A call comes to return true only in the step in which a package reaches it.
TrueNeedsPackage ==
    [][\A u \in Users : result[u] # "true" /\ result'[u] = "true" =>
           \E t \in Types : waiting[t] = u /\ Delivered(t)]_vars

\* TrueNeedsPackage: a command that getPackage refused because another thread waits
\* for the type, or whose wait ran out, never returns true for it.
THEOREM PackagesDecide == Spec => TrueNeedsPackage
<1>1. Init => CommandInv
  BY DEF Init, CommandInv, CallsTyped, WaitersRead, NoResultYet, TrueWasSeen, Idle, Steps,
         Readings
<1>2. ASSUME CommandInv, Next, NEW u \in Users, result[u] # "true", result'[u] = "true"
      PROVE  \E t \in Types : waiting[t] = u /\ Delivered(t)
  <2> USE DEF CallsTyped
  <2> CallsTyped /\ WaitersRead
    BY <1>2 DEF CommandInv
  <2>1. ASSUME NEW v \in Users, Reads(v), Decide(v, Nothing) PROVE FALSE
    <3>1. result'[v] # "true" /\ \A w \in Users \ {v} : result'[w] = result[w]
      BY <1>2, <2>1, DecideEffect
    <3> QED BY <1>2, <3>1
  <2>2. ASSUME NEW v \in Users, Register(v) \/ TimesOut(v) PROVE FALSE
    BY <1>2, <2>1, <2>2 DEF Register, TimesOut
  <2>3. ASSUME NEW v \in Users, Send(v) \/ GiveUp(v) PROVE FALSE
    BY <1>2, <2>3 DEF Send, GiveUp, Return, Goto
  <2>4. ASSUME NEW v \in Users, NEW c \in Commands, Begin(v, c) PROVE FALSE
    BY <1>2, <2>4 DEF Begin, Return
  <2>5. ASSUME NEW t \in Types, Delivered(t) PROVE waiting[t] = u
    <3>1. waiting[t] \in Users /\ Reads(waiting[t])
      BY <2>5 DEF Delivered, WaitersRead
    <3>2. PICK r : Decide(waiting[t], r)
      BY <2>5 DEF Delivered
    <3>3. \A w \in Users \ {waiting[t]} : result'[w] = result[w]
      BY <1>2, <3>1, <3>2, DecideEffect
    <3> QED BY <1>2, <3>3
  <2>6. ~(RobotExecutes \/ RobotChanges \/ LinkFails \/ LinkReturns)
    BY <1>2 DEF RobotExecutes, RobotChanges, LinkFails, LinkReturns
  <2> QED BY <1>2, <2>2, <2>3, <2>4, <2>5, <2>6 DEF Next, Step
<1>3. CommandInv /\ [Next]_vars =>
        [\A u \in Users : result[u] # "true" /\ result'[u] = "true" =>
             \E t \in Types : waiting[t] = u /\ Delivered(t)]_vars
  BY <1>2
<1> QED BY <1>1, <1>3, CommandStep, PTL DEF Spec, TrueNeedsPackage
=============================================================================
