------------------------- MODULE PrimaryPortProofs -------------------------
(***************************************************************************)
(* Proofs about PrimaryPort for any number of calling threads, package      *)
(* types, messages, outages and calls.                                      *)
(*                                                                          *)
(* The registry of awaited packages is correct as long as every call of     *)
(* getPackage gets a package object of its own: ready_ is never reset, so a *)
(* second call with the same object returns at once and leaves its entry.   *)
(***************************************************************************)
EXTENDS PrimaryPort, SequenceTheorems, TLAPS

\* An entry of the registry is the current object of a caller that has not left
\* getPackage, for the type it asked for, and was not parsed yet.
RegistryHome ==
    \A t \in Types : registry[t] # None =>
        \E u \in Users : /\ registry[t] = Package(u)
                         /\ want[u] = t
                         /\ call[u] # "idle"
                         /\ ~ready[u]

IInv == TypeOK /\ RegistryHome /\ StaysRegistered

----------------------------------------------------------------------------
\* The rest of a body is again the list of a body's sub-packages.
LEMMA TailOfBody ==
    ASSUME NEW b \in Bodies \cup {<<>>}, b # <<>>
    PROVE  Tail(b) \in Bodies \cup {<<>>}
<1>1. CASE \E t \in Types : b = <<t>>
  BY <1>1 DEF Bodies
<1>2. CASE \E t, u \in Types : b = <<t, u>>
  <2>1. PICK t \in Types, u \in Types : b = <<t, u>>
    BY <1>2
  <2>2. Tail(b) = <<u>>
    BY <2>1
  <2> QED BY <2>2 DEF Bodies
<1>3. CASE b = <<"bad">>
  BY <1>3 DEF Bodies
<1> QED BY <1>1, <1>2, <1>3 DEF Bodies

\* Taking tokens from the front of a stream, and adding a message at its end.
LEMMA StreamTypes ==
    ASSUME NEW q \in Seq(Token)
    PROVE  /\ \A n, k \in Nat : n <= Len(q) => SubSeq(q, k + 1, n) \in Seq(Token)
           /\ q # <<>> => Head(q) \in Token /\ Tail(q) \in Seq(Token)
           /\ \A r \in Seq(Token) : q \o r \in Seq(Token)
<1>1. ASSUME NEW n \in Nat, NEW k \in Nat, n <= Len(q)
      PROVE  SubSeq(q, k + 1, n) \in Seq(Token)
  <2>1. \A i \in (k + 1)..n : q[i] \in Token
    BY <1>1, ElementOfSeq
  <2> QED BY <2>1, SubSeqProperties
<1>2. q # <<>> => Head(q) \in Token /\ Tail(q) \in Seq(Token)
  BY HeadTailProperties
<1>3. \A r \in Seq(Token) : q \o r \in Seq(Token)
  BY ConcatProperties
<1> QED BY <1>1, <1>2, <1>3

LEMMA MessageType ==
    ASSUME NEW b \in Bodies
    PROVE  <<Half("head1"), Half("head2"), [part |-> "body", subs |-> b]>> \in Seq(Token)
<1>1. Half("head1") \in Token /\ Half("head2") \in Token
  BY DEF Half, Token
<1>2. [part |-> "body", subs |-> b] \in Token
  BY DEF Token
<1> QED BY <1>1, <1>2

----------------------------------------------------------------------------
\* Every step of connect, disconnect, sendScript, the background thread and
\* getPackage keeps the variables in their types.
LEMMA TypeStep == TypeOK /\ [Next]_vars => TypeOK'
<1> SUFFICES ASSUME TypeOK, [Next]_vars PROVE TypeOK'
  OBVIOUS
<1> USE PrimaryBounds
<1>0. <<>> \in Seq(Token)
  OBVIOUS
<1> USE DEF TypeOK, connVars, envVars, loopVars, ctlVars, pkgVars
<1>1. CASE RobotSends
  <2>1. PICK b \in Bodies :
          wire' = wire \o <<Half("head1"), Half("head2"), [part |-> "body", subs |-> b]>>
    BY <1>1 DEF RobotSends
  <2>2. wire' \in Seq(Token)
    BY <2>1, MessageType, StreamTypes
  <2> QED BY <1>1, <2>2 DEF RobotSends
<1>2. CASE Arrives
  <2>1. PICK n \in 1..Len(wire) : /\ inq' = inq \o SubSeq(wire, 1, n)
                                  /\ wire' = SubSeq(wire, n + 1, Len(wire))
    BY <1>2 DEF Arrives
  <2>2. SubSeq(wire, 0 + 1, n) \in Seq(Token) /\ wire' \in Seq(Token)
    BY <2>1, StreamTypes
  <2>3. inq' \in Seq(Token)
    BY <2>1, <2>2, StreamTypes
  <2> QED BY <1>2, <2>2, <2>3 DEF Arrives
<1>3. CASE RobotGoes
  <2>1. wire' \in Seq(Token)
    BY <1>0, <1>3 DEF RobotGoes
  <2>2. sock' \in {"null", "up", "down"} /\ outages' \in Nat
    BY <1>0, <1>3 DEF RobotGoes
  <2> QED BY <1>3, <2>1, <2>2 DEF RobotGoes
<1>4. CASE RobotReturns
  BY <1>4 DEF RobotReturns
<1>5. CASE Connect
  <2>1. inq' \in Seq(Token) /\ wire' \in Seq(Token)
    BY <1>0, <1>5 DEF Connect, SocketConnect
  <2>2. sock' \in {"null", "up", "down"} /\ ups' \in Nat /\ connects' \in Nat
    BY <1>0, <1>5 DEF Connect, SocketConnect
  <2>3. alive' \in BOOLEAN /\ last' \in BOOLEAN /\ thread' \in {"check", thread}
    BY <1>0, <1>5 DEF Connect, SocketConnect
  <2> QED BY <1>5, <2>1, <2>2, <2>3 DEF Connect, SocketConnect
<1>6. CASE ConnectThrows
  <2>1. inq' \in Seq(Token) /\ wire' \in Seq(Token)
    BY <1>0, <1>6 DEF ConnectThrows, SocketThrows
  <2>2. throws' \in Nat /\ connects' \in Nat
    BY <1>0, <1>6 DEF ConnectThrows, SocketThrows
  <2> QED BY <1>6, <2>1, <2>2 DEF ConnectThrows, SocketThrows
<1>7. CASE Disconnect
  BY <1>0, <1>7 DEF Disconnect
<1>8. CASE Join
  BY <1>8 DEF Join
<1>9. CASE SendScript
  <2>1. PICK how \in {"nothing", "part", "whole"} : script' = <<how # "nothing", how>>
    BY <1>9, Zenon DEF SendScript
  <2>2. (how # "nothing") \in BOOLEAN
    OBVIOUS
  <2>3. script' \in BOOLEAN \X {"nothing", "part", "whole"}
    BY <2>1, <2>2, Zenon
  <2> QED BY <1>9, <2>3 DEF SendScript
<1>10. CASE LoopCheck
  BY <1>10 DEF LoopCheck
<1>11. CASE ParserMessage
  <2>1. Len(inq) \in Nat
    BY LenProperties
  <2>2. SubSeq(inq, 3, Len(inq)) \in Seq(Token)
    <3>1. SubSeq(inq, 2 + 1, Len(inq)) \in Seq(Token)
      BY <2>1, StreamTypes
    <3> QED BY <3>1
  <2>3. inq # <<>> => Tail(inq) \in Seq(Token)
    BY StreamTypes
  <2>4. CASE inq = <<>>
    <3>1. UNCHANGED inq /\ thread' \in {"check", "report"}
      BY <1>11, <2>4 DEF ParserMessage
    <3> QED BY <1>11, <3>1 DEF ParserMessage
  <2>5. CASE inq # <<>>
    <3>1. /\ inq' = Tail(inq) \/ inq' = SubSeq(inq, 3, Len(inq))
          /\ thread' \in {"check", "report", "body"}
      BY <1>11, <2>5 DEF ParserMessage
    <3>2. inq' \in Seq(Token)
      BY <2>2, <2>3, <2>5, <3>1, Zenon
    <3> QED BY <1>11, <3>1, <3>2 DEF ParserMessage
  <2> QED BY <2>4, <2>5
<1>12. CASE BodyArrives
  <2>1. Head(inq) \in Token /\ Tail(inq) \in Seq(Token)
    BY <1>12, StreamTypes DEF BodyArrives
  <2>2. Head(inq).subs \in Bodies \cup {<<>>}
    BY <2>1 DEF Token
  <2> QED BY <1>12, <2>1, <2>2 DEF BodyArrives
<1>13. CASE BodyFails
  BY <1>13 DEF BodyFails
<1>14. CASE ParserSub
  <2>1. subs' \in Bodies \cup {<<>>}
    BY <1>14, TailOfBody DEF ParserSub
  <2>2. registry' \in [Types -> (Users \X Nat) \cup {None}]
    BY <1>14 DEF ParserSub
  <2>3. ready' \in [Users -> BOOLEAN]
    BY <1>14, Zenon DEF ParserSub
  <2> QED BY <1>14, <2>1, <2>2, <2>3 DEF ParserSub
<1>15. CASE BodyEnds
  BY <1>15 DEF BodyEnds
<1>16. CASE Report
  BY <1>16 DEF Report
<1>17. CASE Reconnect
  <2>1. inq' \in Seq(Token) /\ wire' \in Seq(Token)
    BY <1>0, <1>17 DEF Reconnect, SocketConnect
  <2>2. sock' \in {"null", "up", "down"} /\ ups' \in Nat
    BY <1>0, <1>17 DEF Reconnect, SocketConnect
  <2> QED BY <1>17, <2>1, <2>2 DEF Reconnect, SocketConnect
<1>18. CASE ReconnectThrows
  <2>1. inq' \in Seq(Token) /\ wire' \in Seq(Token)
    BY <1>0, <1>18 DEF ReconnectThrows, SocketThrows
  <2>2. throws' \in Nat
    BY <1>0, <1>18 DEF ReconnectThrows, SocketThrows
  <2> QED BY <1>18, <2>1, <2>2 DEF ReconnectThrows, SocketThrows
<1>19. ASSUME NEW u \in Users, NEW t \in Types, NEW fresh \in BOOLEAN, GetPackage(u, t, fresh)
       PROVE  TypeOK'
  <2>1. /\ object' \in [Users -> Nat] /\ calls' \in [Users -> Nat]
        /\ want' \in [Users -> Types] /\ ready' \in [Users -> BOOLEAN]
    BY <1>19 DEF GetPackage
  <2>2. refused' \in [Users -> BOOLEAN]
    BY <1>19, Zenon DEF GetPackage
  <2>3. <<u, object'[u]>> \in Users \X Nat
    BY <2>1
  <2>4. /\ registry' \in [Types -> (Users \X Nat) \cup {None}]
        /\ call' \in [Users -> {"idle", "waiting", "timedOut"}]
    BY <1>19, <2>3 DEF GetPackage
  <2> QED BY <1>19, <2>1, <2>2, <2>4 DEF GetPackage
<1>20. ASSUME NEW u \in Users, WaitReturns(u) PROVE TypeOK'
  BY <1>20 DEF WaitReturns
<1>21. ASSUME NEW u \in Users, WaitTimesOut(u) PROVE TypeOK'
  BY <1>21 DEF WaitTimesOut
<1>22. ASSUME NEW u \in Users, EraseAfterTimeout(u) PROVE TypeOK'
  BY <1>22 DEF EraseAfterTimeout
<1>23. CASE UNCHANGED vars
  BY <1>23 DEF vars
<1> QED
  BY <1>1, <1>2, <1>3, <1>4, <1>5, <1>6, <1>7, <1>8, <1>9, <1>10, <1>11, <1>12, <1>13,
     <1>14, <1>15, <1>16, <1>17, <1>18, <1>19, <1>20, <1>21, <1>22, <1>23
     DEF Next, AsyncLoop, Environment, Caller

LEMMA TypeInit == Init => TypeOK
<1> SUFFICES ASSUME Init PROVE TypeOK
  OBVIOUS
<1>1. (CHOOSE t \in Types : TRUE) \in Types
  BY SomeType
<1>2. <<>> \in Seq(Token)
  OBVIOUS
<1> QED BY <1>1, <1>2 DEF Init, TypeOK

\* Every variable of the primary port client keeps its type.
THEOREM TypeCorrect == Spec => []TypeOK
  BY TypeInit, TypeStep, PTL DEF Spec

----------------------------------------------------------------------------
\* Steps outside getPackage and the parser leave the registry and the callers alone.
LEMMA RegistryFrame ==
    ASSUME RegistryHome, StaysRegistered, UNCHANGED pkgVars
    PROVE  RegistryHome' /\ StaysRegistered'
  BY DEF RegistryHome, StaysRegistered, Package, pkgVars

\* Objects of different callers are different.
LEMMA PackagesDiffer ==
    ASSUME NEW u \in Users, NEW v \in Users, Package(u) = Package(v)
    PROVE  u = v
  BY DEF Package

\* ParserSub: the caller whose package is parsed loses its entry as it becomes ready.
LEMMA ParserSubStep ==
    ASSUME IInv, ParserSub
    PROVE  RegistryHome' /\ StaysRegistered'
<1> DEFINE h == Head(subs)
<1>1. /\ ready' = [u \in Users |-> ready[u] \/ registry[h] = Package(u)]
      /\ registry' = [registry EXCEPT ![h] = None]
      /\ UNCHANGED <<call, want, object>>
  BY DEF ParserSub
<1>2. h \in Types
  BY TailOfBody DEF IInv, TypeOK, ParserSub, Bodies
<1> HIDE DEF h
<1>3. ASSUME NEW t \in Types, registry'[t] # None
      PROVE  \E u \in Users : /\ registry'[t] = Package(u)' /\ want'[u] = t
                              /\ call'[u] # "idle" /\ ~ready'[u]
  <2>1. t # h /\ registry'[t] = registry[t]
    BY <1>1, <1>2, <1>3 DEF IInv, TypeOK
  <2>2. PICK u \in Users : /\ registry[t] = Package(u) /\ want[u] = t
                           /\ call[u] # "idle" /\ ~ready[u]
    BY <1>3, <2>1 DEF IInv, RegistryHome
  <2>3. registry[h] # Package(u)
    <3>1. SUFFICES ASSUME registry[h] = Package(u) PROVE FALSE
      OBVIOUS
    <3>2. registry[h] # None
      BY <2>1, <2>2, <3>1, <1>3
    <3>3. PICK v \in Users : registry[h] = Package(v) /\ want[v] = h
      BY <1>2, <3>2 DEF IInv, RegistryHome
    <3>4. v = u
      BY <3>1, <3>3, PackagesDiffer
    <3> QED BY <2>1, <2>2, <3>3, <3>4
  <2> QED BY <1>1, <2>1, <2>2, <2>3 DEF Package
<1>4. ASSUME NEW u \in Users, call'[u] = "waiting", ~ready'[u]
      PROVE  registry'[want'[u]] = Package(u)'
  <2>1. ~ready[u] /\ registry[h] # Package(u)
    BY <1>1, <1>4
  <2>2. registry[want[u]] = Package(u)
    BY <1>1, <1>4, <2>1 DEF IInv, StaysRegistered
  <2> QED BY <1>1, <2>1, <2>2 DEF Package, IInv, TypeOK
<1> QED BY <1>3, <1>4 DEF RegistryHome, StaysRegistered

\* getPackage: the registration.  The object is new, so no entry can be mistaken for it.
LEMMA GetPackageStep ==
    ASSUME IInv, ~ReusePackages, NEW u \in Users, NEW t \in Types, NEW fresh \in BOOLEAN,
           GetPackage(u, t, fresh)
    PROVE  RegistryHome' /\ StaysRegistered'
<1>1. fresh /\ call[u] = "idle"
  BY DEF GetPackage
<1>2. /\ object' = [object EXCEPT ![u] = @ + 1]
      /\ ready' = [ready EXCEPT ![u] = FALSE]
      /\ want' = [want EXCEPT ![u] = t]
      /\ IF registry[t] = None
         THEN /\ registry' = [registry EXCEPT ![t] = <<u, object'[u]>>]
              /\ call' = [call EXCEPT ![u] = "waiting"]
         ELSE UNCHANGED <<registry, call>>
  BY <1>1 DEF GetPackage
<1>3. \A v \in Users : v # u => Package(v)' = Package(v) /\ want'[v] = want[v] /\ ready'[v] = ready[v]
  BY <1>2 DEF IInv, TypeOK, Package
<1>4. Package(u)' = <<u, object'[u]>> /\ want'[u] = t /\ ready'[u] = FALSE
  BY <1>2 DEF IInv, TypeOK, Package
<1>5. CASE registry[t] = None
  <2>1. /\ registry'[t] = Package(u)' /\ call'[u] = "waiting"
        /\ \A s \in Types : s # t => registry'[s] = registry[s]
        /\ \A v \in Users : v # u => call'[v] = call[v]
    BY <1>2, <1>4, <1>5 DEF IInv, TypeOK
  <2>2. ASSUME NEW s \in Types, registry'[s] # None
        PROVE  \E v \in Users : /\ registry'[s] = Package(v)' /\ want'[v] = s
                                /\ call'[v] # "idle" /\ ~ready'[v]
    <3>1. CASE s = t
      BY <1>4, <2>1, <3>1
    <3>2. CASE s # t
      <4>1. PICK v \in Users : /\ registry[s] = Package(v) /\ want[v] = s
                               /\ call[v] # "idle" /\ ~ready[v]
        BY <2>1, <2>2, <3>2 DEF IInv, RegistryHome
      <4>2. v # u
        BY <1>1, <4>1
      <4> QED BY <1>3, <2>1, <3>2, <4>1, <4>2
    <3> QED BY <3>1, <3>2
  <2>3. ASSUME NEW v \in Users, call'[v] = "waiting", ~ready'[v]
        PROVE  registry'[want'[v]] = Package(v)'
    <3>1. CASE v = u
      BY <1>4, <2>1, <3>1
    <3>2. CASE v # u
      <4>1. registry[want[v]] = Package(v) /\ want[v] \in Types
        BY <1>3, <2>1, <2>3, <3>2 DEF IInv, StaysRegistered, TypeOK
      <4>2. want[v] # t
        <5>1. Package(v) \in Users \X Nat
          BY DEF Package, IInv, TypeOK
        <5>2. Package(v) # None
          BY <5>1, NoneIsNoPackage
        <5> QED BY <1>5, <4>1, <5>2
      <4> QED BY <1>3, <2>1, <3>2, <4>1, <4>2
    <3> QED BY <3>1, <3>2
  <2> QED BY <2>2, <2>3 DEF RegistryHome, StaysRegistered
<1>6. CASE registry[t] # None
  <2>1. UNCHANGED <<registry, call>>
    BY <1>2, <1>6
  <2>2. ASSUME NEW s \in Types, registry'[s] # None
        PROVE  \E v \in Users : /\ registry'[s] = Package(v)' /\ want'[v] = s
                                /\ call'[v] # "idle" /\ ~ready'[v]
    <3>1. PICK v \in Users : /\ registry[s] = Package(v) /\ want[v] = s
                             /\ call[v] # "idle" /\ ~ready[v]
      BY <2>1, <2>2 DEF IInv, RegistryHome
    <3>2. v # u
      BY <1>1, <3>1
    <3> QED BY <1>3, <2>1, <3>1, <3>2
  <2>3. ASSUME NEW v \in Users, call'[v] = "waiting", ~ready'[v]
        PROVE  registry'[want'[v]] = Package(v)'
    <3>1. v # u
      BY <1>1, <2>1, <2>3
    <3> QED BY <1>3, <2>1, <2>3, <3>1 DEF IInv, StaysRegistered
  <2> QED BY <2>2, <2>3 DEF RegistryHome, StaysRegistered
<1> QED BY <1>5, <1>6

\* A caller returns because its package was parsed: it has no entry any more.
LEMMA WaitReturnsStep ==
    ASSUME IInv, NEW u \in Users, WaitReturns(u)
    PROVE  RegistryHome' /\ StaysRegistered'
  BY DEF IInv, TypeOK, WaitReturns, RegistryHome, StaysRegistered, Package

\* A caller whose time is over keeps its entry until it takes mutex_.
LEMMA WaitTimesOutStep ==
    ASSUME IInv, NEW u \in Users, WaitTimesOut(u)
    PROVE  RegistryHome' /\ StaysRegistered'
  BY DEF IInv, TypeOK, WaitTimesOut, RegistryHome, StaysRegistered, Package

\* It then erases its own entry, if it is still there, and no other caller's.
LEMMA EraseStep ==
    ASSUME IInv, NEW u \in Users, EraseAfterTimeout(u)
    PROVE  RegistryHome' /\ StaysRegistered'
<1> DEFINE w == want[u]
<1>1. /\ w \in Types /\ call[u] = "timedOut"
      /\ registry' = [registry EXCEPT ![w] = IF @ = Package(u) THEN None ELSE @]
      /\ call' = [call EXCEPT ![u] = "idle"]
      /\ UNCHANGED <<want, object, ready>>
  BY DEF EraseAfterTimeout, IInv, TypeOK
<1>2. \A v \in Users : Package(v)' = Package(v)
  BY <1>1 DEF Package
<1> HIDE DEF w
<1>3. ASSUME NEW s \in Types, registry'[s] # None
      PROVE  \E v \in Users : /\ registry'[s] = Package(v)' /\ want'[v] = s
                              /\ call'[v] # "idle" /\ ~ready'[v]
  <2>1. registry'[s] = registry[s]
    BY <1>1, <1>3 DEF IInv, TypeOK
  <2>2. PICK v \in Users : /\ registry[s] = Package(v) /\ want[v] = s
                           /\ call[v] # "idle" /\ ~ready[v]
    BY <1>3, <2>1 DEF IInv, RegistryHome
  <2>3. v # u
    BY <1>1, <1>3, <2>1, <2>2 DEF w, IInv, TypeOK
  <2> QED BY <1>1, <1>2, <2>1, <2>2, <2>3 DEF IInv, TypeOK
<1>4. ASSUME NEW v \in Users, call'[v] = "waiting", ~ready'[v]
      PROVE  registry'[want'[v]] = Package(v)'
  <2>1. v # u /\ call[v] = "waiting"
    BY <1>1, <1>4 DEF IInv, TypeOK
  <2>2. registry[want[v]] = Package(v) /\ want[v] \in Types
    BY <1>1, <1>4, <2>1 DEF IInv, StaysRegistered, TypeOK
  <2>3. registry[want[v]] # Package(u)
    BY <2>1, <2>2, PackagesDiffer
  <2> QED BY <1>1, <1>2, <2>2, <2>3 DEF IInv, TypeOK
<1> QED BY <1>3, <1>4 DEF RegistryHome, StaysRegistered

----------------------------------------------------------------------------
LEMMA RegistryStep ==
    ASSUME ~ReusePackages
    PROVE  IInv /\ [Next]_vars => IInv'
<1> SUFFICES ASSUME IInv, [Next]_vars PROVE RegistryHome' /\ StaysRegistered'
  BY TypeStep DEF IInv
<1>1. CASE UNCHANGED pkgVars
  BY <1>1, RegistryFrame DEF IInv
<1>2. CASE ParserSub
  BY <1>2, ParserSubStep
<1>3. ASSUME NEW u \in Users, Caller(u)
      PROVE  RegistryHome' /\ StaysRegistered'
  BY <1>3, GetPackageStep, WaitReturnsStep, WaitTimesOutStep, EraseStep DEF Caller
<1>4. Next => ParserSub \/ (\E u \in Users : Caller(u)) \/ UNCHANGED pkgVars
  BY DEF Next, AsyncLoop, Environment, RobotSends, Arrives, RobotGoes, RobotReturns, Connect,
         ConnectThrows, Disconnect, Join, SendScript, LoopCheck, ParserMessage, BodyArrives,
         BodyFails, BodyEnds, Report, Reconnect, ReconnectThrows
<1>5. UNCHANGED vars => UNCHANGED pkgVars
  BY DEF vars
<1> QED BY <1>1, <1>2, <1>3, <1>4, <1>5

LEMMA RegistryInit == Init => IInv
  BY TypeInit DEF Init, IInv, RegistryHome, StaysRegistered

\* StaysRegistered of getPackage: whatever other callers do, a caller that waits with
\* a package of its own stays in the registry until its package is parsed.
THEOREM WaitersStayRegistered ==
    ASSUME ~ReusePackages
    PROVE  Spec => []StaysRegistered
<1>1. IInv => StaysRegistered
  BY DEF IInv
<1> QED BY <1>1, RegistryInit, RegistryStep, PTL DEF Spec

\* NothingLeftBehind: a call of getPackage that has returned left no entry behind.
THEOREM CallsLeaveNothingBehind ==
    ASSUME ~ReusePackages
    PROVE  Spec => []NothingLeftBehind
<1>1. IInv => NothingLeftBehind
  <2> SUFFICES ASSUME IInv, NEW u \in Users, call[u] = "idle", NEW t \in Types,
                      registry[t] = Package(u)
               PROVE  FALSE
    BY DEF NothingLeftBehind
  <2>1. registry[t] # None
    BY NoneIsNoPackage DEF IInv, TypeOK, Package
  <2>2. PICK v \in Users : registry[t] = Package(v) /\ call[v] # "idle"
    BY <2>1 DEF IInv, RegistryHome
  <2> QED BY <2>2, PackagesDiffer
<1> QED BY <1>1, RegistryInit, RegistryStep, PTL DEF Spec

\* The registry holds the callers that wait and no others.
THEOREM RegistryStaysInStep ==
    ASSUME ~ReusePackages
    PROVE  Spec => []RegistryInStep
<1>1. StaysRegistered /\ NothingLeftBehind => RegistryInStep
  BY DEF RegistryInStep
<1> QED BY <1>1, WaitersStayRegistered, CallsLeaveNothingBehind, PTL

\* RefusedForAReason: an entry that stands in a caller's way belongs to a call of
\* another thread that is still under way.
THEOREM RefusalsAreJust ==
    ASSUME ~ReusePackages
    PROVE  Spec => RefusedForAReason
<1> DEFINE Just ==
        \A u \in Users : calls'[u] > calls[u] /\ refused'[u] =>
            \E v \in Users \ {u} : call[v] # "idle" /\ want[v] = want'[u]
<1>1. IInv /\ [Next]_vars => [Just]_vars
  <2> SUFFICES ASSUME IInv, [Next]_vars, NEW u \in Users, calls'[u] > calls[u], refused'[u]
               PROVE  \E v \in Users \ {u} : call[v] # "idle" /\ want[v] = want'[u]
    OBVIOUS
  <2>1. calls' # calls
    BY DEF IInv, TypeOK
  <2>2. PICK w \in Users, t \in Types, fresh \in BOOLEAN : GetPackage(w, t, fresh)
    BY <2>1 DEF Next, AsyncLoop, Environment, RobotSends, Arrives, RobotGoes, RobotReturns,
        Connect, ConnectThrows, Disconnect, Join, SendScript, LoopCheck, ParserMessage,
        BodyArrives, BodyFails, ParserSub, BodyEnds, Report, Reconnect, ReconnectThrows, Caller,
        WaitReturns, WaitTimesOut, EraseAfterTimeout, pkgVars, vars
  <2>3. w = u
    BY <2>2 DEF GetPackage, IInv, TypeOK
  <2>4. call[u] = "idle" /\ want'[u] = t /\ registry[t] # None
    BY <2>2, <2>3 DEF GetPackage, IInv, TypeOK
  <2>5. PICK v \in Users : want[v] = t /\ call[v] # "idle"
    BY <2>4 DEF IInv, RegistryHome
  <2> QED BY <2>4, <2>5
<1> QED BY <1>1, RegistryInit, RegistryStep, PTL DEF Spec, RefusedForAReason

----------------------------------------------------------------------------
\* While the loop believes in its connection, that connection is not reported yet.
Unreported ==
    last /\ thread \in {"check", "parse", "body", "subs", "report"} => reports < ups + throws

\* ReportsHaveConnections: however often the reconnect fails, the loop reports a
\* connection at most once, and once more for every attempt that throws.
THEOREM ReportedOnce == Spec => []ReportsHaveConnections
<1> DEFINE I == TypeOK /\ ReportsHaveConnections /\ Unreported
<1>1. Init => I
  BY TypeInit DEF Init, ReportsHaveConnections, Unreported
<1>2. I /\ [Next]_vars => I'
  <2> SUFFICES ASSUME I, [Next]_vars PROVE ReportsHaveConnections' /\ Unreported'
    BY TypeStep
  <2> USE DEF ReportsHaveConnections, Unreported
  <2>1. reports \in Nat /\ ups \in Nat /\ throws \in Nat
    BY DEF TypeOK
  <2>2. CASE Connect
    BY <2>1, <2>2 DEF Connect, SocketConnect, envVars
  <2>3. CASE ConnectThrows \/ ReconnectThrows
    BY <2>1, <2>3 DEF ConnectThrows, ReconnectThrows, SocketThrows, loopVars, ctlVars
  <2>4. CASE Report
    BY <2>1, <2>4 DEF Report, envVars
  <2>5. CASE Reconnect
    BY <2>1, <2>5 DEF Reconnect, SocketConnect, envVars
  <2>6. CASE LoopCheck
    BY <2>1, <2>6 DEF LoopCheck, envVars, ctlVars
  <2>7. CASE ParserMessage
    BY <2>1, <2>7 DEF ParserMessage, envVars, ctlVars
  <2>8. CASE BodyArrives \/ BodyFails \/ ParserSub \/ BodyEnds
    BY <2>1, <2>8 DEF BodyArrives, BodyFails, ParserSub, BodyEnds, envVars, ctlVars
  <2>9. CASE Disconnect \/ Join
    BY <2>1, <2>9 DEF Disconnect, Join, envVars
  <2>10. CASE UNCHANGED <<last, thread, reports, ups, throws>>
    BY <2>10
  <2>11. Environment \/ SendScript \/ (\E u \in Users : Caller(u)) \/ UNCHANGED vars
         => UNCHANGED <<last, thread, reports, ups, throws>>
    BY DEF Environment, RobotSends, Arrives, RobotGoes, RobotReturns, SendScript, Caller,
           GetPackage, WaitReturns, WaitTimesOut, EraseAfterTimeout, vars, envVars, loopVars,
           ctlVars
  <2> QED BY <2>2, <2>3, <2>4, <2>5, <2>6, <2>7, <2>8, <2>9, <2>10, <2>11
          DEF Next, AsyncLoop
<1> QED BY <1>1, <1>2, PTL DEF Spec

=============================================================================
