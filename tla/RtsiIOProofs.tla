---------------------------- MODULE RtsiIOProofs ----------------------------
(***************************************************************************)
(* Proofs about RtsiIO for any number of setters, outputs, connects, losses *)
(* and refusals: the receive thread never meets a null socket, and   *)
(* isConnected() tells the truth, up to a flag nobody has written.  Then    *)
(* about RtsiRecipe, for any recipes and numbers: what a recipe carries is  *)
(* what was put into it, which needs facts about numbers and bytes.         *)
(***************************************************************************)
EXTENDS RtsiIO, RtsiRecipe, SequenceTheorems, WellFoundedInduction, TLAPS

NoThread == {"none", "joined"}

\* connect() reaches the hand-shake only after an earlier thread was joined.
HandShakeAlone == ctl \in {"open"} \cup HandShake => thread \in NoThread

\* While the first package is awaited, connect() waits for the promise.
FirstAwaited == thread = "first" => ctl = "first" /\ promise = "unset"

\* A thread that may go round its loop once more has a socket.
LoopHasSocket == thread = "check" /\ alive => sock # "null"

SocketInv == TypeOK /\ HandShakeAlone /\ FirstAwaited /\ LoopHasSocket /\ ThreadHasSocket

\* A flag that is set belongs to a thread, which runs unless connect() is about to
\* learn that the first package did not come; or it was never written.
FlagHasThread ==
    /\ thread = "none" => alive \in InitialAlive /\ result # "true"
    /\ thread = "joined" => ~alive
    /\ ctl = "first" => thread \notin NoThread
    /\ thread = "ended" /\ alive => ctl = "first" /\ promise = "false"
    /\ ctl = "joining" => ~alive /\ thread \notin NoThread

\* Without a socket the client does not think it is connected.
StateHasSocket == sock = "null" => state = "disconnected"

FlagInv == SocketInv /\ FlagHasThread /\ StateHasSocket

----------------------------------------------------------------------------
LEMMA TypeInit == Init => TypeOK
<1> SUFFICES ASSUME Init PROVE TypeOK
  OBVIOUS
<1>1. (CHOOSE o \in Outputs : TRUE) \in Outputs
  BY SomeOutput
<1>2. setter \in [Setters -> [step : {"idle", "mask", "flagged", "level"}, out : Outputs,
                              high : BOOLEAN]]
  BY <1>1 DEF Init
<1>3. recipe \in Recipe /\ packet \in Packet
  BY DEF Init, Recipe, Packet
<1>4. asked \subseteq Outputs \X BOOLEAN
  BY DEF Init
<1> QED BY <1>2, <1>3, <1>4, RtsiSwitches DEF Init, TypeOK

\* Steps of connect(), disconnect() and of the link.
LEMMA CallTypes == TypeOK /\ (Call \/ Connect \/ Disconnect \/ LinkBreaks) => TypeOK'
<1> SUFFICES ASSUME TypeOK, Call \/ Connect \/ Disconnect \/ LinkBreaks PROVE TypeOK'
  OBVIOUS
<1> USE DEF TypeOK, clientVars, ioVars, inputVars, robotVars, HandShake, Running
<1>1. CASE Connect
  <2>1. /\ sock' \in {"null", "open", "lost", "silent"}
        /\ state' \in {"disconnected", "connected", "started"}
    BY <1>1 DEF Connect, SocketDisconnect
  <2>2. alive' \in BOOLEAN /\ ctl' \in {"joining", "open"} /\ after' \in {"idle", "open"}
    BY <1>1 DEF Connect
  <2> QED BY <1>1, <2>1, <2>2 DEF Connect
<1>2. CASE Disconnect
  <2>1. alive' \in BOOLEAN
    BY <1>2, Zenon DEF Disconnect
  <2> QED BY <1>2, <2>1 DEF Disconnect, SocketDisconnect
<1>3. CASE LinkBreaks
  BY <1>3 DEF LinkBreaks
<1>4. CASE Join
  BY <1>4 DEF Join, SocketDisconnect
<1>5. CASE Open
  BY <1>5 DEF Open
<1>6. CASE HandShakeThrows
  BY <1>6 DEF HandShakeThrows, ReceiveThrows, SocketDisconnect
<1>7. CASE Refused
  BY <1>7 DEF Refused
<1>8. CASE RecipeRefused
  BY <1>8 DEF RecipeRefused, SocketDisconnect
<1>9. CASE Negotiate
  BY <1>9 DEF Negotiate
<1>10. CASE GetVersion
  BY <1>10 DEF GetVersion
<1>11. CASE SetupInput
  <2>1. recipe' \in Recipe
    BY <1>11 DEF SetupInput, Recipe
  <2> QED BY <1>11, <2>1 DEF SetupInput
<1>12. CASE SetupOutput
  BY <1>12 DEF SetupOutput
<1>13. CASE Start
  <2>1. alive' \in BOOLEAN
    BY <1>13, Zenon DEF Start
  <2> QED BY <1>13, <2>1 DEF Start
<1>14. CASE Started
  <2>1. alive' \in BOOLEAN
    BY <1>14, Zenon DEF Started
  <2> QED BY <1>14, <2>1 DEF Started
<1> QED BY <1>1, <1>2, <1>3, <1>4, <1>5, <1>6, <1>7, <1>8, <1>9, <1>10, <1>11, <1>12, <1>13,
           <1>14 DEF Call

\* Steps of the receive thread.
LEMMA ThreadTypes == TypeOK /\ ReceiveThread => TypeOK'
<1> SUFFICES ASSUME TypeOK, ReceiveThread PROVE TypeOK'
  OBVIOUS
<1> USE DEF TypeOK, clientVars, inputVars, robotVars, Running
<1>1. CASE FirstData
  BY <1>1 DEF FirstData
<1>2. CASE FirstFails
  BY <1>2 DEF FirstFails, ReceiveThrows, SocketDisconnect
<1>3. CASE LoopCheck
  BY <1>3 DEF LoopCheck
<1>4. CASE ReceiveData
  BY <1>4 DEF ReceiveData
<1>5. CASE ReceiveFails
  BY <1>5 DEF ReceiveFails, ReceiveThrows, SocketDisconnect
<1>6. CASE TestNewCmd
  BY <1>6 DEF TestNewCmd
<1>7. CASE SendInput
  <2>1. packet' \in Packet
    BY <1>7 DEF SendInput, Packet, Recipe
  <2>2. level' \in [Outputs -> BOOLEAN]
    <3>1. ASSUME NEW o \in Outputs
          PROVE  (IF o \in recipe.mask THEN o \in recipe.high ELSE level[o]) \in BOOLEAN
      <4>1. level[o] \in BOOLEAN
        OBVIOUS
      <4>2. (o \in recipe.high) \in BOOLEAN
        OBVIOUS
      <4> QED BY <4>1, <4>2, Zenon
    <3> QED BY <1>7, <3>1, Zenon DEF SendInput
  <2> QED BY <1>7, <2>1, <2>2 DEF SendInput
<1>8. CASE SendFails
  <2>1. alive' \in BOOLEAN
    BY <1>8, Zenon DEF SendFails
  <2> QED BY <1>8, <2>1 DEF SendFails
<1>9. CASE ClearNewCmd
  <2>1. newCmd' \in BOOLEAN
    BY <1>9, Zenon DEF ClearNewCmd
  <2> QED BY <1>9, <2>1 DEF ClearNewCmd
<1> QED BY <1>1, <1>2, <1>3, <1>4, <1>5, <1>6, <1>7, <1>8, <1>9 DEF ReceiveThread

\* Steps of the setters.
LEMMA SetTypes == ASSUME TypeOK, NEW u \in Setters, Set(u) PROVE TypeOK'
<1> USE DEF TypeOK, clientVars, ioVars, robotVars
<1> DEFINE Setter == [step : {"idle", "mask", "flagged", "level"}, out : Outputs, high : BOOLEAN]
<1>1. ASSUME NEW o \in Outputs, NEW high \in BOOLEAN, SetMask(u, o, high) PROVE TypeOK'
  <2>1. setter' \in [Setters -> Setter]
    BY <1>1 DEF SetMask
  <2>2. recipe' \in Recipe
    BY <1>1 DEF SetMask, Recipe
  <2>3. asked' \subseteq Outputs \X BOOLEAN
    BY <1>1 DEF SetMask
  <2> QED BY <1>1, <2>1, <2>2, <2>3 DEF SetMask
<1>2. CASE FlagMask(u)
  <2>1. setter' \in [Setters -> Setter]
    BY <1>2 DEF FlagMask
  <2> QED BY <1>2, <2>1 DEF FlagMask
<1>3. CASE SetLevel(u)
  <2>1. setter' \in [Setters -> Setter]
    BY <1>3 DEF SetLevel
  <2>2. recipe' \in Recipe
    BY <1>3 DEF SetLevel, Recipe
  <2> QED BY <1>3, <2>1, <2>2 DEF SetLevel
<1>4. CASE FlagLevel(u)
  <2>1. setter' \in [Setters -> Setter]
    BY <1>4 DEF FlagLevel
  <2> QED BY <1>4, <2>1 DEF FlagLevel
<1> QED BY <1>1, <1>2, <1>3, <1>4 DEF Set

LEMMA TypeStep == TypeOK /\ [Next]_vars => TypeOK'
<1> SUFFICES ASSUME TypeOK, [Next]_vars PROVE TypeOK'
  OBVIOUS
<1>1. CASE UNCHANGED vars
  BY <1>1 DEF vars, TypeOK, clientVars, ioVars, inputVars, robotVars
<1> QED BY <1>1, CallTypes, ThreadTypes, SetTypes DEF Next

\* Every variable of the RTSI client keeps its type.
THEOREM TypeCorrect == Spec => []TypeOK
  BY TypeInit, TypeStep, PTL DEF Spec

----------------------------------------------------------------------------
\* What the setters leave alone.
LEMMA SetFrame ==
    ASSUME NEW u \in Setters, Set(u)
    PROVE  UNCHANGED <<sock, state, ctl, result, alive, thread, promise>>
  BY DEF Set, SetMask, FlagMask, SetLevel, FlagLevel, clientVars, ioVars

LEMMA SocketStep == SocketInv /\ [Next]_vars => SocketInv'
<1> SUFFICES ASSUME SocketInv, [Next]_vars
             PROVE  HandShakeAlone' /\ FirstAwaited' /\ LoopHasSocket' /\ ThreadHasSocket'
  BY TypeStep DEF SocketInv
<1> USE DEF HandShakeAlone, FirstAwaited, LoopHasSocket, ThreadHasSocket, NoThread, HandShake,
            Running
<1>0. HandShakeAlone /\ FirstAwaited /\ LoopHasSocket /\ ThreadHasSocket /\ TypeOK
  BY DEF SocketInv
<1>1. CASE UNCHANGED vars
  BY <1>0, <1>1 DEF vars, clientVars, ioVars
<1>2. CASE \E u \in Setters : Set(u)
  BY <1>0, <1>2, SetFrame
<1>3. CASE LinkBreaks
  BY <1>0, <1>3 DEF LinkBreaks, ioVars
<1>4. CASE Connect
  BY <1>0, <1>4 DEF Connect, SocketDisconnect, Joinable
<1>5. CASE Disconnect
  BY <1>0, <1>5 DEF Disconnect, SocketDisconnect, Joinable
<1>6. CASE Join
  BY <1>0, <1>6 DEF Join, SocketDisconnect, TypeOK
<1>7. CASE Open
  BY <1>0, <1>7 DEF Open
<1>8. CASE HandShakeThrows
  BY <1>0, <1>8 DEF HandShakeThrows, ReceiveThrows, SocketDisconnect
<1>9. CASE Refused \/ RecipeRefused
  BY <1>0, <1>9 DEF Refused, RecipeRefused, SocketDisconnect
<1>10. CASE Negotiate \/ GetVersion \/ SetupInput \/ SetupOutput
  BY <1>0, <1>10 DEF Negotiate, GetVersion, SetupInput, SetupOutput, clientVars
<1>11. CASE Start \/ Started
  BY <1>0, <1>11 DEF Start, Started, clientVars
<1>12. CASE FirstData \/ FirstFails
  BY <1>0, <1>12 DEF FirstData, FirstFails, ReceiveThrows, SocketDisconnect, clientVars
<1>13. CASE LoopCheck
  BY <1>0, <1>13 DEF LoopCheck, clientVars
<1>14. CASE ReceiveData \/ TestNewCmd \/ SendInput \/ ClearNewCmd
  BY <1>0, <1>14 DEF ReceiveData, TestNewCmd, SendInput, ClearNewCmd, clientVars
<1>15. CASE ReceiveFails \/ SendFails
  BY <1>0, <1>15 DEF ReceiveFails, SendFails, ReceiveThrows, SocketDisconnect, clientVars
<1> QED BY <1>1, <1>2, <1>3, <1>4, <1>5, <1>6, <1>7, <1>8, <1>9, <1>10, <1>11, <1>12, <1>13,
           <1>14, <1>15 DEF Next, Call, ReceiveThread

\* ThreadHasSocket: the receive thread never uses a null socket, whoever dropped it.
THEOREM SocketForThread == Spec => []ThreadHasSocket
<1>1. Init => SocketInv
  BY TypeInit DEF Init, SocketInv, HandShakeAlone, FirstAwaited, LoopHasSocket, ThreadHasSocket,
                  HandShake, Running
<1>2. SocketInv => ThreadHasSocket
  BY DEF SocketInv
<1> QED BY <1>1, <1>2, SocketStep, PTL DEF Spec

----------------------------------------------------------------------------
LEMMA StateStep == TypeOK /\ StateHasSocket /\ [Next]_vars => StateHasSocket'
<1> SUFFICES ASSUME TypeOK, StateHasSocket, [Next]_vars PROVE StateHasSocket'
  OBVIOUS
<1> USE DEF StateHasSocket, SocketDisconnect, clientVars
<1>1. CASE UNCHANGED vars
  BY <1>1 DEF vars
<1>2. CASE \E u \in Setters : Set(u)
  BY <1>2, SetFrame
<1>3. CASE LinkBreaks \/ Connect \/ Disconnect \/ Join \/ Open
  BY <1>3 DEF LinkBreaks, Connect, Disconnect, Join, Open
<1>4. CASE HandShakeThrows \/ Refused \/ RecipeRefused
  BY <1>4 DEF HandShakeThrows, ReceiveThrows, Refused, RecipeRefused
<1>5. CASE Negotiate \/ GetVersion \/ SetupInput \/ SetupOutput \/ Start \/ Started
  BY <1>5 DEF Negotiate, GetVersion, SetupInput, SetupOutput, Start, Started
<1>6. CASE ReceiveThread
  BY <1>6 DEF ReceiveThread, FirstData, FirstFails, LoopCheck, ReceiveData, ReceiveFails,
              ReceiveThrows, TestNewCmd, SendInput, SendFails, ClearNewCmd
<1> QED BY <1>1, <1>2, <1>3, <1>4, <1>5, <1>6 DEF Next, Call

LEMMA FlagStep == FlagInv /\ [Next]_vars => FlagInv'
<1> SUFFICES ASSUME FlagInv, [Next]_vars PROVE FlagHasThread'
  BY SocketStep, StateStep DEF FlagInv, SocketInv
<1> USE DEF FlagHasThread, HandShakeAlone, FirstAwaited, NoThread, HandShake
<1>0. FlagHasThread /\ HandShakeAlone /\ FirstAwaited /\ TypeOK
  BY DEF FlagInv, SocketInv
<1>1. CASE UNCHANGED vars
  BY <1>0, <1>1 DEF vars, clientVars, ioVars
<1>2. CASE \E u \in Setters : Set(u)
  BY <1>0, <1>2, SetFrame
<1>3. CASE LinkBreaks
  BY <1>0, <1>3 DEF LinkBreaks, ioVars
<1>4. CASE Connect
  BY <1>0, <1>4 DEF Connect, Joinable
<1>5. CASE Disconnect
  BY <1>0, <1>5 DEF Disconnect, Joinable
<1>6. CASE Join
  BY <1>0, <1>6 DEF Join, TypeOK
<1>7. CASE Open \/ HandShakeThrows \/ Refused \/ RecipeRefused
  BY <1>0, <1>7 DEF Open, HandShakeThrows, Refused, RecipeRefused
<1>8. CASE Negotiate \/ GetVersion \/ SetupInput \/ SetupOutput
  BY <1>0, <1>8 DEF Negotiate, GetVersion, SetupInput, SetupOutput
<1>9. CASE Start \/ Started
  BY <1>0, <1>9 DEF Start, Started
<1>10. CASE FirstData \/ FirstFails
  BY <1>0, <1>10 DEF FirstData, FirstFails
<1>11. CASE LoopCheck
  BY <1>0, <1>11 DEF LoopCheck
<1>12. CASE ReceiveData \/ TestNewCmd \/ SendInput \/ ClearNewCmd
  BY <1>0, <1>12 DEF ReceiveData, TestNewCmd, SendInput, ClearNewCmd
<1>13. CASE ReceiveFails \/ SendFails
  BY <1>0, <1>13 DEF ReceiveFails, SendFails
<1> QED BY <1>1, <1>2, <1>3, <1>4, <1>5, <1>6, <1>7, <1>8, <1>9, <1>10, <1>11, <1>12, <1>13
        DEF Next, Call, ReceiveThread

\* ConnectedIsReal: isConnected() is true only if there is a socket and a thread at work,
\* or no connect() has started a thread yet and the flag was TRUE before anyone wrote it.
THEOREM ConnectedMeansConnected == Spec => []ConnectedIsReal
<1>1. Init => FlagInv
  BY TypeInit DEF Init, FlagInv, SocketInv, FlagHasThread, StateHasSocket, HandShakeAlone,
                  FirstAwaited, LoopHasSocket, ThreadHasSocket, HandShake, Running, NoThread
<1>2. FlagInv => ConnectedIsReal
  BY DEF FlagInv, SocketInv, FlagHasThread, StateHasSocket, ConnectedIsReal, IsConnected,
         NoThread, Running, TypeOK
<1> QED BY <1>1, <1>2, FlagStep, PTL DEF Spec

---------------------------------------------------------------------------
(* RtsiRecipe.  The bytes of a number are computed by recursion over their   *)
(* places, so what they amount to is found by induction over the places, and *)
(* so are the bytes of a recipe over its variables.                          *)

\* Lists of m words.
Words(m) == [1 .. m -> Int]

\* The words s stand in the message behind its first f.
Placed(s, m, message, f) ==
    /\ s \in Words(m)
    /\ \A i \in 1 .. m : message[f + i] = s[i]

\* The first m words of s are those of t too.
Kept(s, t, m) == \A i \in 1 .. m : t[i] = s[i]

\* A number of words, as a sequence.
LEMMA WordList ==
    ASSUME NEW m \in Nat, NEW s \in Words(m)
    PROVE  s \in Seq(Int) /\ Len(s) = m /\ DOMAIN s = 1 .. m
<1>1. s \in Seq(Int)
  BY SeqDef DEF Words
<1>2. DOMAIN s = 1 .. Len(s) /\ Len(s) \in Nat
  BY <1>1, LenProperties
<1>3. DOMAIN s = 1 .. m
  BY DEF Words
<1>4. ASSUME NEW n \in Nat, 1 .. n = 1 .. m
      PROVE  n = m
  <2>1. n <= m
    BY <1>4
  <2>2. m <= n
    BY <1>4
  <2> QED BY <2>1, <2>2
<1> QED BY <1>1, <1>2, <1>3, <1>4, Zenon

\* A part of a message, word by word.
LEMMA PartIs ==
    ASSUME NEW s, NEW m \in Nat, m > 0, NEW message, NEW f \in Nat, Placed(s, m, message, f)
    PROVE  SubSeq(message, f + 1, f + m) = s
<1> DEFINE t == SubSeq(message, f + 1, f + m)
<1>1. s \in [1 .. m -> Int] /\ \A i \in 1 .. m : message[f + i] = s[i]
  BY DEF Placed, Words
<1>2. \A j \in f + 1 .. f + m : message[j] \in Int
  <2> TAKE j \in f + 1 .. f + m
  <2>1. j - f \in 1 .. m /\ j = f + (j - f)
    OBVIOUS
  <2>2. message[f + (j - f)] = s[j - f] /\ s[j - f] \in Int
    BY <1>1, <2>1
  <2> QED BY <2>1, <2>2
<1>3. f + 1 \in Int /\ f + m \in Int /\ f + 1 <= f + m /\ (f + m) - (f + 1) + 1 = m
  OBVIOUS
<1>4. /\ t \in Seq(Int)
      /\ Len(t) = IF f + 1 <= f + m THEN (f + m) - (f + 1) + 1 ELSE 0
      /\ \A i \in 1 .. (f + m) - (f + 1) + 1 : t[i] = message[(f + 1) + i - 1]
  BY <1>2, <1>3, SubSeqProperties
<1> HIDE DEF t
<1>5. Len(t) = m /\ \A i \in 1 .. m : t[i] = message[(f + 1) + i - 1]
  BY <1>3, <1>4
<1>6. \A i \in 1 .. m : t[i] = s[i]
  <2> TAKE i \in 1 .. m
  <2>1. (f + 1) + i - 1 = f + i
    OBVIOUS
  <2> QED BY <1>1, <1>5, <2>1
<1>7. t \in [1 .. m -> Int]
  BY <1>4, <1>5, LenProperties
<1>8. t = s
  BY <1>1, <1>6, <1>7
<1> QED BY <1>8 DEF t

\* Two lists of words, one behind the other.
LEMMA WordsJoined ==
    ASSUME NEW m \in Nat, NEW n \in Nat, NEW s \in Words(m), NEW t \in Words(n)
    PROVE  /\ s \o t \in Words(m + n)
           /\ Placed(t, n, s \o t, m)
           /\ Kept(s, s \o t, m)
<1>1. s \in Seq(Int) /\ t \in Seq(Int) /\ Len(s) = m /\ Len(t) = n
  BY WordList
<1>2. /\ s \o t \in Seq(Int) /\ Len(s \o t) = m + n
      /\ \A i \in 1 .. m + n : (s \o t)[i] = IF i <= m THEN s[i] ELSE t[i - m]
  BY <1>1, ConcatProperties
<1> DEFINE u == s \o t
<1>3. u \in [1 .. m + n -> Int]
  BY <1>2, LenProperties
<1> HIDE DEF u
<1>4. \A i \in 1 .. m : u[i] = s[i]
  BY <1>2 DEF u
<1>5. \A i \in 1 .. n : u[m + i] = t[i]
  <2> TAKE i \in 1 .. n
  <2>1. m + i \in 1 .. m + n /\ ~(m + i <= m) /\ (m + i) - m = i
    OBVIOUS
  <2> QED BY <1>2, <2>1 DEF u
<1> QED BY <1>3, <1>4, <1>5, Zenon DEF u, Words, Placed, Kept

\* What follows the words of a list leaves them where they are.
LEMMA StayPlaced ==
    ASSUME NEW m \in Nat, NEW s, NEW t, Kept(s, t, m),
           NEW k \in Nat, NEW f \in Nat, f + k <= m, NEW u, Placed(u, k, s, f)
    PROVE  Placed(u, k, t, f)
<1>1. u \in Words(k) /\ \A i \in 1 .. k : s[f + i] = u[i]
  BY DEF Placed
<1>2. \A i \in 1 .. k : t[f + i] = u[i]
  <2> TAKE i \in 1 .. k
  <2>1. f + i \in 1 .. m
    OBVIOUS
  <2> QED BY <1>1, <2>1 DEF Kept
<1> QED BY <1>1, <1>2 DEF Placed

\* Induction over the numbers up to a bound, in the form of a set.
LEMMA CountingUp ==
    ASSUME NEW N \in Nat, NEW S, 0 \in S, \A k \in 1 .. N : k - 1 \in S => k \in S
    PROVE  0 .. N \subseteq S
<1> DEFINE less   == {p \in Nat \X Nat : p[1] < p[2]}
           beyond == {k \in 0 .. N : k \notin S}
<1>1. IsWellFoundedOn(less, Nat)
  BY NatLessThanWellFounded, Zenon DEF OpToRel
<1> SUFFICES ASSUME beyond # {}
             PROVE  FALSE
  OBVIOUS
<1> HIDE DEF less
<1>2. beyond \subseteq Nat
  OBVIOUS
<1>3. PICK k \in beyond : \A j \in beyond : <<j, k>> \notin less
  <2> HIDE DEF beyond
  <2> QED BY <1>1, <1>2, WFMin, Zenon
<1>4. k \in 1 .. N /\ k - 1 \in beyond /\ k - 1 < k
  OBVIOUS
<1>5. <<k - 1, k>> \in less
  BY <1>4 DEF less
<1> QED BY <1>3, <1>4, <1>5

\* f is computed from first by the function next of the place and the value before.
Recursive(f, N, first, next) ==
    f = [k \in 0 .. N |-> IF k = 0 THEN first ELSE next[<<k, f[k - 1]>>]]

\* A recursive definition up to a bound defines a function.
LEMMA RecursionDefines ==
    ASSUME NEW V, NEW N \in Nat, NEW first \in V, NEW next \in [(1 .. N) \X V -> V]
    PROVE  \E f \in [0 .. N -> V] : Recursive(f, N, first, next)
<1> DEFINE Upto(f, n) == f = [k \in 0 .. n |-> IF k = 0 THEN first ELSE next[<<k, f[k - 1]>>]]
           S       == {n \in Nat : \E f \in [0 .. n -> V] : Upto(f, n)}
<1>1. 0 \in S
  <2>1. [k \in 0 .. 0 |-> first] \in [0 .. 0 -> V] /\ Upto([k \in 0 .. 0 |-> first], 0)
    OBVIOUS
  <2> QED BY <2>1
<1>2. ASSUME NEW n \in 1 .. N, n - 1 \in S
      PROVE  n \in S
  <2>1. PICK f \in [0 .. n - 1 -> V] : Upto(f, n - 1)
    BY <1>2
  <2> DEFINE g == [k \in 0 .. n |-> IF k < n THEN f[k] ELSE next[<<n, f[n - 1]>>]]
  <2>2. g \in [0 .. n -> V]
    OBVIOUS
  <2>3. ASSUME NEW k \in 0 .. n
        PROVE  g[k] = IF k = 0 THEN first ELSE next[<<k, g[k - 1]>>]
    <3>1. CASE k = n
      BY <3>1
    <3>2. CASE k # n
      <4>1. k \in 0 .. n - 1 /\ g[k] = f[k] /\ (k # 0 => g[k - 1] = f[k - 1])
        BY <3>2
      <4>2. f[k] = IF k = 0 THEN first ELSE next[<<k, f[k - 1]>>]
        BY <2>1, <4>1
      <4> QED BY <4>1, <4>2
    <3> QED BY <3>1, <3>2
  <2>4. Upto(g, n)
    <3> HIDE DEF g
    <3> QED BY <2>2, <2>3
  <2> HIDE DEF g, Upto
  <2> QED BY <2>2, <2>4
<1>3. N \in S
  <2> HIDE DEF S
  <2>1. 0 .. N \subseteq S
    BY <1>1, <1>2, CountingUp
  <2> QED BY <2>1
<1> QED BY <1>3 DEF Recursive

\* The powers of a number.
LEMMA PowerIs ==
    ASSUME NEW b \in Int
    PROVE  /\ Power(b) \in [0 .. 8 -> Int]
           /\ Power(b)[0] = 1
           /\ \A k \in 1 .. 8 : Power(b)[k] = b * Power(b)[k - 1]
<1> DEFINE Rec(p) == p = [k \in 0 .. 8 |-> IF k = 0 THEN 1 ELSE b * p[k - 1]]
           next   == [x \in (1 .. 8) \X Int |-> b * x[2]]
<1>1. next \in [(1 .. 8) \X Int -> Int]
  OBVIOUS
<1>2. PICK f \in [0 .. 8 -> Int] : Recursive(f, 8, 1, next)
  <2> HIDE DEF next
  <2>1. 8 \in Nat /\ 1 \in Int
    OBVIOUS
  <2> QED BY <1>1, <2>1, RecursionDefines, Zenon
<1>3. Rec(f)
  <2>1. \A k \in 1 .. 8 : <<k, f[k - 1]>> \in (1 .. 8) \X Int /\ next[<<k, f[k - 1]>>] = b * f[k - 1]
    OBVIOUS
  <2> HIDE DEF next
  <2>2. \A k \in 0 .. 8 : (IF k = 0 THEN 1 ELSE next[<<k, f[k - 1]>>]) = (IF k = 0 THEN 1 ELSE b * f[k - 1])
    <3> TAKE k \in 0 .. 8
    <3>1. CASE k = 0
      BY <3>1
    <3>2. CASE k \in 1 .. 8
      BY <3>2, <2>1
    <3> QED BY <3>1, <3>2
  <2>3. [k \in 0 .. 8 |-> IF k = 0 THEN 1 ELSE next[<<k, f[k - 1]>>]]
          = [k \in 0 .. 8 |-> IF k = 0 THEN 1 ELSE b * f[k - 1]]
    BY <2>2, Zenon
  <2> QED BY <1>2, <2>3, Zenon DEF Recursive
<1>4. Power(b) = CHOOSE p : Rec(p)
  BY Zenon DEF Power
<1>5. Rec(Power(b))
  <2> HIDE DEF Rec
  <2> QED BY <1>3, <1>4, Zenon
<1> DEFINE q == Power(b)
<1>6. q = [k \in 0 .. 8 |-> IF k = 0 THEN 1 ELSE b * q[k - 1]]
  BY <1>5
<1> HIDE DEF q
<1>7. q[0] = 1 /\ \A k \in 1 .. 8 : q[k] = b * q[k - 1]
  BY <1>6
<1>8. 0 .. 8 \subseteq {k \in 0 .. 8 : q[k] \in Int}
  <2> DEFINE S == {k \in 0 .. 8 : q[k] \in Int}
  <2>1. 0 \in S
    BY <1>7
  <2>2. \A k \in 1 .. 8 : k - 1 \in S => k \in S
    BY <1>7
  <2> HIDE DEF S
  <2>3. 0 .. 8 \subseteq S
    BY <2>1, <2>2, CountingUp
  <2> QED BY <2>3 DEF S
<1> QED BY <1>6, <1>7, <1>8 DEF q

\* Division by a name of its own, so that the provers leave it alone.
Quotient(n, d) == n \div d
Rest(n, d) == n % d

\* Quotient and remainder.
LEMMA Division ==
    ASSUME NEW n \in Int, NEW d \in Int, d > 0
    PROVE  /\ Quotient(n, d) \in Int /\ Rest(n, d) \in Int
           /\ 0 <= Rest(n, d) /\ Rest(n, d) < d
           /\ n = d * Quotient(n, d) + Rest(n, d)
<1>1. /\ Quotient(n, d) \in Int /\ Rest(n, d) \in Int
      /\ 0 <= Rest(n, d) /\ Rest(n, d) < d
      /\ Rest(n, d) = n - d * Quotient(n, d)
  BY DEF Quotient, Rest
<1> QED BY <1>1

\* There are no others.
LEMMA DivisionUnique ==
    ASSUME NEW n \in Int, NEW d \in Int, d > 0, NEW q \in Int, NEW r \in Int,
           0 <= r, r < d, n = d * q + r
    PROVE  Quotient(n, d) = q /\ Rest(n, d) = r
<1> DEFINE p == Quotient(n, d)
           s == Rest(n, d)
<1>1. p \in Int /\ s \in Int /\ 0 <= s /\ s < d /\ n = d * p + s
  BY Division
<1> HIDE DEF p, s
<1>2. d * (p - q) = r - s
  BY <1>1
<1>3. p - q \in Int /\ ~(p - q >= 1) /\ ~(p - q <= -1)
  <2>1. \A x \in Int : x >= 1 => d * x >= d
    OBVIOUS
  <2>2. \A x \in Int : x <= -1 => d * x <= -d
    OBVIOUS
  <2> QED BY <1>1, <1>2, <2>1, <2>2
<1>4. p = q
  BY <1>1, <1>3
<1>5. r = s
  BY <1>1, <1>2, <1>4
<1> QED BY <1>4, <1>5 DEF p, s

\* Two divisions are one, and their remainders make up one.
LEMMA DivisionTwice ==
    ASSUME NEW n \in Int, NEW c \in Int, c > 0, NEW d \in Int, d > 0
    PROVE  /\ Quotient(Quotient(n, c), d) = Quotient(n, c * d)
           /\ Rest(Quotient(n, c), d) * c + Rest(n, c) = Rest(n, c * d)
<1> DEFINE p == Quotient(n, c)
           r == Rest(n, c)
           q == Quotient(p, d)
           s == Rest(p, d)
           e == c * d
           t == s * c + r
<1>1. p \in Int /\ r \in Int /\ 0 <= r /\ r < c /\ n = c * p + r
  BY Division
<1>2. q \in Int /\ s \in Int /\ 0 <= s /\ s < d /\ p = d * q + s
  <2> HIDE DEF p
  <2> QED BY <1>1, Division
<1> HIDE DEF p, r, q, s
<1>3. n = e * q + t
  BY <1>1, <1>2
<1>4. 0 <= t /\ t < e /\ e > 0 /\ e \in Int /\ t \in Int
  <2>1. s * c >= 0
    BY <1>2
  <2>2. s * c <= (d - 1) * c
    BY <1>2
  <2>3. c * d > 0
    OBVIOUS
  <2> QED BY <1>1, <1>2, <2>1, <2>2, <2>3
<1> HIDE DEF e, t
<1>5. Quotient(n, e) = q /\ Rest(n, e) = t
  BY <1>2, <1>3, <1>4, DivisionUnique
<1> QED BY <1>5, Zenon DEF q, p, e, t, s, r

\* Powers of the byte are positive and grow.
LEMMA Powers ==
    /\ Base \in Int /\ Base >= 4
    /\ Power(Base) \in [0 .. 8 -> Int] /\ Power(Base)[0] = 1 /\ Power(Base)[1] = Base
    /\ \A k \in 1 .. 8 : Power(Base)[k] = Base * Power(Base)[k - 1]
    /\ \A k \in 0 .. 8 : Power(Base)[k] > 0
    /\ \A k \in 1 .. 8 : Power(Base)[k] >= 4
<1> DEFINE p == Power(Base)
<1>1. Base \in Int /\ Base >= 4
  BY BaseAssumption
<1>2. p \in [0 .. 8 -> Int] /\ p[0] = 1 /\ \A k \in 1 .. 8 : p[k] = Base * p[k - 1]
  BY <1>1, PowerIs
<1> HIDE DEF p
<1>3. 0 .. 8 \subseteq {k \in 0 .. 8 : p[k] > 0}
  <2> DEFINE S == {k \in 0 .. 8 : p[k] > 0}
  <2>1. 0 \in S
    BY <1>2
  <2>2. ASSUME NEW k \in 1 .. 8, k - 1 \in S
        PROVE  k \in S
    <3>1. p[k - 1] \in Int /\ p[k - 1] > 0 /\ p[k] = Base * p[k - 1]
      BY <1>2, <2>2
    <3>2. \A x \in Int : x > 0 => Base * x > 0
      BY <1>1
    <3> QED BY <3>1, <3>2
  <2> HIDE DEF S
  <2>3. 0 .. 8 \subseteq S
    BY <2>1, <2>2, CountingUp
  <2> QED BY <2>3 DEF S
<1>4. \A k \in 1 .. 8 : p[k] >= 4
  <2> TAKE k \in 1 .. 8
  <2>1. p[k - 1] \in Int /\ p[k - 1] > 0 /\ p[k] = Base * p[k - 1]
    BY <1>2, <1>3
  <2>2. \A x \in Int : x > 0 => Base * x >= 4
    BY <1>1
  <2> QED BY <2>1, <2>2
<1>5. p[1] = Base
  BY <1>1, <1>2
<1> QED BY <1>1, <1>2, <1>3, <1>4, <1>5 DEF p

\* The number of a sequence of bytes, shifted in one after the other.
LEMMA JoinedIs ==
    ASSUME NEW w \in Nat, NEW bytes \in [1 .. w -> Int]
    PROVE  \E f \in [0 .. w -> Int] :
             /\ f[0] = 0 /\ \A k \in 1 .. w : f[k] = f[k - 1] * Base + bytes[k]
             /\ Joined(bytes) = f[w]
<1> DEFINE Rec(p) == p = [k \in 0 .. Len(bytes) |-> IF k = 0 THEN 0 ELSE p[k - 1] * Base + bytes[k]]
           next   == [x \in (1 .. w) \X Int |-> x[2] * Base + bytes[x[1]]]
<1>0. Base \in Int /\ Len(bytes) = w
  BY BaseAssumption
<1>1. next \in [(1 .. w) \X Int -> Int]
  BY <1>0
<1>2. PICK f \in [0 .. w -> Int] : Recursive(f, w, 0, next)
  <2> HIDE DEF next
  <2>1. 0 \in Int
    OBVIOUS
  <2> QED BY <1>1, <2>1, RecursionDefines, Zenon
<1>3. Rec(f)
  <2>1. \A k \in 1 .. w : next[<<k, f[k - 1]>>] = f[k - 1] * Base + bytes[k]
    OBVIOUS
  <2> HIDE DEF next
  <2>2. \A k \in 0 .. w : (IF k = 0 THEN 0 ELSE next[<<k, f[k - 1]>>]) = (IF k = 0 THEN 0 ELSE f[k - 1] * Base + bytes[k])
    <3> TAKE k \in 0 .. w
    <3>1. CASE k = 0
      BY <3>1
    <3>2. CASE k \in 1 .. w
      BY <3>2, <2>1
    <3> QED BY <3>1, <3>2
  <2>3. [k \in 0 .. w |-> IF k = 0 THEN 0 ELSE next[<<k, f[k - 1]>>]]
          = [k \in 0 .. w |-> IF k = 0 THEN 0 ELSE f[k - 1] * Base + bytes[k]]
    BY <2>2, Zenon
  <2> QED BY <1>0, <1>2, <2>3, Zenon DEF Recursive
<1> DEFINE q == CHOOSE p : Rec(p)
<1>4. Joined(bytes) = q[Len(bytes)]
  BY Zenon DEF Joined
<1>5. Rec(q)
  <2> HIDE DEF Rec
  <2> QED BY <1>3, Zenon
<1>6. q = [k \in 0 .. w |-> IF k = 0 THEN 0 ELSE q[k - 1] * Base + bytes[k]]
  BY <1>0, <1>5, Zenon
<1> HIDE DEF q
<1>7. q[0] = 0 /\ \A k \in 1 .. w : q[k] = q[k - 1] * Base + bytes[k]
  <2>1. \A k \in 0 .. w : q[k] = IF k = 0 THEN 0 ELSE q[k - 1] * Base + bytes[k]
    BY <1>6, Zenon
  <2>2. 0 \in 0 .. w /\ \A k \in 1 .. w : k \in 0 .. w /\ k # 0
    OBVIOUS
  <2> QED BY <2>1, <2>2, Zenon
<1>8. \A k \in 0 .. w : q[k] \in Int
  <2> DEFINE S == {k \in 0 .. w : q[k] \in Int}
  <2>1. 0 \in S
    BY <1>7
  <2>2. \A k \in 1 .. w : k - 1 \in S => k \in S
    BY <1>0, <1>7
  <2> HIDE DEF S
  <2>3. 0 .. w \subseteq S
    BY <2>1, <2>2, CountingUp
  <2> QED BY <2>3 DEF S
<1>9. q \in [0 .. w -> Int]
  BY <1>6, <1>8
<1> QED BY <1>0, <1>4, <1>7, <1>9

\* The bytes of a number are those of its remainder, and make it up again.
LEMMA PackJoined ==
    ASSUME NEW n \in Int, NEW w \in 0 .. 8
    PROVE  /\ Pack(n, w) \in [1 .. w -> Int]
           /\ Joined(Pack(n, w)) = n % Power(Base)[w]
<1> DEFINE p       == Power(Base)
           bytes   == Pack(n, w)
           upto(j) == Quotient(n, p[w - j])
<1>1. Base \in Int /\ Base > 0 /\ p \in [0 .. 8 -> Int] /\ p[0] = 1
  BY Powers
<1>2. \A k \in 1 .. 8 : p[k] = Base * p[k - 1]
  BY Powers
<1>3. \A k \in 0 .. 8 : p[k] \in Int /\ p[k] > 0
  BY Powers
<1>0. bytes = [k \in 1 .. w |-> Rest(upto(k), Base)]
  BY DEF Pack, Quotient, Rest
<1> HIDE DEF p, bytes
<1>4. \A j \in 0 .. w : upto(j) \in Int
  <2> TAKE j \in 0 .. w
  <2>1. w - j \in 0 .. 8
    OBVIOUS
  <2> QED BY <1>3, <2>1, Division
<1> HIDE DEF upto
<1>6. bytes \in [1 .. w -> Int]
  <2>1. \A k \in 1 .. w : k \in 0 .. w
    OBVIOUS
  <2>2. \A k \in 1 .. w : Rest(upto(k), Base) \in Int
    BY <1>1, <1>4, <2>1, Division, Zenon
  <2> QED BY <1>0, <2>2
<1>7. PICK f \in [0 .. w -> Int] :
        /\ f[0] = 0 /\ \A k \in 1 .. w : f[k] = f[k - 1] * Base + bytes[k]
        /\ Joined(bytes) = f[w]
  <2>1. w \in Nat
    OBVIOUS
  <2> QED BY <1>6, <2>1, JoinedIs, Zenon
<1>8. \A j \in 0 .. w : f[j] = Rest(upto(j), p[j])
  <2> DEFINE S == {j \in 0 .. w : f[j] = Rest(upto(j), p[j])}
  <2>1. 0 \in S
    <3>1. \A m \in Int : Rest(m, 1) = 0
      BY DEF Rest
    <3>2. upto(0) \in Int
      BY <1>4
    <3> QED BY <1>1, <1>7, <3>1, <3>2
  <2>2. ASSUME NEW j \in 1 .. w, j - 1 \in S
        PROVE  j \in S
    <3>1. upto(j) \in Int
      BY <1>4
    <3>2. upto(j - 1) = Quotient(upto(j), Base)
      <4>1. w - j \in 0 .. 8 /\ w - (j - 1) \in 1 .. 8 /\ (w - (j - 1)) - 1 = w - j
        OBVIOUS
      <4>2. p[w - (j - 1)] = Base * p[w - j]
        BY <1>2, <4>1
      <4>3. p[w - j] \in Int /\ p[w - j] > 0
        BY <1>3, <4>1
      <4>4. Quotient(Quotient(n, p[w - j]), Base) = Quotient(n, p[w - j] * Base)
        BY <1>1, <4>3, DivisionTwice
      <4>5. Base * p[w - j] = p[w - j] * Base
        <5>1. \A x \in Int : Base * x = x * Base
          BY <1>1
        <5> QED BY <4>3, <5>1, Zenon
      <4> QED BY <4>2, <4>4, <4>5, Zenon DEF upto
    <3>3. f[j - 1] = Rest(Quotient(upto(j), Base), p[j - 1])
      BY <2>2, <3>2
    <3>4. bytes[j] = Rest(upto(j), Base)
      BY <1>0
    <3>5. p[j - 1] \in Int /\ p[j - 1] > 0 /\ p[j] = Base * p[j - 1]
      <4>1. j \in 1 .. 8 /\ j - 1 \in 0 .. 8
        OBVIOUS
      <4> QED BY <1>2, <1>3, <4>1
    <3>6. Rest(Quotient(upto(j), Base), p[j - 1]) * Base + Rest(upto(j), Base)
            = Rest(upto(j), Base * p[j - 1])
      BY <1>1, <3>1, <3>5, DivisionTwice
    <3>7. f[j] = f[j - 1] * Base + bytes[j]
      BY <1>7
    <3>8. f[j] = Rest(upto(j), p[j])
      BY <3>3, <3>4, <3>5, <3>6, <3>7, Zenon
    <3> QED BY <3>8
  <2> HIDE DEF S
  <2>3. w \in Nat
    OBVIOUS
  <2>4. 0 .. w \subseteq S
    BY <2>1, <2>2, <2>3, CountingUp, Zenon
  <2> QED BY <2>4 DEF S
<1>9. upto(w) = n
  <2>1. w - w = 0 /\ Quotient(n, 1) = n
    BY DEF Quotient
  <2> QED BY <1>1, <2>1 DEF upto
<1>10. f[w] = Rest(n, p[w])
  BY <1>8, <1>9
<1>11. Joined(bytes) = Rest(n, p[w])
  BY <1>7, <1>10, Zenon
<1>12. Rest(n, p[w]) = n % p[w]
  BY DEF Rest
<1> QED BY <1>6, <1>11, <1>12, Zenon DEF bytes, p

\* The widths of the base types.
LEMMA Widths ==
    /\ DOMAIN Width = {"BOOL", "UINT8", "UINT16", "UINT32", "INT32", "UINT64", "DOUBLE"}
    /\ \A t \in DOMAIN Width : Width[t] \in {1, 2, 4, 8}
    /\ Width["BOOL"] = 1 /\ Width["UINT8"] = 1 /\ Width["UINT16"] = 2 /\ Width["UINT32"] = 4
    /\ Width["INT32"] = 4 /\ Width["UINT64"] = 8 /\ Width["DOUBLE"] = 8
  BY DEF Width

\* The shapes of the types: an element type and a length.
LEMMA Shapes ==
    /\ \A t \in DOMAIN Width : t \in DOMAIN Shape /\ Shape[t] = <<t, 1>>
    /\ \A t \in DOMAIN Shape : /\ Shape[t] = <<Shape[t][1], Shape[t][2]>>
                               /\ Shape[t][1] \in DOMAIN Width /\ Shape[t][2] \in {1, 3, 6}
    /\ \A t \in DOMAIN Shape : Shape[t][2] = 1 => t \in DOMAIN Width /\ Shape[t][1] = t
<1>1. /\ DOMAIN Shape = DOMAIN Width \cup {"VECTOR3D", "VECTOR6D", "VECTOR6INT32", "VECTOR6UINT32"}
      /\ \A t \in DOMAIN Width : Shape[t] = <<t, 1>>
      /\ Shape["VECTOR3D"] = <<"DOUBLE", 3>> /\ Shape["VECTOR6D"] = <<"DOUBLE", 6>>
      /\ Shape["VECTOR6INT32"] = <<"INT32", 6>> /\ Shape["VECTOR6UINT32"] = <<"UINT32", 6>>
  BY Widths DEF Shape
<1>2. "DOUBLE" \in DOMAIN Width /\ "INT32" \in DOMAIN Width /\ "UINT32" \in DOMAIN Width
  BY Widths
<1> QED BY <1>1, <1>2

\* The numbers a base type has room for.
Carries(t, n) ==
    /\ n \in Int
    /\ t = "BOOL" => n \in {0, 1}
    /\ Signed(t) => -Power(Base)[Width[t]] <= 2 * n /\ 2 * n < Power(Base)[Width[t]]
    /\ t # "BOOL" /\ ~Signed(t) => 0 <= n /\ n < Power(Base)[Width[t]]

\* Unpacking gives a number of the type, and the one that was packed if it was one.
LEMMA PackUnpack ==
    ASSUME NEW t \in DOMAIN Width, NEW n \in Int
    PROVE  /\ Carries(t, Unpack(Pack(n, Width[t]), t))
           /\ Carries(t, n) => Unpack(Pack(n, Width[t]), t) = n
<1> DEFINE w     == Width[t]
           range == Power(Base)[w]
           m     == Rest(n, range)
<1>1. w \in 1 .. 8
  BY Widths
<1>2. range \in Int /\ range >= 4
  BY <1>1, Powers
<1>3. m \in Int /\ 0 <= m /\ m < range
  <2> HIDE DEF range
  <2> QED BY <1>2, Division
<1>4. Len(Pack(n, w)) = w /\ Joined(Pack(n, w)) = m
  <2>1. w \in 0 .. 8
    BY <1>1
  <2> HIDE DEF w
  <2>2. Pack(n, w) \in [1 .. w -> Int] /\ Joined(Pack(n, w)) = n % range
    BY <2>1, PackJoined, Zenon
  <2> HIDE DEF range
  <2>3. Joined(Pack(n, w)) = m
    BY <2>2 DEF Rest
  <2>4. Len(Pack(n, w)) = w
    BY <2>1, <2>2
  <2> QED BY <2>3, <2>4
<1> DEFINE u == Unpack(Pack(n, w), t)
<1> DEFINE bool  == IF m = 0 THEN 0 ELSE 1
           minus == m - range
           upper == 2 * m >= range
<1>5. u = CASE t = "BOOL" -> bool [] Signed(t) /\ upper -> minus [] OTHER -> m
  BY <1>4, Zenon DEF Unpack
<1>6. t = "BOOL" => ~Signed(t) /\ w = 1
  BY Widths DEF Signed
<1>7. /\ n \in Int /\ 0 <= n /\ n < range => m = n
      /\ n \in Int /\ n < 0 /\ -range <= n => m = n + range
  <2> HIDE DEF m, range
  <2>1. ASSUME 0 <= n, n < range
        PROVE  Rest(n, range) = n
    <3>1. n = range * 0 + n
      BY <1>2
    <3> QED BY <1>2, <2>1, <3>1, DivisionUnique
  <2>2. ASSUME n < 0, -range <= n
        PROVE  Rest(n, range) = n + range
    <3> DEFINE r == n + range
               q == -1
    <3>1. n = range * q + r /\ 0 <= r /\ r < range /\ r \in Int /\ q \in Int /\ range > 0
      BY <1>2, <2>2
    <3> HIDE DEF r, q
    <3>2. Rest(n, range) = r
      BY <1>2, <3>1, DivisionUnique
    <3> QED BY <3>2 DEF r
  <2> QED BY <2>1, <2>2 DEF m
<1>8. Carries(t, n) <=>
        /\ n \in Int
        /\ t = "BOOL" => n \in {0, 1}
        /\ Signed(t) => -range <= 2 * n /\ 2 * n < range
        /\ t # "BOOL" /\ ~Signed(t) => 0 <= n /\ n < range
  BY DEF Carries
<1>9. Carries(t, u) <=>
        /\ u \in Int
        /\ t = "BOOL" => u \in {0, 1}
        /\ Signed(t) => -range <= 2 * u /\ 2 * u < range
        /\ t # "BOOL" /\ ~Signed(t) => 0 <= u /\ u < range
  BY DEF Carries
<1> HIDE DEF u, m, range, w, bool, minus, upper
<1>10. CASE t = "BOOL"
  <2>1. u = IF m = 0 THEN 0 ELSE 1
    BY <1>5, <1>6, <1>10 DEF bool
  <2> QED BY <1>2, <1>6, <1>7, <1>8, <1>9, <1>10, <2>1 DEF u, w
<1>11. CASE t # "BOOL" /\ Signed(t)
  <2>1. u = IF 2 * m >= range THEN m - range ELSE m
    BY <1>5, <1>11 DEF minus, upper
  <2>2. Carries(t, u)
    BY <1>2, <1>3, <1>9, <1>11, <2>1
  <2>3. Carries(t, n) => u = n
    BY <1>2, <1>3, <1>7, <1>8, <1>11, <2>1
  <2> QED BY <2>2, <2>3 DEF u, w
<1>12. CASE t # "BOOL" /\ ~Signed(t)
  <2>1. u = m
    BY <1>5, <1>12
  <2> QED BY <1>2, <1>3, <1>7, <1>8, <1>9, <1>12, <2>1 DEF u, w
<1> QED BY <1>10, <1>11, <1>12

\* An assignment makes a number of the type, and leaves one that is.
LEMMA Converts ==
    ASSUME NEW t \in DOMAIN Width, NEW n \in Int
    PROVE  /\ t # "DOUBLE" => Carries(t, Convert(t, n))
           /\ Carries(t, n) => Convert(t, n) = n
           /\ t = "DOUBLE" => Convert(t, n) = n
           /\ Carries(t, 0)
<1> DEFINE u == Unpack(Pack(n, Width[t]), t)
<1>1. Convert(t, n) = CASE t = "BOOL" -> IF n = 0 THEN 0 ELSE 1 [] t = "DOUBLE" -> n [] OTHER -> u
  BY Zenon DEF Convert
<1>2. Carries(t, u) /\ (Carries(t, n) => u = n)
  BY PackUnpack
<1> HIDE DEF u
<1>3. Power(Base)[Width[t]] \in Int /\ Power(Base)[Width[t]] >= 4
  BY Powers, Widths
<1>4. t = "BOOL" => Carries(t, 0) /\ Carries(t, 1) /\ (Carries(t, n) => n \in {0, 1})
  BY <1>3 DEF Carries, Signed
<1>5. Carries(t, 0)
  BY <1>3 DEF Carries
<1>6. CASE t = "BOOL"
  <2>1. Convert(t, n) = IF n = 0 THEN 0 ELSE 1
    BY <1>1, <1>6
  <2> QED BY <1>4, <1>5, <1>6, <2>1
<1>7. CASE t = "DOUBLE"
  BY <1>1, <1>5, <1>7
<1>8. CASE t # "BOOL" /\ t # "DOUBLE"
  BY <1>1, <1>2, <1>5, <1>8
<1> QED BY <1>6, <1>7, <1>8

\* Masks: small numbers fit every unsigned type, and the bit of index 4 does or is lost.
LEMMA SmallNumbers ==
    ASSUME NEW t \in Unsigned
    PROVE  /\ t \in DOMAIN Width
           /\ \A n \in 0 .. 3 : Convert(t, n) = n
           /\ Convert(t, 16) \in {0, 16}
<1>1. t \in DOMAIN Width /\ t # "BOOL" /\ ~Signed(t) /\ t # "DOUBLE"
  BY Widths DEF Unsigned, Signed
<1> DEFINE range == Power(Base)[Width[t]]
<1>2. range \in Int /\ range >= 4
  BY <1>1, Powers, Widths
<1>3. \A n \in 0 .. 3 : Carries(t, n)
  BY <1>1, <1>2 DEF Carries
<1>4. \A n \in 0 .. 3 : Convert(t, n) = n
  BY <1>1, <1>3, Converts
<1>5. range \in {4, 8, 16} \/ range > 16
  <2> DEFINE p == Power(Base)
  <2>1. /\ p[1] = Base /\ p[2] = Base * p[1]
        /\ \A k \in 1 .. 8 : p[k] = Base * p[k - 1] /\ p[k] \in Int /\ p[k] >= 4
    BY Powers
  <2> HIDE DEF p
  <2>2. p[1] \in {4, 8, 16} \/ p[1] > 16
    BY <2>1, BaseAssumption
  <2>3. p[2] = 16 \/ p[2] > 16
    BY <2>1, BaseAssumption
  <2>4. ASSUME NEW k \in 3 .. 8, p[k - 1] >= 16
        PROVE  p[k] > 16
    <3>1. p[k] = Base * p[k - 1] /\ p[k - 1] \in Int
      BY <2>1
    <3>2. Base \in Int /\ Base >= 4
      BY BaseAssumption
    <3>3. \A x \in Int : x >= 16 => Base * x > 16
      BY <3>2
    <3> QED BY <2>4, <3>1, <3>3
  <2>5. p[4] > 16 /\ p[8] > 16
    <3>1. p[3] > 16 /\ p[3] \in Int
      BY <2>1, <2>3, <2>4
    <3>2. p[4] > 16 /\ p[4] \in Int
      BY <2>1, <2>4, <3>1
    <3>3. p[5] > 16 /\ p[5] \in Int
      BY <2>1, <2>4, <3>2
    <3>4. p[6] > 16 /\ p[6] \in Int
      BY <2>1, <2>4, <3>3
    <3>5. p[7] > 16 /\ p[7] \in Int
      BY <2>1, <2>4, <3>4
    <3>6. p[8] > 16
      BY <2>1, <2>4, <3>5
    <3> QED BY <3>2, <3>6
  <2> QED BY <1>1, <2>2, <2>3, <2>5, Widths DEF p
<1>6. CASE range > 16
  <2>1. Carries(t, 16)
    BY <1>1, <1>2, <1>6 DEF Carries
  <2> QED BY <1>1, <1>4, <2>1, Converts
<1>7. CASE range \in {4, 8, 16}
  <2> DEFINE w     == Width[t]
             bytes == Pack(16, w)
  <2>1. w \in 0 .. 8 /\ 16 \in Int
    BY <1>1, Widths
  <2> HIDE DEF w
  <2>2. Joined(bytes) = 16 % Power(Base)[w]
    BY <2>1, PackJoined, Zenon
  <2>3. 16 % range = 0
    <3> HIDE DEF range
    <3> QED BY <1>7
  <2> HIDE DEF bytes
  <2>4. Unpack(bytes, t) = IF Signed(t) /\ 2 * Joined(bytes) >= Power(Base)[Len(bytes)]
                           THEN Joined(bytes) - Power(Base)[Len(bytes)] ELSE Joined(bytes)
    BY <1>1 DEF Unpack
  <2>5. Convert(t, 16) = Unpack(bytes, t)
    BY <1>1 DEF Convert, bytes, w
  <2>6. Joined(bytes) = 0
    BY <2>2, <2>3 DEF w
  <2> QED BY <1>1, <1>4, <2>4, <2>5, <2>6
<1> QED BY <1>1, <1>4, <1>5, <1>6, <1>7

\* The bytes of a value, and the value again.
LEMMA ValueKept ==
    ASSUME NEW t \in DOMAIN Shape, NEW v \in [1 .. Shape[t][2] -> Int],
           \A i \in 1 .. Shape[t][2] : Carries(Shape[t][1], v[i])
    PROVE  /\ Width[Shape[t][1]] * Shape[t][2] \in Nat \ {0}
           /\ PackValue(t, v) \in Words(Width[Shape[t][1]] * Shape[t][2])
           /\ UnpackValue(t, PackValue(t, v)) = v
<1> DEFINE e == Shape[t][1]
           l == Shape[t][2]
           w == Width[e]
           b == PackValue(t, v)
<1>1. e \in DOMAIN Width /\ l \in {1, 3, 6}
  BY Shapes
<1>2. w \in {1, 2, 4, 8}
  BY <1>1, Widths
<1>3. Len(v) = l
  <2> HIDE DEF e, l
  <2>1. v \in [1 .. l -> Int]
    BY DEF l
  <2> QED BY <1>1, <2>1
<1>4. b = [k \in 1 .. w * l |-> Pack(v[(k - 1) \div w + 1], w)[((k - 1) % w) + 1]]
  BY <1>3, Zenon DEF PackValue
<1>5. UnpackValue(t, b) = [i \in 1 .. l |-> Unpack(SubSeq(b, (i - 1) * w + 1, i * w), e)]
  BY Zenon DEF UnpackValue
<1>6. v \in [1 .. l -> Int] /\ \A i \in 1 .. l : Carries(e, v[i])
  OBVIOUS
<1>7. \A i \in 1 .. l : /\ Pack(v[i], w) \in [1 .. w -> Int]
                        /\ Carries(e, v[i]) => Unpack(Pack(v[i], w), e) = v[i]
  <2> TAKE i \in 1 .. l
  <2> DEFINE n == v[i]
  <2>1. n \in Int
    <3> HIDE DEF l
    <3> QED BY <1>6
  <2>2. w \in 0 .. 8
    <3> HIDE DEF w
    <3> QED BY <1>2
  <2> HIDE DEF n
  <2>3. Carries(e, n) => Unpack(Pack(n, w), e) = n
    <3> HIDE DEF e
    <3> QED BY <1>1, <2>1, PackUnpack, Zenon DEF w
  <2>4. Pack(n, w) \in [1 .. w -> Int]
    <3> HIDE DEF w
    <3> QED BY <2>1, <2>2, PackJoined, Zenon
  <2> QED BY <2>3, <2>4, Zenon DEF n
<1> HIDE DEF e, l, w, b
<1>8. ASSUME NEW k \in 1 .. w * l
      PROVE  (k - 1) \div w + 1 \in 1 .. l /\ ((k - 1) % w) + 1 \in 1 .. w
  BY <1>1, <1>2, <1>8
<1>9. b \in [1 .. w * l -> Int]
  BY <1>4, <1>7, <1>8
<1>10. w * l \in Nat \ {0}
  BY <1>1, <1>2
<1>11. ASSUME NEW i \in 1 .. l
       PROVE  SubSeq(b, (i - 1) * w + 1, i * w) = Pack(v[i], w)
  <2> DEFINE f == (i - 1) * w
  <2>1. f \in Nat /\ f + w <= w * l /\ i * w = f + w /\ w \in Nat /\ w > 0
    BY <1>1, <1>2
  <2>2. ASSUME NEW k \in 1 .. w
        PROVE  b[f + k] = Pack(v[i], w)[k]
    <3>1. f + k \in 1 .. w * l
      <4> DEFINE m == w * l
      <4>1. m \in Int
        BY <1>10
      <4>2. f + w <= m
        BY <2>1
      <4> HIDE DEF f, m
      <4>3. f + k \in 1 .. m
        BY <2>1, <4>1, <4>2
      <4> QED BY <4>3 DEF m
    <3>2. ((f + k) - 1) \div w = i - 1 /\ ((f + k) - 1) % w = k - 1
      BY <1>1, <1>2
    <3>3. (i - 1) + 1 = i /\ (k - 1) + 1 = k
      OBVIOUS
    <3> HIDE DEF f
    <3> QED BY <1>4, <3>1, <3>2, <3>3
  <2> HIDE DEF f
  <2>3. Placed(Pack(v[i], w), w, b, f)
    BY <1>7, <2>2 DEF Placed, Words
  <2>4. SubSeq(b, f + 1, f + w) = Pack(v[i], w)
    BY <2>1, <2>3, PartIs
  <2> QED BY <2>1, <2>4 DEF f
<1>12. \A i \in 1 .. l : Unpack(SubSeq(b, (i - 1) * w + 1, i * w), e) = v[i]
  BY <1>6, <1>7, <1>11
<1>13. UnpackValue(t, b) = v
  BY <1>5, <1>6, <1>12
<1> QED BY <1>9, <1>10, <1>13 DEF Words, b, w, l, e

\* A recipe that is set up: values of the right lengths that fit their types.
IsRecipe(r, id) ==
    /\ r = [id |-> id, list |-> r.list, type |-> r.type, value |-> r.value]
    /\ r.list \in Seq(STRING)
    /\ r.type \in [Names(r.list) -> DOMAIN Shape]
    /\ r.value = [n \in Names(r.list) |-> r.value[n]]
    /\ \A n \in Names(r.list) :
         /\ r.value[n] \in [1 .. Shape[r.type[n]][2] -> Int]
         /\ \A i \in 1 .. Shape[r.type[n]][2] : Carries(Shape[r.type[n]][1], r.value[n][i])

\* The sums of the sizes of the first variables of a list, with the id.
Sums(offset, list, type, N) ==
    /\ offset \in [0 .. N -> Nat] /\ offset[0] = 1
    /\ \A k \in 1 .. N : offset[k] = offset[k - 1] + Size(type, list[k])

\* A list of N variables that have sizes.
Sized(list, type, N) == Len(list) = N /\ \A k \in 1 .. N : Size(type, list[k]) \in Nat

\* The offsets of the variables of a list.
LEMMA Offsets ==
    ASSUME NEW list, NEW type, NEW N \in Nat, Sized(list, type, N)
    PROVE  \E offset : /\ Sums(offset, list, type, N)
                       /\ \A i \in 1 .. N : Offset(list, type, i) = offset[i - 1]
<1> DEFINE Rec(p) == p = [k \in 0 .. Len(list) |-> IF k = 0 THEN 1 ELSE p[k - 1] + Size(type, list[k])]
           next   == [x \in (1 .. N) \X Nat |-> x[2] + Size(type, list[x[1]])]
<1>0. Len(list) = N /\ \A k \in 1 .. N : Size(type, list[k]) \in Nat
  BY DEF Sized
<1>1. next \in [(1 .. N) \X Nat -> Nat]
  BY <1>0
<1>2. PICK f \in [0 .. N -> Nat] : Recursive(f, N, 1, next)
  <2> HIDE DEF next
  <2>1. 1 \in Nat
    OBVIOUS
  <2> QED BY <1>1, <2>1, RecursionDefines, Zenon
<1>3. Rec(f)
  <2>1. \A k \in 1 .. N : next[<<k, f[k - 1]>>] = f[k - 1] + Size(type, list[k])
    BY <1>0
  <2> HIDE DEF next
  <2>2. \A k \in 0 .. N : (IF k = 0 THEN 1 ELSE next[<<k, f[k - 1]>>])
                           = (IF k = 0 THEN 1 ELSE f[k - 1] + Size(type, list[k]))
    <3> TAKE k \in 0 .. N
    <3>1. CASE k = 0
      BY <3>1
    <3>2. CASE k \in 1 .. N
      BY <3>2, <2>1
    <3> QED BY <3>1, <3>2
  <2>3. [k \in 0 .. N |-> IF k = 0 THEN 1 ELSE next[<<k, f[k - 1]>>]]
          = [k \in 0 .. N |-> IF k = 0 THEN 1 ELSE f[k - 1] + Size(type, list[k])]
    BY <2>2, Zenon
  <2> QED BY <1>0, <1>2, <2>3, Zenon DEF Recursive
<1> DEFINE q == CHOOSE p : Rec(p)
<1>4. \A i : Offset(list, type, i) = q[i - 1]
  BY Zenon DEF Offset
<1>5. Rec(q)
  <2> HIDE DEF Rec
  <2> QED BY <1>3, Zenon
<1>6. q = [k \in 0 .. N |-> IF k = 0 THEN 1 ELSE q[k - 1] + Size(type, list[k])]
  BY <1>0, <1>5, Zenon
<1> HIDE DEF q
<1>7. q[0] = 1 /\ \A k \in 1 .. N : q[k] = q[k - 1] + Size(type, list[k])
  <2>1. \A k \in 0 .. N : q[k] = IF k = 0 THEN 1 ELSE q[k - 1] + Size(type, list[k])
    BY <1>6, Zenon
  <2>2. 0 \in 0 .. N /\ \A k \in 1 .. N : k \in 0 .. N /\ k # 0
    OBVIOUS
  <2> QED BY <2>1, <2>2, Zenon
<1>8. \A k \in 0 .. N : q[k] \in Nat
  <2> DEFINE S == {k \in 0 .. N : q[k] \in Nat}
  <2>1. 0 \in S
    BY <1>7
  <2>2. \A k \in 1 .. N : k - 1 \in S => k \in S
    BY <1>0, <1>7
  <2> HIDE DEF S
  <2>3. 0 .. N \subseteq S
    BY <2>1, <2>2, CountingUp
  <2> QED BY <2>3 DEF S
<1>9. q \in [0 .. N -> Nat]
  BY <1>6, <1>8
<1>10. Sums(q, list, type, N)
  BY <1>7, <1>9, Zenon DEF Sums
<1> QED BY <1>4, <1>10, Zenon
\* What is written of a variable, and how long it is.
Part(r, n) == PackValue(r.type[n], r.value[n])

\* The bytes of a recipe: its id, and each variable where the offsets say.
LEMMA PackageIs ==
    ASSUME NEW s, NEW id \in Int, IsRecipe(s, id), NEW N \in Nat, Len(s.list) = N,
           NEW f, Sums(f, s.list, s.type, N)
    PROVE  /\ PackToBytes(s)[1] = id
           /\ \A i \in 1 .. N : Placed(Part(s, s.list[i]), Size(s.type, s.list[i]), PackToBytes(s), f[i - 1])
<1> DEFINE part(k) == Part(s, s.list[k])
           len(k) == Size(s.type, s.list[k])
           Rec(p)  == p = [k \in 0 .. Len(s.list) |-> IF k = 0 THEN <<s.id>> ELSE p[k - 1] \o part(k)]
           next    == [x \in (1 .. N) \X Seq(Int) |-> x[2] \o part(x[1])]
<1>1. s.id = id /\ s.list \in Seq(STRING) /\ DOMAIN s.list = 1 .. N
  BY DEF IsRecipe
<1>2. ASSUME NEW k \in 1 .. N
      PROVE  len(k) \in Nat /\ part(k) \in Words(len(k)) /\ part(k) \in Seq(Int)
  <2> DEFINE n == s.list[k]
             t == s.type[n]
             v == s.value[n]
  <2>1. n \in Names(s.list)
    BY <1>1 DEF Names
  <2> HIDE DEF n
  <2>2. t \in DOMAIN Shape /\ v \in [1 .. Shape[t][2] -> Int] /\ \A i \in 1 .. Shape[t][2] : Carries(Shape[t][1], v[i])
    BY <2>1 DEF IsRecipe
  <2> HIDE DEF t, v
  <2>3. Width[Shape[t][1]] * Shape[t][2] \in Nat \ {0} /\ PackValue(t, v) \in Words(Width[Shape[t][1]] * Shape[t][2])
    BY <2>2, ValueKept, Zenon
  <2>4. len(k) = Width[Shape[t][1]] * Shape[t][2] /\ part(k) = PackValue(t, v)
    BY Zenon DEF Size, Part, n, t, v
  <2> HIDE DEF len, part
  <2>5. len(k) \in Nat /\ part(k) \in Words(len(k))
    BY <2>3, <2>4, Zenon
  <2> QED BY <2>5, WordList, Zenon
<1>3. next \in [(1 .. N) \X Seq(Int) -> Seq(Int)]
  <2> HIDE DEF part
  <2>1. \A x \in (1 .. N) \X Seq(Int) : x[2] \o part(x[1]) \in Seq(Int)
    <3> TAKE x \in (1 .. N) \X Seq(Int)
    <3>1. x[1] \in 1 .. N /\ x[2] \in Seq(Int)
      OBVIOUS
    <3>2. part(x[1]) \in Seq(Int)
      BY <1>2, <3>1, Zenon
    <3> QED BY <3>1, <3>2
  <2> QED BY <2>1, Zenon
<1>4. PICK g \in [0 .. N -> Seq(Int)] : Recursive(g, N, <<id>>, next)
  <2> HIDE DEF next
  <2>1. <<id>> \in Seq(Int)
    OBVIOUS
  <2> QED BY <1>3, <2>1, RecursionDefines, Zenon
<1>5. Rec(g)
  <2> HIDE DEF part
  <2>1. \A k \in 1 .. N : next[<<k, g[k - 1]>>] = g[k - 1] \o part(k)
    <3> TAKE k \in 1 .. N
    <3>1. k - 1 \in 0 .. N
      OBVIOUS
    <3>2. <<k, g[k - 1]>> \in (1 .. N) \X Seq(Int)
      BY <3>1
    <3>3. next[<<k, g[k - 1]>>] = <<k, g[k - 1]>>[2] \o part(<<k, g[k - 1]>>[1])
      BY <3>2, Zenon
    <3>4. <<k, g[k - 1]>>[2] = g[k - 1] /\ <<k, g[k - 1]>>[1] = k
      OBVIOUS
    <3> HIDE DEF next
    <3> QED BY <3>3, <3>4, Zenon
  <2> HIDE DEF next
  <2>2. \A k \in 0 .. N : (IF k = 0 THEN <<id>> ELSE next[<<k, g[k - 1]>>])
                           = (IF k = 0 THEN <<s.id>> ELSE g[k - 1] \o part(k))
    <3> TAKE k \in 0 .. N
    <3>1. CASE k = 0
      BY <1>1, <3>1, Zenon
    <3>2. CASE k # 0
      <4>1. k \in 1 .. N
        BY <3>2
      <4> QED BY <2>1, <3>2, <4>1, Zenon
    <3> QED BY <3>1, <3>2
  <2>3. [k \in 0 .. N |-> IF k = 0 THEN <<id>> ELSE next[<<k, g[k - 1]>>]]
          = [k \in 0 .. N |-> IF k = 0 THEN <<s.id>> ELSE g[k - 1] \o part(k)]
    BY <2>2, Zenon
  <2> QED BY <1>4, <2>3, Zenon DEF Recursive
<1> DEFINE q == CHOOSE p : Rec(p)
<1>6. PackToBytes(s) = q[N]
  BY Zenon DEF PackToBytes, Part
<1>7. Rec(q)
  <2> HIDE DEF Rec
  <2> QED BY <1>5, Zenon
<1>8. q = [k \in 0 .. N |-> IF k = 0 THEN <<s.id>> ELSE q[k - 1] \o part(k)]
  BY <1>7, Zenon
<1> HIDE DEF q, part, len
<1>9. q[0] = <<id>> /\ \A k \in 1 .. N : q[k] = q[k - 1] \o part(k)
  <2>1. \A k \in 0 .. N : q[k] = IF k = 0 THEN <<s.id>> ELSE q[k - 1] \o part(k)
    BY <1>8, Zenon
  <2>2. 0 \in 0 .. N /\ \A k \in 1 .. N : k \in 0 .. N /\ k # 0
    OBVIOUS
  <2> QED BY <1>1, <2>1, <2>2, Zenon
<1>0. /\ \A k \in 1 .. N : f[k] \in Nat /\ f[k - 1] \in Nat /\ f[k] = f[k - 1] + len(k)
      /\ f[0] = 1
  BY DEF Sums, len
<1> DEFINE There(k) == /\ q[k] \in Words(f[k]) /\ f[k] > 0 /\ q[k][1] = id
                       /\ \A i \in 1 .. k : f[i] <= f[k] /\ Placed(part(i), len(i), q[k], f[i - 1])
           S        == {k \in 0 .. N : There(k)}
<1>10. 0 \in S
  <2>1. <<id>> \in [1 .. 1 -> Int] /\ <<id>>[1] = id /\ 1 .. 0 = {}
    OBVIOUS
  <2>2. There(0)
    BY <1>0, <1>9, <2>1 DEF Words
  <2> QED BY <2>2
<1>11. ASSUME NEW k \in 1 .. N, k - 1 \in S
       PROVE  k \in S
  <2>1. There(k - 1) /\ k - 1 \in 0 .. N
    BY <1>11
  <2>2. len(k) \in Nat /\ part(k) \in Words(len(k))
    BY <1>2
  <2>3. f[k - 1] \in Nat /\ f[k] \in Nat /\ f[k] = f[k - 1] + len(k)
    BY <1>0
  <2>4. q[k - 1] \in Words(f[k - 1]) /\ f[k - 1] > 0 /\ q[k - 1][1] = id
    BY <2>1
  <2>5. /\ q[k] \in Words(f[k])
        /\ Placed(part(k), len(k), q[k], f[k - 1])
        /\ Kept(q[k - 1], q[k], f[k - 1])
    <3>1. /\ q[k - 1] \o part(k) \in Words(f[k - 1] + len(k))
          /\ Placed(part(k), len(k), q[k - 1] \o part(k), f[k - 1])
          /\ Kept(q[k - 1], q[k - 1] \o part(k), f[k - 1])
      BY <2>2, <2>3, <2>4, WordsJoined, Zenon
    <3> QED BY <1>9, <2>3, <3>1, Zenon
  <2>6. f[k] > 0 /\ q[k][1] = id
    <3>1. f[k] > 0
      BY <2>2, <2>3, <2>4
    <3>2. 1 \in 1 .. f[k - 1]
      BY <2>3, <2>4
    <3>3. q[k][1] = q[k - 1][1]
      BY <2>5, <3>2, Zenon DEF Kept
    <3> QED BY <2>4, <3>1, <3>3, Zenon
  <2>7. ASSUME NEW i \in 1 .. k
        PROVE  f[i] <= f[k] /\ Placed(part(i), len(i), q[k], f[i - 1])
    <3>1. CASE i = k
      BY <2>3, <2>5, <3>1
    <3>2. CASE i # k
      <4>1. i \in 1 .. k - 1 /\ i \in 1 .. N /\ i - 1 \in 0 .. N /\ i \in 0 .. N
        BY <3>2
      <4>2. f[i] <= f[k - 1] /\ Placed(part(i), len(i), q[k - 1], f[i - 1])
        BY <2>1, <4>1
      <4>3. f[i] \in Nat /\ f[i - 1] \in Nat /\ f[i] = f[i - 1] + len(i) /\ len(i) \in Nat
        BY <1>0, <1>2, <4>1
      <4>4. f[i - 1] + len(i) <= f[k - 1]
        BY <4>2, <4>3
      <4>5. Placed(part(i), len(i), q[k], f[i - 1])
        <5>1. f[k - 1] \in Nat /\ f[i - 1] \in Nat /\ len(i) \in Nat
          BY <2>3, <4>3
        <5>2. Kept(q[k - 1], q[k], f[k - 1]) /\ Placed(part(i), len(i), q[k - 1], f[i - 1])
          BY <2>5, <4>2
        <5> QED BY <4>4, <5>1, <5>2, StayPlaced
      <4>6. f[i] <= f[k]
        <5>1. f[i] <= f[k - 1] /\ f[i] \in Nat
          BY <4>2, <4>3
        <5> QED BY <2>2, <2>3, <5>1
      <4> QED BY <4>5, <4>6
    <3> QED BY <3>1, <3>2
  <2>8. There(k)
    BY <2>5, <2>6, <2>7, Zenon
  <2>9. k \in 0 .. N
    OBVIOUS
  <2> HIDE DEF There
  <2> QED BY <2>8, <2>9, Zenon
<1>12. There(N)
  <2> HIDE DEF There
  <2>1. \A k \in 1 .. N : k - 1 \in S => k \in S
    BY <1>11, Zenon
  <2> HIDE DEF S
  <2>2. 0 .. N \subseteq S
    BY <1>10, <2>1, CountingUp
  <2>3. N \in 0 .. N
    OBVIOUS
  <2> QED BY <2>2, <2>3 DEF S
<1> QED BY <1>6, <1>12, Zenon DEF part, len

\* What a recipe is packed to is the value that another recipe of the same
\* variables and id reads.
LEMMA RoundTrip ==
    ASSUME NEW s, NEW id \in Int, IsRecipe(s, id), NEW r, r.list = s.list, r.type = s.type
    PROVE  ParserDataPackage(r, PackToBytes(s))
             = IF r.id = id THEN [r EXCEPT !.value = s.value] ELSE r
<1> DEFINE N == Len(s.list)
           package == PackToBytes(s)
<1>1. s.list \in Seq(STRING) /\ N \in Nat /\ DOMAIN s.list = 1 .. N
  BY DEF IsRecipe
<1> HIDE DEF N
<1>2. ASSUME NEW n \in Names(s.list)
      PROVE  /\ Place(s.list, n) \in 1 .. N /\ s.list[Place(s.list, n)] = n
             /\ s.type[n] \in DOMAIN Shape /\ s.value[n] \in [1 .. Shape[s.type[n]][2] -> Int]
             /\ Size(s.type, n) \in Nat \ {0}
             /\ UnpackValue(s.type[n], Part(s, n)) = s.value[n]
  <2>1. \E i \in 1 .. N : s.list[i] = n
    BY <1>1 DEF Names
  <2>2. Place(s.list, n) \in 1 .. N /\ s.list[Place(s.list, n)] = n
    <3>1. Place(s.list, n) = CHOOSE i \in 1 .. N : s.list[i] = n
      BY <1>1, Zenon DEF Place
    <3> QED BY <2>1, <3>1, Zenon
  <2> DEFINE t == s.type[n]
             v == s.value[n]
  <2>3. t \in DOMAIN Shape /\ v \in [1 .. Shape[t][2] -> Int] /\ \A i \in 1 .. Shape[t][2] : Carries(Shape[t][1], v[i])
    BY DEF IsRecipe
  <2> HIDE DEF t, v
  <2>4. Width[Shape[t][1]] * Shape[t][2] \in Nat \ {0} /\ UnpackValue(t, PackValue(t, v)) = v
    BY <2>3, ValueKept, Zenon
  <2> QED BY <2>2, <2>3, <2>4, Zenon DEF t, v, Part, Size
<1>3. \A k \in 1 .. N : s.list[k] \in Names(s.list)
  BY <1>1 DEF Names
<1>4. PICK f : /\ Sums(f, s.list, s.type, N)
                /\ \A i \in 1 .. N : Offset(s.list, s.type, i) = f[i - 1]
  <2>1. \A k \in 1 .. N : Size(s.type, s.list[k]) \in Nat
    BY <1>2, <1>3
  <2>2. Len(s.list) = N
    BY DEF N
  <2>3. N \in Nat
    BY <1>1
  <2> DEFINE list == s.list
             type == s.type
  <2> HIDE DEF list, type
  <2>4. Sized(list, type, N)
    BY <2>1, <2>2 DEF Sized, list, type
  <2>5. \E f : Sums(f, list, type, N) /\ \A i \in 1 .. N : Offset(list, type, i) = f[i - 1]
    BY <2>3, <2>4, Offsets, Zenon
  <2> QED BY <2>5, Zenon DEF list, type
<1>5. /\ package[1] = id
      /\ \A i \in 1 .. N : Placed(Part(s, s.list[i]), Size(s.type, s.list[i]), package, f[i - 1])
  <2>1. Len(s.list) = N
    BY DEF N
  <2>2. N \in Nat
    BY <1>1
  <2>3. Sums(f, s.list, s.type, N)
    BY <1>4
  <2>4. /\ PackToBytes(s)[1] = id
        /\ \A i \in 1 .. N : Placed(Part(s, s.list[i]), Size(s.type, s.list[i]), PackToBytes(s), f[i - 1])
    BY <2>1, <2>2, <2>3, PackageIs, Zenon
  <2> QED BY <2>4, Zenon DEF package
<1> HIDE DEF package
<1> DEFINE read(n) ==
      LET before == Offset(s.list, s.type, Place(s.list, n))
      IN  UnpackValue(s.type[n], SubSeq(package, before + 1, before + Size(s.type, n)))
<1>6. ASSUME NEW n \in Names(s.list)
      PROVE  read(n) = s.value[n]
  <2> DEFINE i == Place(s.list, n)
             m == Size(s.type, n)
             u == Part(s, n)
  <2>1. i \in 1 .. N /\ s.list[i] = n
    BY <1>2
  <2> HIDE DEF i
  <2>2. i - 1 \in 0 .. N
    BY <1>1, <2>1
  <2>3. Offset(s.list, s.type, i) = f[i - 1] /\ f[i - 1] \in Nat
    BY <1>4, <2>1, <2>2 DEF Sums
  <2>4. Placed(u, m, package, f[i - 1])
    BY <1>5, <2>1
  <2>5. m \in Nat /\ m > 0
    BY <1>2
  <2> HIDE DEF m, u
  <2>6. SubSeq(package, f[i - 1] + 1, f[i - 1] + m) = u
    BY <2>3, <2>4, <2>5, PartIs, Zenon
  <2>7. UnpackValue(s.type[n], u) = s.value[n]
    BY <1>2, Zenon DEF u
  <2>8. read(n) = UnpackValue(s.type[n], SubSeq(package, f[i - 1] + 1, f[i - 1] + m))
    BY <2>3, Zenon DEF i, m
  <2> QED BY <2>6, <2>7, <2>8, Zenon
<1>7. [n \in Names(s.list) |-> read(n)] = s.value
  <2>1. [n \in Names(s.list) |-> read(n)] = [n \in Names(s.list) |-> s.value[n]]
    <3> HIDE DEF read
    <3> QED BY <1>6, Zenon
  <2> QED BY <2>1, Zenon DEF IsRecipe
<1>8. ParserDataPackage(r, package)
        = IF package[1] # r.id THEN r ELSE [r EXCEPT !.value = [n \in Names(s.list) |-> read(n)]]
  BY Zenon DEF ParserDataPackage
<1> HIDE DEF read
<1> QED BY <1>5, <1>7, <1>8, Zenon DEF package

\* The bits of the numbers the setters write into masks.
LEMMA BitsOf ==
    /\ Power(2)[0] = 1 /\ Power(2)[1] = 2 /\ Power(2)[4] = 16
    /\ \A j \in 0 .. 3 : /\ ~BitSet(0, j) /\ ~BitSet(16, j)
                         /\ BitSet(1, j) => j = 0
                         /\ BitSet(2, j) => j = 1
    /\ BitSet(1, 0) /\ BitSet(2, 1) /\ BitSet(3, 0) /\ BitSet(3, 1)
<1>1. /\ Power(2)[0] = 1
      /\ Power(2)[1] = 2 * Power(2)[0] /\ Power(2)[2] = 2 * Power(2)[1]
      /\ Power(2)[3] = 2 * Power(2)[2] /\ Power(2)[4] = 2 * Power(2)[3]
  <2>1. 1 - 1 = 0 /\ 2 - 1 = 1 /\ 3 - 1 = 2 /\ 4 - 1 = 3 /\ 2 \in Int
    OBVIOUS
  <2>2. {1, 2, 3, 4} \subseteq 1 .. 8
    OBVIOUS
  <2>3. Power(2)[0] = 1 /\ \A k \in 1 .. 8 : Power(2)[k] = 2 * Power(2)[k - 1]
    BY <2>1, PowerIs, Zenon
  <2> QED BY <2>1, <2>2, <2>3
<1>2. Power(2)[0] = 1 /\ Power(2)[1] = 2 /\ Power(2)[2] = 4 /\ Power(2)[3] = 8 /\ Power(2)[4] = 16
  BY <1>1
<1>3. \A n \in Nat : /\ BitSet(n, 0) <=> (n \div 1) % 2 = 1
                     /\ BitSet(n, 1) <=> (n \div 2) % 2 = 1
                     /\ BitSet(n, 2) <=> (n \div 4) % 2 = 1
                     /\ BitSet(n, 3) <=> (n \div 8) % 2 = 1
  BY <1>2 DEF BitSet
<1>4. /\ ~BitSet(0, 0) /\ ~BitSet(0, 1) /\ ~BitSet(0, 2) /\ ~BitSet(0, 3)
      /\ ~BitSet(16, 0) /\ ~BitSet(16, 1) /\ ~BitSet(16, 2) /\ ~BitSet(16, 3)
      /\ BitSet(1, 0) /\ ~BitSet(1, 1) /\ ~BitSet(1, 2) /\ ~BitSet(1, 3)
      /\ ~BitSet(2, 0) /\ BitSet(2, 1) /\ ~BitSet(2, 2) /\ ~BitSet(2, 3)
      /\ BitSet(3, 0) /\ BitSet(3, 1)
  BY <1>3
<1>5. \A j \in 0 .. 3 : j = 0 \/ j = 1 \/ j = 2 \/ j = 3
  OBVIOUS
<1> QED BY <1>2, <1>4, <1>5

\* The variable that masks an output, and the masks under which it is commanded.
MaskOf(o) ==
    CASE o[1] = "speed" -> "speed_slider_mask"
      [] o[1] = "analog" -> "standard_analog_output_mask"
      [] OTHER -> DigitalMask[o[1]]

MaskSet(o, n) == IF o[1] = "speed" THEN n = 1 ELSE BitSet(n, o[2])

\* The kinds of digital outputs, and their variables.
LEMMA Digitals ==
    /\ DOMAIN DigitalMask = {"standard", "configurable", "tool"}
    /\ DigitalMask["standard"] = "standard_digital_output_mask"
    /\ DigitalMask["configurable"] = "configurable_digital_output_mask"
    /\ DigitalMask["tool"] = "tool_digital_output_mask"
    /\ DigitalVariable["standard"] = "standard_digital_output"
    /\ DigitalVariable["configurable"] = "configurable_digital_output"
    /\ DigitalVariable["tool"] = "tool_digital_output"
  BY DEF DigitalMask, DigitalVariable

\* The outputs, kind by kind.
LEMMA KindsOfOutput ==
    ASSUME NEW o \in AllOutputs
    PROVE  /\ o = <<o[1], o[2]>> /\ o[2] \in 0 .. 3
           /\ \/ o[1] = "speed" /\ o[2] = 0
              \/ o[1] = "force" /\ o[2] = 0
              \/ o[1] = "analog" /\ o[2] \in 0 .. 1
              \/ o[1] = "standard"
              \/ o[1] \in {"configurable", "tool"} /\ o[2] \in 0 .. 1
<1>1. CASE o \in {<<"speed", 0>>, <<"force", 0>>, <<"analog", 0>>, <<"analog", 1>>}
  BY <1>1
<1>2. CASE o \in {"standard"} \X (0 .. 3)
  BY <1>2
<1>3. CASE o \in {"configurable", "tool"} \X (0 .. 1)
  BY <1>3
<1> QED BY <1>1, <1>2, <1>3, Zenon DEF AllOutputs

\* The masks of the outputs.
MaskTable(o) ==
    /\ o[1] = "speed" => MaskOf(o) = "speed_slider_mask"
    /\ o[1] = "analog" => MaskOf(o) = "standard_analog_output_mask"
    /\ o[1] = "standard" => MaskOf(o) = "standard_digital_output_mask"
    /\ o[1] = "configurable" => MaskOf(o) = "configurable_digital_output_mask"
    /\ o[1] = "tool" => MaskOf(o) = "tool_digital_output_mask"
    /\ o[1] \in {"speed", "analog", "standard", "configurable", "tool"}

\* Each output but the force has its mask.
LEMMA Masks ==
    ASSUME NEW o \in AllOutputs, o[1] # "force"
    PROVE  MaskTable(o)
<1>1. o[1] \in {"speed", "analog", "standard", "configurable", "tool"}
  BY KindsOfOutput
<1>2. /\ o[1] = "speed" => MaskOf(o) = "speed_slider_mask"
      /\ o[1] = "analog" => MaskOf(o) = "standard_analog_output_mask"
      /\ o[1] # "speed" /\ o[1] # "analog" => MaskOf(o) = DigitalMask[o[1]]
  BY DEF MaskOf
<1> QED BY <1>1, <1>2, Digitals DEF MaskTable

\* A commanded output has its mask set.
LEMMA CommandedNeedsMask ==
    ASSUME NEW r, NEW o \in AllOutputs, o[1] # "force", Commanded(r, o)
    PROVE  MaskOf(o) \in DOMAIN r.value /\ MaskSet(o, r.value[MaskOf(o)][1])
<1>1. CASE o[1] = "speed"
  <2>1. "speed_slider_mask" \in DOMAIN r.value /\ r.value["speed_slider_mask"][1] = 1
    BY <1>1 DEF Commanded
  <2>2. MaskOf(o) = "speed_slider_mask"
    BY <1>1, Masks DEF MaskTable
  <2> QED BY <1>1, <2>1, <2>2, Zenon DEF MaskSet
<1>2. CASE o[1] = "analog"
  <2>1. /\ "standard_analog_output_mask" \in DOMAIN r.value
        /\ BitSet(r.value["standard_analog_output_mask"][1], o[2])
    BY <1>2 DEF Commanded
  <2>2. MaskOf(o) = "standard_analog_output_mask"
    BY <1>2, Masks DEF MaskTable
  <2>3. o[1] # "speed"
    BY <1>2
  <2> QED BY <2>1, <2>2, <2>3, Zenon DEF MaskSet
<1>3. CASE o[1] # "speed" /\ o[1] # "analog"
  <2>1. DigitalMask[o[1]] \in DOMAIN r.value /\ BitSet(r.value[DigitalMask[o[1]]][1], o[2])
    BY <1>3 DEF Commanded
  <2>2. MaskOf(o) = DigitalMask[o[1]]
    BY <1>3 DEF MaskOf
  <2> QED BY <1>3, <2>1, <2>2, Zenon DEF MaskSet
<1> QED BY <1>1, <1>2, <1>3

\* A double has room for what is computed from the levels and samples.
LEMMA DoubleHasRoom ==
    /\ \A n \in 0 .. 16 : Carries("DOUBLE", n)
    /\ \A n \in Samples \cup Levels :
         /\ n \in Int /\ Carries("DOUBLE", n) /\ Carries("DOUBLE", n * 8) /\ Carries("DOUBLE", (n - 4) * 5)
         /\ \A i \in 1 .. 6 : Carries("DOUBLE", n + i) /\ Carries("DOUBLE", n - i)
<1> DEFINE p == Power(Base)
<1>1. /\ p[1] = Base /\ \A k \in 1 .. 8 : p[k] = Base * p[k - 1] /\ p[k] \in Int /\ p[k] >= 4
  BY Powers
<1>2. Base \in Int /\ Base >= 4
  BY BaseAssumption
<1>3. \A n \in Samples \cup Levels : n \in Int /\ 10 * n \in -p[7] .. p[7]
  BY NumbersAssumption
<1> HIDE DEF p
<1>4. \A x \in Int : x >= 0 => Base * x >= 4 * x
  BY <1>2
<1>5. ASSUME NEW k \in 2 .. 8
      PROVE  p[k] \in Int /\ p[k - 1] \in Int /\ p[k] >= 4 * p[k - 1]
  <2>1. p[k] = Base * p[k - 1] /\ p[k] \in Int /\ k - 1 \in 1 .. 8
    BY <1>1
  <2>2. p[k - 1] \in Int /\ p[k - 1] >= 4
    BY <1>1, <2>1
  <2> QED BY <1>4, <2>1, <2>2
<1>6. p[7] \in Int /\ p[7] >= 100 /\ p[8] \in Int /\ p[8] >= 4 * p[7]
  <2>1. p[1] >= 4 /\ p[1] \in Int
    BY <1>1
  <2>2. p[2] >= 16 /\ p[2] \in Int
    BY <1>5, <2>1
  <2>3. p[3] >= 64 /\ p[3] \in Int
    BY <1>5, <2>2
  <2>4. p[4] >= 100 /\ p[4] \in Int
    BY <1>5, <2>3
  <2>5. p[5] >= 100 /\ p[5] \in Int
    BY <1>5, <2>4
  <2>6. p[6] >= 100 /\ p[6] \in Int
    BY <1>5, <2>5
  <2>7. p[7] >= 100 /\ p[7] \in Int
    BY <1>5, <2>6
  <2> QED BY <1>5, <2>7
<1> DEFINE half == p[7]
           all  == p[8]
<1> HIDE DEF half, all
<1>7. half \in Int /\ half >= 100 /\ all \in Int /\ all >= 4 * half
  BY <1>6 DEF half, all
<1>8. ASSUME NEW x \in Int, -all <= 2 * x, 2 * x < all
      PROVE  Carries("DOUBLE", x)
  <2>1. Signed("DOUBLE") /\ Width["DOUBLE"] = 8 /\ "DOUBLE" # "BOOL"
    BY Widths DEF Signed
  <2>2. -p[8] <= 2 * x /\ 2 * x < p[8]
    BY <1>8 DEF all
  <2> QED BY <2>1, <2>2, Zenon DEF Carries, p
<1>9. \A n \in 0 .. 16 : Carries("DOUBLE", n)
  BY <1>7, <1>8
<1>10. ASSUME NEW n \in Samples \cup Levels
       PROVE  /\ n \in Int /\ Carries("DOUBLE", n) /\ Carries("DOUBLE", n * 8) /\ Carries("DOUBLE", (n - 4) * 5)
              /\ \A i \in 1 .. 6 : Carries("DOUBLE", n + i) /\ Carries("DOUBLE", n - i)
  <2>1. n \in Int /\ -half <= 10 * n /\ 10 * n <= half
    BY <1>3, <1>7 DEF half
  <2>2. Carries("DOUBLE", n)
    BY <1>7, <1>8, <2>1
  <2>3. Carries("DOUBLE", n * 8)
    BY <1>7, <1>8, <2>1
  <2>4. Carries("DOUBLE", (n - 4) * 5)
    BY <1>7, <1>8, <2>1
  <2>5. ASSUME NEW i \in 1 .. 6
        PROVE  Carries("DOUBLE", n + i) /\ Carries("DOUBLE", n - i)
    <3>1. Carries("DOUBLE", n + i)
      BY <1>7, <1>8, <2>1
    <3>2. Carries("DOUBLE", n - i)
      BY <1>7, <1>8, <2>1
    <3> QED BY <3>1, <3>2
  <2> QED BY <2>1, <2>2, <2>3, <2>4, <2>5
<1> QED BY <1>9, <1>10

\* Masks and bits have unsigned types, levels are doubles.
Typed(r) ==
    \A n \in DOMAIN r.value :
      /\ n \in BitVariables => r.type[n] \in Unsigned
      /\ n \in LevelVariables => r.type[n] = "DOUBLE"

\* What a setter writes fits a double: one number, or six.
WriteIs(w) ==
    IF w.vector
    THEN w.value \in [1 .. 6 -> Int] /\ \A i \in 1 .. 6 : Carries("DOUBLE", w.value[i])
    ELSE w.value = <<w.value[1]>> /\ Carries("DOUBLE", w.value[1])

\* The recipe holds what the setter writes.
Written(c, r) ==
    \A k \in DOMAIN c.writes :
      /\ c.writes[k].name \in DOMAIN r.value
      /\ r.value[c.writes[k].name] = Taken(r, c.writes[k])

\* Setters write what fits, each variable once, and of the masks only the own one.
CallIs(c) ==
    /\ DOMAIN c.writes \subseteq {1, 2, 3}
    /\ \A k \in DOMAIN c.writes : WriteIs(c.writes[k])
    /\ \A j, k \in DOMAIN c.writes : c.writes[j].name = c.writes[k].name => j = k
    /\ \A k \in DOMAIN c.writes, o \in AllOutputs :
         o[1] # "force" /\ c.writes[k].name = MaskOf(o)
           => /\ ~c.writes[k].vector
              /\ \A t \in Unsigned : MaskSet(o, Convert(t, c.writes[k].value[1])) => o = c.out

\* What a setter wrote commands its output to be as asked.
EffectIs(c) ==
    \A r : Typed(r) /\ Written(c, r) /\ c.out \in AllOutputs
             => Commanded(r, c.out) /\ Command(r, c.out) = c.state

\* Fields of a write, and what becomes of it.
LEMMA Writes ==
    ASSUME NEW name, NEW n
    PROVE  /\ Write(name, n).name = name /\ ~Write(name, n).vector
           /\ Write(name, n).value = <<n>> /\ Write(name, n).value[1] = n
           /\ Carries("DOUBLE", n) => WriteIs(Write(name, n))
           /\ \A r : Taken(r, Write(name, n)) = <<Convert(r.type[name], n)>>
<1>1. Write(name, n) = [name |-> name, value |-> <<n>>, vector |-> FALSE] /\ <<n>>[1] = n
  BY DEF Write
<1>2. /\ Write(name, n).name = name /\ ~Write(name, n).vector
      /\ Write(name, n).value = <<n>> /\ Write(name, n).value[1] = n
  BY <1>1
<1> QED BY <1>2, Zenon DEF WriteIs, Taken

\* A number that is taken is converted.
LEMMA WriteTaken ==
    ASSUME NEW name, NEW n, NEW r
    PROVE  Taken(r, Write(name, n)) = <<Convert(r.type[name], n)>>
  BY Writes

\* setSpeedScaling.
LEMMA SpeedCall ==
    ASSUME NEW n \in Levels
    PROVE  CallIs(SetSpeedScaling(n)) /\ EffectIs(SetSpeedScaling(n))
<1> DEFINE c  == SetSpeedScaling(n)
           w1 == Write("speed_slider_mask", 1)
           w2 == Write("speed_slider_fraction", n)
<1>1. c.out = <<"speed", 0>> /\ c.state = <<n>> /\ c.writes = <<w1, w2>>
  BY DEF SetSpeedScaling
<1>2. /\ w1.name = "speed_slider_mask" /\ ~w1.vector /\ w1.value[1] = 1 /\ WriteIs(w1)
      /\ w2.name = "speed_slider_fraction" /\ WriteIs(w2)
  BY Writes, DoubleHasRoom
<1>3. \A r : /\ Taken(r, w1) = <<Convert(r.type["speed_slider_mask"], 1)>>
            /\ Taken(r, w2) = <<Convert(r.type["speed_slider_fraction"], n)>>
  BY WriteTaken
<1> HIDE DEF c, w1, w2
<1>4. DOMAIN c.writes = {1, 2} /\ c.writes[1] = w1 /\ c.writes[2] = w2
  BY <1>1
<1>5. ASSUME NEW o \in AllOutputs, o[1] # "force"
      PROVE  /\ w1.name = MaskOf(o) => o = c.out
             /\ w2.name # MaskOf(o)
  <2>0. MaskTable(o)
    BY <1>5, Masks, Zenon
  <2>1. w1.name = MaskOf(o) => o[1] = "speed"
    BY <1>2, <2>0 DEF MaskTable
  <2>2. w2.name # MaskOf(o)
    BY <1>2, <2>0 DEF MaskTable
  <2>3. o[1] = "speed" => o = <<"speed", 0>>
    BY KindsOfOutput
  <2> QED BY <1>1, <2>1, <2>2, <2>3
<1>6. CallIs(c)
  <2>1. \A k \in DOMAIN c.writes : WriteIs(c.writes[k])
    BY <1>2, <1>4
  <2>2. \A j, k \in DOMAIN c.writes : c.writes[j].name = c.writes[k].name => j = k
    BY <1>2, <1>4
  <2>3. ASSUME NEW k \in DOMAIN c.writes, NEW o \in AllOutputs, o[1] # "force", c.writes[k].name = MaskOf(o)
        PROVE  ~c.writes[k].vector /\ o = c.out
    BY <1>2, <1>4, <1>5, <2>3
  <2>4. DOMAIN c.writes \subseteq {1, 2, 3}
    BY <1>4
  <2> QED BY <2>1, <2>2, <2>3, <2>4, Zenon DEF CallIs
<1>7. ASSUME NEW r, Typed(r), Written(c, r)
      PROVE  Commanded(r, c.out) /\ Command(r, c.out) = c.state
  <2>1. /\ "speed_slider_mask" \in DOMAIN r.value /\ r.value["speed_slider_mask"] = Taken(r, w1)
        /\ "speed_slider_fraction" \in DOMAIN r.value /\ r.value["speed_slider_fraction"] = Taken(r, w2)
    BY <1>2, <1>4, <1>7 DEF Written
  <2>2. r.type["speed_slider_mask"] \in Unsigned /\ r.type["speed_slider_fraction"] = "DOUBLE"
    BY <1>7, <2>1 DEF Typed, BitVariables, LevelVariables
  <2>3. r.value["speed_slider_mask"] = <<1>>
    <3>1. Convert(r.type["speed_slider_mask"], 1) = 1
      BY <2>2, SmallNumbers
    <3> QED BY <1>3, <2>1, <3>1
  <2>4. r.value["speed_slider_fraction"] = <<n>>
    <3>1. Convert("DOUBLE", n) = n
      BY DEF Convert
    <3> QED BY <1>3, <2>1, <2>2, <3>1
  <2>5. c.out[1] = "speed" /\ <<1>>[1] = 1
    BY <1>1
  <2>6. Commanded(r, c.out)
    BY <2>1, <2>3, <2>5, Zenon DEF Commanded
  <2>7. Command(r, c.out) = r.value["speed_slider_fraction"]
    BY <2>5, Zenon DEF Command
  <2> QED BY <1>1, <2>4, <2>6, <2>7
<1>8. EffectIs(c)
  BY <1>7, Zenon DEF EffectIs
<1> QED BY <1>6, <1>8 DEF c

\* setExternalForceTorque.
LEMMA ForceCall ==
    ASSUME NEW n \in Levels
    PROVE  LET c == SetExternalForceTorque([i \in 1 .. 6 |-> n - i]) IN CallIs(c) /\ EffectIs(c)
<1> DEFINE v == [i \in 1 .. 6 |-> n - i]
           c == SetExternalForceTorque(v)
           w == [name |-> "external_force_torque", value |-> v, vector |-> TRUE]
<1>1. c.out = <<"force", 0>> /\ c.state = v /\ c.writes = <<w>>
  BY DEF SetExternalForceTorque
<1>2. v \in [1 .. 6 -> Int] /\ \A i \in 1 .. 6 : v[i] = n - i /\ Carries("DOUBLE", n - i)
  BY DoubleHasRoom
<1>3. w.name = "external_force_torque" /\ w.vector = TRUE /\ w.value = v
  BY Zenon
<1>4. WriteIs(w)
  <2> HIDE DEF w, v
  <2> QED BY <1>2, <1>3 DEF WriteIs
<1>5. \A r : Taken(r, w) = v
  BY <1>3, Zenon DEF Taken
<1> HIDE DEF c, w, v
<1>6. DOMAIN c.writes = {1} /\ c.writes[1] = w
  BY <1>1
<1>7. \A o \in AllOutputs : o[1] # "force" => w.name # MaskOf(o)
  BY <1>3, Masks DEF MaskTable
<1>8. CallIs(c)
  BY <1>4, <1>6, <1>7 DEF CallIs
<1>9. ASSUME NEW r, Written(c, r)
      PROVE  Commanded(r, c.out) /\ Command(r, c.out) = c.state
  <2>1. "external_force_torque" \in DOMAIN r.value /\ r.value["external_force_torque"] = v
    BY <1>3, <1>5, <1>6, <1>9 DEF Written
  <2>2. c.out[1] = "force" /\ "force" # "speed"
    BY <1>1
  <2>3. Commanded(r, c.out)
    BY <2>1, <2>2, Zenon DEF Commanded
  <2>4. Command(r, c.out) = r.value["external_force_torque"]
    BY <2>2, Zenon DEF Command
  <2> QED BY <1>1, <2>1, <2>3, <2>4
<1>10. EffectIs(c)
  BY <1>9, Zenon DEF EffectIs
<1> QED BY <1>8, <1>10, Zenon DEF c, v

\* The bit of an index, as it is written into masks.
LEMMA BitIs ==
    ASSUME NEW i \in {0, 1, 4}, NEW t \in Unsigned
    PROVE  /\ i = 0 => Bit(i, t) = 1
           /\ i = 1 => Bit(i, t) = 2
           /\ i = 4 => Bit(i, t) \in {0, 16}
           /\ Bit(i, t) \in 0 .. 16
<1>1. Bit(i, t) = Convert(t, Power(2)[i])
  BY DEF Bit
<1>2. /\ Power(2)[0] = 1 /\ Power(2)[1] = 2 /\ Power(2)[4] = 16
  BY BitsOf
<1>3. Convert(t, 1) = 1 /\ Convert(t, 2) = 2 /\ Convert(t, 16) \in {0, 16}
  <2>1. \A n \in 0 .. 3 : Convert(t, n) = n
    BY SmallNumbers
  <2>2. Convert(t, 16) \in {0, 16}
    BY SmallNumbers
  <2> QED BY <2>1, <2>2
<1> QED BY <1>1, <1>2, <1>3

\* A mask with one bit selects one output.
LEMMA MaskSelects ==
    ASSUME NEW i \in {0, 1, 4}, NEW b, i = 0 => b = 1, i = 1 => b = 2, i = 4 => b \in {0, 16},
           NEW t \in Unsigned, NEW j \in 0 .. 3, BitSet(Convert(t, b), j)
    PROVE  j = i
<1>1. \A n \in 0 .. 3 : Convert(t, n) = n
  BY SmallNumbers
<1>2. Convert(t, 16) \in {0, 16}
  BY SmallNumbers
<1>3. CASE i = 0
  <2>1. Convert(t, b) = 1
    BY <1>1, <1>3
  <2> QED BY <1>3, <2>1, BitsOf
<1>4. CASE i = 1
  <2>1. Convert(t, b) = 2
    BY <1>1, <1>4
  <2> QED BY <1>4, <2>1, BitsOf
<1>5. CASE i = 4
  <2>1. Convert(t, b) \in {0, 16}
    BY <1>1, <1>2, <1>5
  <2> QED BY <2>1, BitsOf
<1> QED BY <1>3, <1>4, <1>5

\* setStandardDigital, setConfigureDigital and setToolDigitalOutput.
LEMMA DigitalCall ==
    ASSUME NEW kind \in DOMAIN DigitalMask, NEW i \in {0, 1, 4}, NEW high \in {0, 1}
    PROVE  CallIs(SetDigital(kind, i, high)) /\ EffectIs(SetDigital(kind, i, high))
<1> DEFINE c    == SetDigital(kind, i, high)
           type == IF kind = "standard" THEN "UINT16" ELSE "UINT8"
           b    == Bit(i, type)
           x    == IF high = 1 THEN b ELSE 0
           w1   == Write(DigitalMask[kind], b)
           w2   == Write(DigitalVariable[kind], x)
<1>1. c.out = <<kind, i>> /\ c.state = <<high>> /\ c.writes = <<w1, w2>>
  BY DEF SetDigital
<1>2. type \in Unsigned
  BY DEF Unsigned
<1> HIDE DEF type
<1>3. (i = 0 => b = 1) /\ (i = 1 => b = 2) /\ (i = 4 => b \in {0, 16}) /\ b \in 0 .. 16
  BY <1>2, BitIs
<1> HIDE DEF b
<1>4. x \in 0 .. 16 /\ (high = 1 => x = b) /\ (high = 0 => x = 0)
  BY <1>3
<1> HIDE DEF x
<1>5. /\ w1.name = DigitalMask[kind] /\ ~w1.vector /\ w1.value[1] = b /\ WriteIs(w1)
      /\ w2.name = DigitalVariable[kind] /\ WriteIs(w2)
  <2>1. Carries("DOUBLE", b) /\ Carries("DOUBLE", x)
    BY <1>3, <1>4, DoubleHasRoom
  <2> QED BY <2>1, Writes
<1>6. \A r : Taken(r, w1) = <<Convert(r.type[DigitalMask[kind]], b)>>
  BY WriteTaken
<1>7. \A r : Taken(r, w2) = <<Convert(r.type[DigitalVariable[kind]], x)>>
  BY WriteTaken
<1> HIDE DEF c, w1, w2
<1>8. DOMAIN c.writes = {1, 2} /\ c.writes[1] = w1 /\ c.writes[2] = w2
  BY <1>1
<1>9. kind \in {"standard", "configurable", "tool"}
  BY Digitals
<1>10. w1.name # w2.name
  BY <1>5, <1>9, Digitals
<1>11. ASSUME NEW o \in AllOutputs, o[1] # "force"
       PROVE  /\ w1.name = MaskOf(o) => o[1] = kind
              /\ w2.name # MaskOf(o)
  <2>1. MaskTable(o)
    BY <1>11, Masks, Zenon
  <2> QED BY <1>5, <1>9, <2>1, Digitals DEF MaskTable
<1>12. CallIs(c)
  <2>1. \A k \in DOMAIN c.writes : WriteIs(c.writes[k])
    BY <1>5, <1>8
  <2>2. \A j, k \in DOMAIN c.writes : c.writes[j].name = c.writes[k].name => j = k
    BY <1>8, <1>10
  <2>3. ASSUME NEW k \in DOMAIN c.writes, NEW o \in AllOutputs, o[1] # "force", c.writes[k].name = MaskOf(o)
        PROVE  /\ ~c.writes[k].vector
               /\ \A t \in Unsigned : MaskSet(o, Convert(t, c.writes[k].value[1])) => o = c.out
    <3>1. c.writes[k] = w1 /\ o[1] = kind
      BY <1>8, <1>11, <2>3
    <3>2. ASSUME NEW t \in Unsigned, MaskSet(o, Convert(t, b))
          PROVE  o = c.out
      <4>1. BitSet(Convert(t, b), o[2])
        BY <1>9, <3>1, <3>2 DEF MaskSet
      <4>2. o[2] \in 0 .. 3 /\ o = <<o[1], o[2]>>
        BY KindsOfOutput
      <4>3. o[2] = i
        BY <1>3, <4>1, <4>2, MaskSelects
      <4> QED BY <1>1, <3>1, <4>2, <4>3
    <3> QED BY <1>5, <3>1, <3>2
  <2>4. DOMAIN c.writes \subseteq {1, 2, 3}
    BY <1>8
  <2> QED BY <2>1, <2>2, <2>3, <2>4, Zenon DEF CallIs
<1>13. ASSUME NEW r, Typed(r), Written(c, r), c.out \in AllOutputs
       PROVE  Commanded(r, c.out) /\ Command(r, c.out) = c.state
  <2> DEFINE mask == DigitalMask[kind]
             var  == DigitalVariable[kind]
  <2>1. /\ mask \in DOMAIN r.value /\ r.value[mask] = Taken(r, w1)
        /\ var \in DOMAIN r.value /\ r.value[var] = Taken(r, w2)
    BY <1>5, <1>8, <1>13 DEF Written
  <2>2. mask \in BitVariables /\ var \in BitVariables
    BY <1>9, Digitals DEF BitVariables
  <2> HIDE DEF mask, var
  <2>3. r.type[mask] \in Unsigned /\ r.type[var] \in Unsigned
    BY <1>13, <2>1, <2>2 DEF Typed
  <2>4. i \in {0, 1} /\ c.out[1] = kind /\ c.out[2] = i
    <3>1. c.out[2] \in 0 .. 3 /\ c.out[1] = kind /\ c.out[2] = i
      BY <1>1, <1>13, KindsOfOutput
    <3> QED BY <3>1
  <2>5. b \in {1, 2} /\ BitSet(b, i) /\ ~BitSet(0, i)
    BY <1>3, <2>4, BitsOf
  <2>6. r.value[mask][1] = b /\ r.value[var][1] = x
    <3>1. \A t \in Unsigned : Convert(t, b) = b /\ Convert(t, x) = x
      <4>1. b \in 0 .. 3 /\ x \in 0 .. 3
        BY <1>4, <2>5
      <4> QED BY <4>1, SmallNumbers
    <3>2. r.value[mask] = <<Convert(r.type[mask], b)>> /\ r.value[var] = <<Convert(r.type[var], x)>>
      BY <1>6, <1>7, <2>1 DEF mask, var
    <3> QED BY <2>3, <3>1, <3>2
  <2>7. kind # "speed" /\ kind # "force" /\ kind # "analog"
    BY <1>9
  <2>8. Commanded(r, c.out)
    BY <2>1, <2>4, <2>5, <2>6, <2>7, Zenon DEF Commanded, mask, var
  <2>9. Command(r, c.out) = <<IF BitSet(x, i) THEN 1 ELSE 0>>
    BY <2>4, <2>6, <2>7, Zenon DEF Command, mask, var
  <2>10. (IF BitSet(x, i) THEN 1 ELSE 0) = high
    BY <1>4, <2>5
  <2> QED BY <1>1, <2>8, <2>9, <2>10, Zenon
<1>14. EffectIs(c)
  BY <1>13, Zenon DEF EffectIs
<1> QED BY <1>12, <1>14 DEF c

\* setAnalogOutputVoltage and setAnalogOutputCurrent.
LEMMA AnalogCall ==
    ASSUME NEW kind \in {"voltage", "current"}, NEW i \in 0 .. 2, NEW n \in Levels
    PROVE  CallIs(SetAnalogOutput(kind, i, n)) /\ EffectIs(SetAnalogOutput(kind, i, n))
<1> DEFINE c  == SetAnalogOutput(kind, i, n)
           t  == AnalogType(kind)
           x  == AnalogLevel(kind, n)
           m  == IF i = 0 THEN 1 ELSE IF i = 1 THEN 2 ELSE 0
           v  == IF i = 0 THEN "standard_analog_output_0" ELSE "standard_analog_output_1"
           w1 == Write("standard_analog_output_type", 3 * t)
           w2 == Write("standard_analog_output_mask", m)
           w3 == Write(v, x)
<1>1. c.out = <<"analog", i>> /\ c.state = <<t, x>>
  BY DEF SetAnalogOutput
<1>2. c.writes = IF i = 2 THEN <<w1>> \o <<w2>> ELSE <<w1>> \o <<w2, w3>>
  <2>1. CASE i = 0
    BY <2>1 DEF SetAnalogOutput
  <2>2. CASE i = 1
    BY <2>2 DEF SetAnalogOutput
  <2>3. CASE i = 2
    BY <2>3 DEF SetAnalogOutput
  <2> QED BY <2>1, <2>2, <2>3
<1>3. t \in {0, 1} /\ 3 * t \in {0, 3} /\ (t = 1 => 3 * t = 3) /\ (t = 0 => 3 * t = 0)
  BY DEF AnalogType
<1>4. Carries("DOUBLE", x)
  <2>1. Carries("DOUBLE", n * 8) /\ Carries("DOUBLE", (n - 4) * 5)
    BY DoubleHasRoom
  <2> QED BY <2>1 DEF AnalogLevel
<1>5. (i = 0 => m = 1) /\ (i = 1 => m = 2) /\ (i = 2 => m = 0)
  OBVIOUS
<1>6. /\ w1.name = "standard_analog_output_type" /\ WriteIs(w1)
      /\ w2.name = "standard_analog_output_mask" /\ ~w2.vector /\ w2.value[1] = m /\ WriteIs(w2)
      /\ w3.name = v /\ WriteIs(w3)
  <2> DEFINE tt == 3 * t
  <2>1. Carries("DOUBLE", tt) /\ Carries("DOUBLE", m)
    BY <1>3, <1>5, DoubleHasRoom
  <2> HIDE DEF tt, m, x, v
  <2> QED BY <1>4, <2>1, Writes DEF tt
<1>7. \A r : Taken(r, w1) = <<Convert(r.type["standard_analog_output_type"], 3 * t)>>
  BY WriteTaken
<1>8. \A r : Taken(r, w2) = <<Convert(r.type["standard_analog_output_mask"], m)>>
  BY WriteTaken
<1>9. \A r : Taken(r, w3) = <<Convert(r.type[v], x)>>
  BY WriteTaken
<1> HIDE DEF c, w1, w2, w3, x, t, m
<1>10. /\ i = 2 => DOMAIN c.writes = {1, 2}
       /\ i # 2 => DOMAIN c.writes = {1, 2, 3} /\ c.writes[3] = w3
       /\ c.writes[1] = w1 /\ c.writes[2] = w2
  <2>1. CASE i = 2
    BY <1>2, <2>1
  <2>2. CASE i # 2
    BY <1>2, <2>2
  <2> QED BY <2>1, <2>2
<1>11. w1.name # w2.name /\ w1.name # w3.name /\ w2.name # w3.name
  BY <1>6
<1>12. ASSUME NEW o \in AllOutputs, o[1] # "force"
       PROVE  /\ w2.name = MaskOf(o) => o[1] = "analog"
              /\ w1.name # MaskOf(o) /\ w3.name # MaskOf(o)
  <2>1. MaskTable(o)
    BY <1>12, Masks, Zenon
  <2> QED BY <1>6, <2>1 DEF MaskTable
<1>13. CallIs(c)
  <2>1. \A k \in DOMAIN c.writes : WriteIs(c.writes[k])
    BY <1>6, <1>10
  <2>2. \A j, k \in DOMAIN c.writes : c.writes[j].name = c.writes[k].name => j = k
    BY <1>10, <1>11
  <2>3. ASSUME NEW k \in DOMAIN c.writes, NEW o \in AllOutputs, o[1] # "force", c.writes[k].name = MaskOf(o)
        PROVE  /\ ~c.writes[k].vector
               /\ \A u \in Unsigned : MaskSet(o, Convert(u, c.writes[k].value[1])) => o = c.out
    <3>1. c.writes[k] = w2 /\ o[1] = "analog"
      BY <1>10, <1>12, <2>3
    <3>2. ASSUME NEW u \in Unsigned, MaskSet(o, Convert(u, m))
          PROVE  o = c.out
      <4>1. BitSet(Convert(u, m), o[2])
        BY <3>1, <3>2 DEF MaskSet
      <4>2. o[2] \in 0 .. 3 /\ o = <<o[1], o[2]>>
        BY KindsOfOutput
      <4>3. m \in 0 .. 3 /\ Convert(u, m) = m
        <5>1. m \in 0 .. 3
          BY <1>5
        <5> QED BY <5>1, SmallNumbers
      <4>4. o[2] = i
        BY <1>5, <4>1, <4>2, <4>3, BitsOf
      <4> QED BY <1>1, <3>1, <4>2, <4>4
    <3> QED BY <1>6, <3>1, <3>2
  <2>4. DOMAIN c.writes \subseteq {1, 2, 3}
    BY <1>10
  <2> QED BY <2>1, <2>2, <2>3, <2>4, Zenon DEF CallIs
<1>14. ASSUME NEW r, Typed(r), Written(c, r), c.out \in AllOutputs
       PROVE  Commanded(r, c.out) /\ Command(r, c.out) = c.state
  <2> DEFINE mask == "standard_analog_output_mask"
             kept == "standard_analog_output_type"
  <2>1. i \in {0, 1} /\ c.out[1] = "analog" /\ c.out[2] = i
    <3>1. c.out[1] = "analog" /\ c.out[2] = i
      BY <1>1
    <3>2. c.out[2] \in 0 .. 1
      BY <1>14, <3>1, KindsOfOutput
    <3> QED BY <3>1, <3>2
  <2>2. /\ mask \in DOMAIN r.value /\ r.value[mask] = Taken(r, w2)
        /\ kept \in DOMAIN r.value /\ r.value[kept] = Taken(r, w1)
        /\ v \in DOMAIN r.value /\ r.value[v] = Taken(r, w3)
    BY <1>6, <1>10, <1>14, <2>1 DEF Written
  <2>3. mask \in BitVariables /\ kept \in BitVariables /\ v \in LevelVariables
    BY DEF BitVariables, LevelVariables
  <2>4. v = AnalogVariable[i + 1]
    BY <2>1 DEF AnalogVariable
  <2> HIDE DEF mask, kept, v
  <2>5. r.type[mask] \in Unsigned /\ r.type[kept] \in Unsigned /\ r.type[v] = "DOUBLE"
    BY <1>14, <2>2, <2>3 DEF Typed
  <2>6. r.value[mask][1] = m /\ r.value[kept][1] = 3 * t /\ r.value[v][1] = x
    <3>1. \A u \in Unsigned : Convert(u, m) = m /\ Convert(u, 3 * t) = 3 * t
      <4>1. m \in 0 .. 3 /\ 3 * t \in 0 .. 3
        BY <1>3, <1>5
      <4> QED BY <4>1, SmallNumbers
    <3>2. Convert("DOUBLE", x) = x
      BY DEF Convert
    <3>3. /\ r.value[mask] = <<Convert(r.type[mask], m)>>
          /\ r.value[kept] = <<Convert(r.type[kept], 3 * t)>>
          /\ r.value[v] = <<Convert(r.type[v], x)>>
      BY <1>7, <1>8, <1>9, <2>2 DEF mask, kept, v
    <3> QED BY <2>5, <3>1, <3>2, <3>3
  <2>7. BitSet(m, i)
    BY <1>5, <2>1, BitsOf
  <2>8. "analog" # "speed" /\ "analog" # "force"
    OBVIOUS
  <2>9. Commanded(r, c.out)
    BY <2>1, <2>2, <2>4, <2>6, <2>7, <2>8, Zenon DEF Commanded, mask
  <2>10. Command(r, c.out) = <<IF BitSet(3 * t, i) THEN 1 ELSE 0, x>>
    BY <2>1, <2>4, <2>6, <2>8, Zenon DEF Command, kept
  <2>11. (IF BitSet(3 * t, i) THEN 1 ELSE 0) = t
    BY <1>3, <2>1, BitsOf
  <2> QED BY <1>1, <2>9, <2>10, <2>11, Zenon
<1>15. EffectIs(c)
  BY <1>14, Zenon DEF EffectIs
<1> QED BY <1>13, <1>15 DEF c

\* All calls of setters.
LEMMA Calls ==
    ASSUME NEW c \in SetterCalls
    PROVE  CallIs(c) /\ EffectIs(c)
<1>1. CASE c \in {SetSpeedScaling(n) : n \in Levels}
  BY <1>1, SpeedCall
<1>2. CASE c \in {SetDigital(kind, i, high) : kind \in DOMAIN DigitalMask, i \in {0, 1, 4}, high \in {0, 1}}
  BY <1>2, DigitalCall
<1>3. CASE c \in {SetAnalogOutput(kind, i, n) : kind \in {"voltage", "current"}, i \in 0 .. 2, n \in Levels}
  BY <1>3, AnalogCall
<1>4. CASE c \in {SetExternalForceTorque([i \in 1 .. 6 |-> n - i]) : n \in Levels}
  BY <1>4, ForceCall
<1> QED BY <1>1, <1>2, <1>3, <1>4 DEF SetterCalls

\* A recipe of zeros for a list.
SetUp(r, id, list) ==
    /\ IsRecipe(r, id) /\ Typed(r) /\ DOMAIN r.value = Names(list)
    /\ \A n \in Names(list) : r.value[n] = [i \in 1 .. Shape[r.type[n]][2] |-> 0]

\* A recipe that was set up holds zeros.
LEMMA SetUpIs ==
    ASSUME NEW id \in Int, NEW list \in InputLists \cup OutputLists, NEW types \in TypesFor(list),
           ParserTypePackage(id, list, types) # NoRecipe
    PROVE  SetUp(ParserTypePackage(id, list, types), id, list)
<1> DEFINE r == ParserTypePackage(id, list, types)
           N == Len(list)
           type == [n \in Names(list) |-> types[Place(list, n)]]
           zero(n) == [i \in 1 .. Shape[type[n]][2] |-> 0]
           zeros == [n \in Names(list) |-> zero(n)]
<1>1. /\ Len(types) = Len(list) /\ \A i \in DOMAIN types : types[i] \in DOMAIN Shape
      /\ r = [id |-> id, list |-> list, type |-> type, value |-> zeros]
  BY DEF ParserTypePackage
<1>2. list \in Seq(STRING) \ {<<>>} /\ \A a \in TypeAnswers : Names(list) \subseteq DOMAIN a
  BY ListsAssumption
<1>3. N \in Nat /\ DOMAIN list = 1 .. N /\ list # <<>> /\ N > 0
  BY <1>2
<1>4. \E a \in TypeAnswers : types = [i \in DOMAIN list |-> a[list[i]]]
  <2> DEFINE all == {[i \in DOMAIN list |-> a[list[i]]] : a \in TypeAnswers}
  <2>1. types \in all \/ \E ts \in all : types = Tail(ts)
    BY DEF TypesFor
  <2>2. ASSUME NEW ts \in all, types = Tail(ts)
        PROVE  FALSE
    <3>1. PICK a \in TypeAnswers : ts = [i \in 1 .. N |-> a[list[i]]]
      BY <1>3
    <3> DEFINE V == {a[list[i]] : i \in 1 .. N}
    <3>2. ts \in [1 .. N -> V]
      BY <3>1
    <3> HIDE DEF V
    <3>3. ts \in Seq(V) /\ Len(ts) = N
      BY <1>3, <3>2
    <3>4. Len(Tail(ts)) = N - 1
      BY <1>3, <3>3
    <3> QED BY <1>1, <1>3, <2>2, <3>4 DEF N
  <2> QED BY <2>1, <2>2
<1>5. PICK a \in TypeAnswers : types = [i \in 1 .. N |-> a[list[i]]]
  BY <1>3, <1>4
<1>6. ASSUME NEW n \in Names(list)
      PROVE  type[n] = a[n] /\ type[n] \in DOMAIN Shape /\ n \in DOMAIN a
  <2>1. \E i \in 1 .. N : list[i] = n
    BY <1>3 DEF Names
  <2>2. Place(list, n) \in 1 .. N /\ list[Place(list, n)] = n
    <3>1. Place(list, n) = CHOOSE i \in 1 .. N : list[i] = n
      BY <1>3, Zenon DEF Place
    <3> QED BY <2>1, <3>1, Zenon
  <2>3. type[n] = types[Place(list, n)]
    BY Zenon
  <2>4. types[Place(list, n)] = a[n] /\ types[Place(list, n)] \in DOMAIN Shape
    BY <1>1, <1>5, <2>2
  <2>5. n \in DOMAIN a
    BY <1>2
  <2> QED BY <2>3, <2>4, <2>5, Zenon
<1> HIDE DEF r, type
<1>7. r.id = id /\ r.list = list /\ r.type = type /\ r.value = zeros
  BY <1>1
<1>8. ASSUME NEW n \in Names(list)
      PROVE  /\ zeros[n] = zero(n) /\ zero(n) \in [1 .. Shape[type[n]][2] -> Int]
             /\ \A i \in 1 .. Shape[type[n]][2] : Carries(Shape[type[n]][1], zero(n)[i])
  <2>1. Shape[type[n]][1] \in DOMAIN Width
    BY <1>6, Shapes
  <2>2. Carries(Shape[type[n]][1], 0)
    BY <2>1, Converts
  <2>3. zeros[n] = zero(n)
    BY Zenon
  <2> HIDE DEF zeros
  <2> QED BY <2>2, <2>3
<1>9. type = [n \in Names(list) |-> type[n]] /\ zeros = [n \in Names(list) |-> zeros[n]] /\ DOMAIN zeros = Names(list)
  BY DEF type
<1>10. type \in [Names(list) -> DOMAIN Shape]
  BY <1>6, <1>9
<1> HIDE DEF zeros
<1>11. IsRecipe(r, id)
  <2>1. r = [id |-> id, list |-> r.list, type |-> r.type, value |-> r.value]
    BY <1>1, <1>7
  <2>2. \A n \in Names(list) : /\ zeros[n] \in [1 .. Shape[type[n]][2] -> Int]
                               /\ \A i \in 1 .. Shape[type[n]][2] : Carries(Shape[type[n]][1], zeros[n][i])
    <3> HIDE DEF zero
    <3> QED BY <1>8
  <2> HIDE DEF zero
  <2> QED BY <1>2, <1>7, <1>9, <1>10, <2>1, <2>2 DEF IsRecipe
<1>12. Typed(r)
  <2>1. \A n \in Names(list) : /\ n \in BitVariables => a[n] \in Unsigned
                               /\ n \in LevelVariables => a[n] = "DOUBLE"
    BY <1>6, TypesAssumption
  <2> QED BY <1>6, <1>7, <1>9, <2>1 DEF Typed
<1> QED BY <1>7, <1>8, <1>9, <1>11, <1>12, Zenon DEF r, SetUp

\* The fields of a recipe.
LEMMA RecipeFields ==
    ASSUME NEW r, NEW id, IsRecipe(r, id)
    PROVE  /\ r.id = id /\ DOMAIN r.value = Names(r.list)
           /\ id # 0 => r # NoRecipe
<1>1. r.id = id
  BY DEF IsRecipe
<1>2. DOMAIN r.value = Names(r.list)
  BY Zenon DEF IsRecipe
<1>3. r = NoRecipe => r.id = 0
  BY DEF NoRecipe
<1> QED BY <1>1, <1>2, <1>3, Zenon

\* What setValue takes fits the variable.
LEMMA TakenFits ==
    ASSUME NEW r, NEW id, IsRecipe(r, id), NEW w, WriteIs(w), Takes(r, w)
    PROVE  /\ w.name \in Names(r.list)
           /\ Taken(r, w) \in [1 .. Shape[r.type[w.name]][2] -> Int]
           /\ \A i \in 1 .. Shape[r.type[w.name]][2] : Carries(Shape[r.type[w.name]][1], Taken(r, w)[i])
<1> DEFINE t == r.type[w.name]
           v == Taken(r, w)
<1>1. w.name \in Names(r.list) /\ t \in DOMAIN Shape
  <2>1. w.name \in DOMAIN r.value
    BY Zenon DEF Takes
  <2>2. DOMAIN r.value = Names(r.list)
    BY Zenon DEF IsRecipe
  <2>3. r.type \in [Names(r.list) -> DOMAIN Shape]
    BY Zenon DEF IsRecipe
  <2> QED BY <2>1, <2>2, <2>3
<1>2. Accepts(t, w.value, w.vector)
  BY Zenon DEF Takes
<1>3. CASE w.vector
  <2>1. v = w.value /\ v \in [1 .. 6 -> Int] /\ \A i \in 1 .. 6 : Carries("DOUBLE", v[i])
    BY <1>3, Zenon DEF Taken, WriteIs
  <2>2. Shape[t] = <<"DOUBLE", Len(v)>>
    BY <1>2, <1>3, <2>1, Zenon DEF Accepts
  <2>3. Len(v) = 6
    BY <2>1
  <2> HIDE DEF t, v
  <2>4. Shape[t][1] = "DOUBLE" /\ Shape[t][2] = 6
    BY <2>2, <2>3
  <2>5. /\ v \in [1 .. Shape[t][2] -> Int]
        /\ \A i \in 1 .. Shape[t][2] : Carries(Shape[t][1], v[i])
    BY <2>1, <2>4, Zenon
  <2> QED BY <1>1, <2>5, Zenon DEF t, v
<1>4. CASE ~w.vector
  <2> DEFINE x == w.value[1]
             y == Convert(t, x)
  <2>1. v = <<y>> /\ Carries("DOUBLE", x)
    BY <1>4, Zenon DEF Taken, WriteIs
  <2>2. Shape[t][2] = 1
    BY <1>2, <1>4, Zenon DEF Accepts
  <2> HIDE DEF t, v, x
  <2>3. t \in DOMAIN Width /\ Shape[t][1] = t
    BY <1>1, <2>2, Shapes
  <2>4. x \in Int
    BY <2>1 DEF Carries
  <2>5. Carries(t, y)
    <3>1. CASE t = "DOUBLE"
      BY <2>1, <2>3, <2>4, <3>1, Converts
    <3>2. CASE t # "DOUBLE"
      BY <2>3, <2>4, <3>2, Converts
    <3> QED BY <3>1, <3>2
  <2> HIDE DEF y
  <2>6. y \in Int
    BY <2>5 DEF Carries
  <2>7. v \in [1 .. 1 -> Int] /\ \A i \in 1 .. 1 : v[i] = y
    BY <2>1, <2>6
  <2>8. /\ v \in [1 .. Shape[t][2] -> Int]
        /\ \A i \in 1 .. Shape[t][2] : Carries(Shape[t][1], v[i])
    BY <2>2, <2>3, <2>5, <2>7
  <2> QED BY <1>1, <2>8, Zenon DEF t, v
<1> QED BY <1>3, <1>4

\* After a setter: the recipe is one, its done writes are in it, the rest stayed.
LEMMA SetterWrites ==
    ASSUME NEW r, NEW id, IsRecipe(r, id), Typed(r), NEW c, CallIs(c)
    PROVE  LET s == SetValues(r, c.writes)
           IN  /\ IsRecipe(s, id) /\ Typed(s) /\ DOMAIN s.value = DOMAIN r.value
               /\ Done(r, c.writes) = DOMAIN c.writes => Written(c, s)
               /\ \A n \in DOMAIN r.value :
                    \/ s.value[n] = r.value[n]
                    \/ \E k \in DOMAIN c.writes :
                         c.writes[k].name = n /\ s.value[n] = Taken(r, c.writes[k])
<1> DEFINE done == Done(r, c.writes)
           s == SetValues(r, c.writes)
           new(n) == IF \E k \in done : c.writes[k].name = n
                     THEN Taken(r, c.writes[CHOOSE k \in done : c.writes[k].name = n])
                     ELSE r.value[n]
<1>1. /\ r = [id |-> id, list |-> r.list, type |-> r.type, value |-> r.value]
      /\ DOMAIN r.value = Names(r.list)
  BY Zenon DEF IsRecipe
<1>2. s = [r EXCEPT !.value = [n \in DOMAIN r.value |-> new(n)]]
  BY Zenon DEF SetValues
<1> HIDE DEF s, new
<1>3. /\ s = [id |-> id, list |-> r.list, type |-> r.type, value |-> s.value]
      /\ s.list = r.list /\ s.type = r.type /\ s.id = id
      /\ s.value = [n \in DOMAIN r.value |-> new(n)]
  BY <1>1, <1>2
<1>4. DOMAIN s.value = DOMAIN r.value /\ \A n \in DOMAIN r.value : s.value[n] = new(n)
  BY <1>3, Zenon
<1>5. ASSUME NEW k \in done
      PROVE  k \in DOMAIN c.writes /\ Takes(r, c.writes[k])
  <2>1. k \in DOMAIN c.writes /\ \A j \in 1 .. k : Takes(r, c.writes[j])
    BY DEF Done
  <2>2. k \in {1, 2, 3}
    BY <2>1, Zenon DEF CallIs
  <2>3. k \in 1 .. k
    BY <2>2
  <2> QED BY <2>1, <2>3
<1> HIDE DEF done
<1>6. ASSUME NEW n \in DOMAIN r.value
      PROVE  \/ s.value[n] = r.value[n] /\ \A k \in done : c.writes[k].name # n
             \/ \E k \in done : c.writes[k].name = n /\ s.value[n] = Taken(r, c.writes[k])
  <2>1. s.value[n] = new(n)
    BY <1>4
  <2> QED BY <2>1, Zenon DEF new
<1>7. ASSUME NEW n \in Names(r.list)
      PROVE  /\ s.value[n] \in [1 .. Shape[r.type[n]][2] -> Int]
             /\ \A i \in 1 .. Shape[r.type[n]][2] : Carries(Shape[r.type[n]][1], s.value[n][i])
  <2>1. CASE s.value[n] = r.value[n]
    BY <2>1, Zenon DEF IsRecipe
  <2>2. ASSUME NEW k \in done, c.writes[k].name = n, s.value[n] = Taken(r, c.writes[k])
        PROVE  /\ s.value[n] \in [1 .. Shape[r.type[n]][2] -> Int]
               /\ \A i \in 1 .. Shape[r.type[n]][2] : Carries(Shape[r.type[n]][1], s.value[n][i])
    <3> DEFINE w == c.writes[k]
    <3>1. WriteIs(w) /\ Takes(r, w)
      BY <1>5, Zenon DEF CallIs
    <3> HIDE DEF w
    <3>2. /\ Taken(r, w) \in [1 .. Shape[r.type[w.name]][2] -> Int]
          /\ \A i \in 1 .. Shape[r.type[w.name]][2] : Carries(Shape[r.type[w.name]][1], Taken(r, w)[i])
      BY <3>1, TakenFits, Zenon
    <3> QED BY <2>2, <3>2, Zenon DEF w
  <2>3. n \in DOMAIN r.value
    BY <1>1
  <2> QED BY <1>6, <2>1, <2>2, <2>3, Zenon
<1>8. IsRecipe(s, id)
  <2>1. s.value = [n \in Names(r.list) |-> s.value[n]]
    BY <1>1, <1>3, <1>4, Zenon
  <2>2. r.list \in Seq(STRING) /\ r.type \in [Names(r.list) -> DOMAIN Shape]
    BY Zenon DEF IsRecipe
  <2>3. s = [id |-> id, list |-> s.list, type |-> s.type, value |-> s.value]
    BY <1>3
  <2>4. /\ s.list \in Seq(STRING) /\ s.type \in [Names(s.list) -> DOMAIN Shape]
        /\ s.value = [n \in Names(s.list) |-> s.value[n]]
    BY <1>3, <2>1, <2>2, Zenon
  <2>5. \A n \in Names(s.list) :
          /\ s.value[n] \in [1 .. Shape[s.type[n]][2] -> Int]
          /\ \A i \in 1 .. Shape[s.type[n]][2] : Carries(Shape[s.type[n]][1], s.value[n][i])
    BY <1>3, <1>7, Zenon
  <2> QED BY <2>3, <2>4, <2>5, Zenon DEF IsRecipe
<1>9. Typed(s)
  BY <1>3, <1>4 DEF Typed
<1>10. ASSUME done = DOMAIN c.writes
       PROVE  Written(c, s)
  <2>1. ASSUME NEW k \in DOMAIN c.writes
        PROVE  c.writes[k].name \in DOMAIN s.value /\ s.value[c.writes[k].name] = Taken(s, c.writes[k])
    <3> DEFINE n == c.writes[k].name
    <3>1. Takes(r, c.writes[k])
      BY <1>5, <1>10
    <3>2. n \in DOMAIN r.value
      BY <3>1 DEF Takes
    <3>3. \E j \in DOMAIN c.writes : c.writes[j].name = n /\ s.value[n] = Taken(r, c.writes[j])
      BY <1>6, <1>10, <3>2, Zenon
    <3>4. s.value[n] = Taken(r, c.writes[k])
      BY <3>3, Zenon DEF CallIs
    <3>5. Taken(s, c.writes[k]) = Taken(r, c.writes[k])
      BY <1>3, Zenon DEF Taken
    <3> QED BY <1>4, <3>2, <3>4, <3>5, Zenon
  <2> QED BY <2>1, Zenon DEF Written
<1>11. \A n \in DOMAIN r.value :
         \/ s.value[n] = r.value[n]
         \/ \E k \in DOMAIN c.writes : c.writes[k].name = n /\ s.value[n] = Taken(r, c.writes[k])
  BY <1>5, <1>6, Zenon
<1> QED BY <1>4, <1>8, <1>9, <1>10, <1>11, Zenon DEF s, done

\* The recipes as a program of their own.
RecipeSpec == RecipeInit /\ [][RecipeNext]_recipeVars

\* The recipes are set up or not, and what was sent of the last call is.
RecipesAre ==
    /\ input = NoRecipe \/ (IsRecipe(input, 1) /\ Typed(input))
    /\ (output = NoRecipe /\ sample = <<>>) \/ IsRecipe(output, 2)
    /\ newCommand => input # NoRecipe /\ ~last.sent
    /\ last = [out |-> last.out, state |-> last.state, ok |-> last.ok, sent |-> last.sent]
    /\ last.ok => input # NoRecipe

\* The output recipe holds what its types make of the last sample, or zeros.
Holds(r, s) ==
    \A n \in DOMAIN r.value :
      r.value[n] = [i \in 1 .. Shape[r.type[n]][2] |->
                      IF s = <<>> THEN 0 ELSE Convert(Shape[r.type[n]][1], s[1] + i)]

\* What was asked last is done, or will be as soon as the recipe is sent.
LastObeyed ==
    last.ok /\ last.out \in AllOutputs
      => IF last.sent THEN io[last.out] = last.state
         ELSE Commanded(input, last.out) /\ Command(input, last.out) = last.state

\* The mask of an output is set in the recipe.
Masked(r, o) == o[1] # "force" /\ MaskOf(o) \in DOMAIN r.value /\ MaskSet(o, r.value[MaskOf(o)][1])

\* Only the masks of outputs that a setter was called for are set, ...
MasksTouched == \A o \in AllOutputs : Masked(input, o) => o \in touched

\* ... and only these outputs do something.
OutputsTouched == \A o \in AllOutputs : io[o] # <<>> => o \in touched \/ o[1] = "force"

RecipeInv == RecipesAre /\ Holds(output, sample) /\ LastObeyed /\ MasksTouched /\ OutputsTouched

\* Without a recipe nothing is masked or held.
LEMMA NothingHeld ==
    /\ DOMAIN NoRecipe.value = {}
    /\ \A s : Holds(NoRecipe, s)
    /\ \A o : ~Masked(NoRecipe, o)
<1>1. DOMAIN NoRecipe.value = {}
  BY DEF NoRecipe
<1> QED BY <1>1, Zenon DEF Holds, Masked

\* Zeros mask nothing.
LEMMA ZerosMaskNothing ==
    ASSUME NEW r, NEW o \in AllOutputs,
           \A n \in DOMAIN r.value : r.value[n][1] = 0
    PROVE  ~Masked(r, o)
<1> SUFFICES ASSUME Masked(r, o)
             PROVE  FALSE
  OBVIOUS
<1>1. MaskSet(o, 0)
  BY Zenon DEF Masked
<1>2. ~BitSet(0, o[2])
  BY KindsOfOutput, BitsOf
<1> QED BY <1>1, <1>2 DEF MaskSet

\* The invariant holds at the start.
LEMMA RecipeStarts == RecipeInit => RecipeInv
<1> SUFFICES ASSUME RecipeInit
             PROVE  RecipeInv
  OBVIOUS
<1>1. /\ input = NoRecipe /\ output = NoRecipe /\ newCommand = FALSE /\ sample = <<>>
      /\ last = [out |-> <<"none", 0>>, state |-> <<>>, ok |-> FALSE, sent |-> FALSE]
      /\ io = [o \in AllOutputs |-> <<>>]
  BY DEF RecipeInit
<1>2. RecipesAre
  <2>1. last = [out |-> last.out, state |-> last.state, ok |-> last.ok, sent |-> last.sent]
    BY <1>1
  <2>2. ~last.ok /\ ~newCommand
    BY <1>1
  <2>3. input = NoRecipe /\ output = NoRecipe /\ sample = <<>>
    BY <1>1
  <2> QED BY <2>1, <2>2, <2>3, Zenon DEF RecipesAre
<1>3. Holds(output, sample) /\ MasksTouched
  BY <1>1, NothingHeld, Zenon DEF MasksTouched
<1>4. ~last.ok
  BY <1>1
<1>5. LastObeyed /\ OutputsTouched
  BY <1>1, <1>4 DEF LastObeyed, OutputsTouched
<1> QED BY <1>2, <1>3, <1>5 DEF RecipeInv

\* Setting up the recipes.
LEMMA SetupKeeps ==
    ASSUME RecipeInv, SetupRecipe
    PROVE  RecipeInv'
<1> DEFINE Chosen(inList, outList, inTypes, outTypes) ==
             /\ input' = ParserTypePackage(1, inList, inTypes)
             /\ output' = IF IsSet(input') THEN ParserTypePackage(2, outList, outTypes) ELSE NoRecipe
<1>0. PICK inList \in InputLists, outList \in OutputLists :
        \E inTypes \in TypesFor(inList), outTypes \in TypesFor(outList) :
          Chosen(inList, outList, inTypes, outTypes)
  BY Zenon DEF SetupRecipe
<1>1. PICK inTypes \in TypesFor(inList), outTypes \in TypesFor(outList) :
        Chosen(inList, outList, inTypes, outTypes)
  BY <1>0
<1>2. /\ input = NoRecipe /\ output = NoRecipe
      /\ newCommand' = newCommand /\ io' = io /\ touched' = touched /\ last' = last /\ sample' = sample
  BY DEF SetupRecipe, IsSet
<1>3. ~last.ok /\ ~newCommand
  BY <1>2, Zenon DEF RecipeInv, RecipesAre
<1>4. sample = <<>>
  <2>1. ASSUME IsRecipe(output, 2)
        PROVE  FALSE
    BY <1>2, <2>1 DEF IsRecipe, NoRecipe
  <2> QED BY <2>1, Zenon DEF RecipeInv, RecipesAre
<1>5. input' = NoRecipe \/ SetUp(input', 1, inList)
  <2>1. 1 \in Int /\ inList \in InputLists \cup OutputLists
    OBVIOUS
  <2> QED BY <1>1, <2>1, SetUpIs, Zenon
<1>6. output' = NoRecipe \/ SetUp(output', 2, outList)
  <2>1. 2 \in Int /\ outList \in InputLists \cup OutputLists
    OBVIOUS
  <2> QED BY <1>1, <2>1, SetUpIs, Zenon
<1>7. RecipesAre'
  <2>1. last = [out |-> last.out, state |-> last.state, ok |-> last.ok, sent |-> last.sent]
    BY Zenon DEF RecipeInv, RecipesAre
  <2>2. ~newCommand' /\ ~last'.ok /\ sample' = <<>>
    BY <1>2, <1>3, <1>4
  <2>3. last' = [out |-> last'.out, state |-> last'.state, ok |-> last'.ok, sent |-> last'.sent]
    BY <1>2, <2>1
  <2>4. input' = NoRecipe \/ (IsRecipe(input', 1) /\ Typed(input'))
    BY <1>5, Zenon DEF SetUp
  <2>5. output' = NoRecipe \/ IsRecipe(output', 2)
    BY <1>6, Zenon DEF SetUp
  <2> QED BY <2>2, <2>3, <2>4, <2>5, Zenon DEF RecipesAre
<1>8. Holds(output', sample')
  <2>1. sample' = <<>>
    BY <1>2, <1>4
  <2>2. CASE output' = NoRecipe
    BY <2>2, NothingHeld, Zenon
  <2>3. CASE output' # NoRecipe
    <3>1. /\ DOMAIN output'.value = Names(outList)
          /\ \A n \in Names(outList) : output'.value[n] = [i \in 1 .. Shape[output'.type[n]][2] |-> 0]
      BY <1>6, <2>3, Zenon DEF SetUp
    <3> QED BY <2>1, <3>1 DEF Holds
  <2> QED BY <2>2, <2>3
<1>9. LastObeyed' /\ OutputsTouched'
  <2>1. OutputsTouched
    BY Zenon DEF RecipeInv
  <2> QED BY <1>2, <1>3, <2>1, Zenon DEF LastObeyed, OutputsTouched
<1>10. MasksTouched'
  <2>1. CASE input' = NoRecipe
    BY <2>1, NothingHeld, Zenon DEF MasksTouched
  <2>2. CASE input' # NoRecipe
    <3>1. \A n \in DOMAIN input'.value : input'.value[n][1] = 0
      <4> TAKE n \in DOMAIN input'.value
      <4>1. /\ IsRecipe(input', 1) /\ n \in Names(inList) /\ DOMAIN input'.value = Names(inList)
            /\ input'.value[n] = [i \in 1 .. Shape[input'.type[n]][2] |-> 0]
        BY <1>5, <2>2, Zenon DEF SetUp
      <4>2. DOMAIN input'.value = Names(input'.list) /\ input'.type \in [Names(input'.list) -> DOMAIN Shape]
        BY <4>1, Zenon DEF IsRecipe
      <4>3. input'.type[n] \in DOMAIN Shape
        BY <4>1, <4>2
      <4>4. Shape[input'.type[n]][2] \in {1, 3, 6}
        BY <4>3, Shapes
      <4>5. 1 \in 1 .. Shape[input'.type[n]][2]
        BY <4>4
      <4> QED BY <4>1, <4>5
    <3>2. \A o \in AllOutputs : ~Masked(input', o)
      BY <3>1, ZerosMaskNothing, Zenon
    <3> QED BY <3>2, Zenon DEF MasksTouched
  <2> QED BY <2>1, <2>2
<1> QED BY <1>7, <1>8, <1>9, <1>10, Zenon DEF RecipeInv

\* Sending the input recipe.
LEMMA SendKeeps ==
    ASSUME RecipeInv, SendInputRecipe
    PROVE  RecipeInv'
<1>1. RecipesAre /\ Holds(output, sample) /\ LastObeyed /\ MasksTouched /\ OutputsTouched
  BY DEF RecipeInv
<1>2. newCommand /\ input # NoRecipe /\ ~last.sent /\ IsRecipe(input, 1) /\ Typed(input)
  BY <1>1 DEF SendInputRecipe, RecipesAre
<1>3. /\ input' = input /\ output' = output /\ touched' = touched /\ sample' = sample
      /\ newCommand' = FALSE /\ last' = [last EXCEPT !.sent = TRUE]
  BY DEF SendInputRecipe
<1>4. io' = [o \in AllOutputs |-> Obeys(input, o)]
  <2> DEFINE v == [n \in DOMAIN input.value |-> <<>>]
             r == [input EXCEPT !.value = v]
             t == ParserDataPackage(r, PackToBytes(input))
  <2>1. io' = [o \in AllOutputs |-> Obeys(t, o)]
    BY Zenon DEF SendInputRecipe
  <2> HIDE DEF v
  <2>2. input = [id |-> 1, list |-> input.list, type |-> input.type, value |-> input.value]
    BY <1>2, Zenon DEF IsRecipe
  <2>3. r.list = input.list /\ r.type = input.type /\ r.id = 1 /\ [r EXCEPT !.value = input.value] = input
    <3>1. r = [id |-> 1, list |-> input.list, type |-> input.type, value |-> v]
      BY <2>2
    <3> HIDE DEF r
    <3>2. [r EXCEPT !.value = input.value] = [id |-> 1, list |-> input.list, type |-> input.type, value |-> input.value]
      BY <3>1
    <3> QED BY <2>2, <3>1, <3>2
  <2> HIDE DEF r
  <2>4. t = IF r.id = 1 THEN [r EXCEPT !.value = input.value] ELSE r
    BY <1>2, <2>3, RoundTrip
  <2>5. t = input
    BY <2>3, <2>4
  <2> QED BY <2>1, <2>5, Zenon
<1>5. /\ last' = [out |-> last.out, state |-> last.state, ok |-> last.ok, sent |-> TRUE]
      /\ last'.out = last.out /\ last'.state = last.state /\ last'.ok = last.ok /\ last'.sent = TRUE
  <2>1. last = [out |-> last.out, state |-> last.state, ok |-> last.ok, sent |-> last.sent]
    BY <1>1, Zenon DEF RecipesAre
  <2> QED BY <1>3, <2>1
<1>6. RecipesAre'
  <2>1. last' = [out |-> last'.out, state |-> last'.state, ok |-> last'.ok, sent |-> last'.sent]
    BY <1>5
  <2> QED BY <1>1, <1>2, <1>3, <2>1, Zenon DEF RecipesAre
<1>7. \A o \in AllOutputs : io'[o] = IF Commanded(input, o) THEN Command(input, o) ELSE io[o]
  BY <1>4, Zenon DEF Obeys
<1>8. LastObeyed'
  BY <1>1, <1>2, <1>5, <1>7, Zenon DEF LastObeyed
<1>9. OutputsTouched'
  <2>1. ASSUME NEW o \in AllOutputs, io'[o] # <<>>
        PROVE  o \in touched \/ o[1] = "force"
    <3>1. CASE Commanded(input, o) /\ o[1] # "force"
      <4>1. Masked(input, o)
        BY <3>1, CommandedNeedsMask, Zenon DEF Masked
      <4> QED BY <1>1, <4>1, Zenon DEF MasksTouched
    <3>2. CASE ~Commanded(input, o)
      BY <1>1, <1>7, <2>1, <3>2, Zenon DEF OutputsTouched
    <3> QED BY <3>1, <3>2
  <2> QED BY <1>3, <2>1, Zenon DEF OutputsTouched
<1>10. Holds(output', sample') /\ MasksTouched'
  BY <1>1, <1>3, Zenon DEF MasksTouched
<1> QED BY <1>6, <1>8, <1>9, <1>10, Zenon DEF RecipeInv

\* Calling a setter.
LEMMA SetterKeeps ==
    ASSUME RecipeInv, NEW c \in SetterCalls, CallSetter(c)
    PROVE  RecipeInv'
<1>1. RecipesAre /\ Holds(output, sample) /\ LastObeyed /\ MasksTouched /\ OutputsTouched
  BY DEF RecipeInv
<1>2. CallIs(c) /\ EffectIs(c)
  BY Calls
<1>3. output' = output /\ sample' = sample /\ io' = io /\ touched' = touched \cup {c.out}
  BY DEF CallSetter
<1>4. Holds(output', sample')
  BY <1>1, <1>3
<1>5. OutputsTouched'
  BY <1>1, <1>3 DEF OutputsTouched
<1>6. CASE input = NoRecipe
  <2>1. input' = input /\ newCommand' = newCommand /\ last' = last
    BY <1>6 DEF CallSetter, IsSet
  <2>2. RecipesAre' /\ LastObeyed'
    BY <1>1, <1>3, <2>1, Zenon DEF RecipesAre, LastObeyed
  <2>3. MasksTouched'
    BY <1>6, <2>1, NothingHeld, Zenon DEF MasksTouched
  <2> QED BY <1>4, <1>5, <2>2, <2>3, Zenon DEF RecipeInv
<1>7. CASE input # NoRecipe
  <2>1. /\ input' = SetValues(input, c.writes) /\ newCommand' = TRUE
        /\ last' = [out |-> c.out, state |-> c.state, sent |-> FALSE,
                    ok |-> Done(input, c.writes) = DOMAIN c.writes]
    BY <1>7 DEF CallSetter, IsSet
  <2>2. IsRecipe(input, 1) /\ Typed(input)
    BY <1>1, <1>7, Zenon DEF RecipesAre
  <2>3. /\ IsRecipe(input', 1) /\ Typed(input') /\ DOMAIN input'.value = DOMAIN input.value
        /\ Done(input, c.writes) = DOMAIN c.writes => Written(c, input')
        /\ \A n \in DOMAIN input.value :
             \/ input'.value[n] = input.value[n]
             \/ \E k \in DOMAIN c.writes :
                  c.writes[k].name = n /\ input'.value[n] = Taken(input, c.writes[k])
    BY <1>2, <2>1, <2>2, SetterWrites
  <2>4. /\ last'.out = c.out /\ last'.state = c.state /\ last'.sent = FALSE
        /\ last'.ok <=> Done(input, c.writes) = DOMAIN c.writes
        /\ last' = [out |-> last'.out, state |-> last'.state, ok |-> last'.ok, sent |-> last'.sent]
    BY <2>1
  <2>5. input' # NoRecipe
    BY <2>3 DEF IsRecipe, NoRecipe
  <2>6. RecipesAre'
    BY <1>1, <1>3, <2>3, <2>4, <2>5, Zenon DEF RecipesAre
  <2>7. LastObeyed'
    <3>1. ASSUME last'.ok, c.out \in AllOutputs
          PROVE  Commanded(input', c.out) /\ Command(input', c.out) = c.state
      <4>1. Typed(input') /\ Written(c, input')
        BY <2>3, <2>4, <3>1
      <4> QED BY <1>2, <3>1, <4>1, Zenon DEF EffectIs
    <3> QED BY <2>4, <3>1, Zenon DEF LastObeyed
  <2>8. MasksTouched'
    <3>1. ASSUME NEW o \in AllOutputs, Masked(input', o)
          PROVE  o \in touched \cup {c.out}
      <4> DEFINE n == MaskOf(o)
      <4>1. o[1] # "force" /\ n \in DOMAIN input.value /\ MaskSet(o, input'.value[n][1])
        BY <2>3, <3>1, Zenon DEF Masked
      <4>2. CASE input'.value[n] = input.value[n]
        <5>1. Masked(input, o)
          BY <4>1, <4>2, Zenon DEF Masked
        <5> QED BY <1>1, <5>1 DEF MasksTouched
      <4>3. ASSUME NEW k \in DOMAIN c.writes, c.writes[k].name = n, input'.value[n] = Taken(input, c.writes[k])
            PROVE  o = c.out
        <5> DEFINE w == c.writes[k]
        <5>1. /\ ~w.vector
              /\ \A t \in Unsigned : MaskSet(o, Convert(t, w.value[1])) => o = c.out
          BY <1>2, <4>1, <4>3, Zenon DEF CallIs
        <5>2. input.type[n] \in Unsigned
          <6>1. MaskTable(o)
            BY <4>1, Masks, Zenon
          <6>2. n \in BitVariables
            BY <6>1 DEF MaskTable, BitVariables
          <6> QED BY <2>2, <4>1, <6>2, Zenon DEF Typed
        <5> HIDE DEF w
        <5>3. input'.value[n] = <<Convert(input.type[n], w.value[1])>>
          BY <4>3, <5>1, Zenon DEF Taken, w
        <5>4. input'.value[n][1] = Convert(input.type[n], w.value[1])
          BY <5>3
        <5> QED BY <4>1, <5>1, <5>2, <5>4, Zenon
      <4> QED BY <2>3, <4>1, <4>2, <4>3
    <3> QED BY <1>3, <3>1, Zenon DEF MasksTouched
  <2> QED BY <1>4, <1>5, <2>6, <2>7, <2>8, Zenon DEF RecipeInv
<1> QED BY <1>6, <1>7

\* Receiving a data package.
LEMMA DataKeeps ==
    ASSUME RecipeInv, NEW n \in Samples, NEW id \in {2, 3}, ReceiveDataPackage(n, id)
    PROVE  RecipeInv'
<1>1. RecipesAre /\ Holds(output, sample) /\ LastObeyed /\ MasksTouched /\ OutputsTouched
  BY DEF RecipeInv
<1>2. IsRecipe(output, 2) /\ output # NoRecipe
  BY <1>1, Zenon DEF ReceiveDataPackage, RecipesAre, IsSet
<1>3. input' = input /\ newCommand' = newCommand /\ io' = io /\ touched' = touched /\ last' = last
  BY DEF ReceiveDataPackage
<1> DEFINE e(v) == Shape[output.type[v]][1]
           l(v) == Shape[output.type[v]][2]
           val(v) == [i \in DOMAIN output.value[v] |-> Convert(e(v), n + i)]
           vals == [v \in DOMAIN output.value |-> val(v)]
           sent == [id |-> id, list |-> output.list, type |-> output.type, value |-> vals]
<1>4. /\ output' = ParserDataPackage(output, PackToBytes(sent))
      /\ sample' = IF id = output.id THEN <<n>> ELSE sample
  BY Zenon DEF ReceiveDataPackage
<1>5. /\ output = [id |-> 2, list |-> output.list, type |-> output.type, value |-> output.value]
      /\ output.id = 2 /\ DOMAIN output.value = Names(output.list)
  BY <1>2, RecipeFields DEF IsRecipe
<1>6. ASSUME NEW v \in Names(output.list)
      PROVE  /\ val(v) = [i \in 1 .. l(v) |-> Convert(e(v), n + i)]
             /\ val(v) \in [1 .. l(v) -> Int]
             /\ \A i \in 1 .. l(v) : Carries(e(v), val(v)[i])
  <2>1. output.type[v] \in DOMAIN Shape /\ output.value[v] \in [1 .. l(v) -> Int]
    BY <1>2 DEF IsRecipe
  <2>2. e(v) \in DOMAIN Width /\ l(v) \in {1, 3, 6}
    BY <2>1, Shapes
  <2>3. DOMAIN output.value[v] = 1 .. l(v)
    BY <2>1
  <2>4. val(v) = [i \in 1 .. l(v) |-> Convert(e(v), n + i)]
    BY <2>3, Zenon
  <2> HIDE DEF e, l, val
  <2>5. ASSUME NEW i \in 1 .. l(v)
        PROVE  Carries(e(v), Convert(e(v), n + i))
    <3>1. i \in 1 .. 6
      BY <2>2
    <3>2. n + i \in Int /\ Carries("DOUBLE", n + i)
      BY <3>1, DoubleHasRoom
    <3> DEFINE x == n + i
    <3> HIDE DEF x
    <3>3. x \in Int /\ Carries("DOUBLE", x)
      BY <3>2 DEF x
    <3>4. Carries(e(v), Convert(e(v), x))
      BY <2>2, <3>3, Converts
    <3> QED BY <3>4 DEF x
  <2>6. \A i \in 1 .. l(v) : Convert(e(v), n + i) \in Int
    BY <2>5, Zenon DEF Carries
  <2>7. val(v) \in [1 .. l(v) -> Int]
    BY <2>4, <2>6, Zenon
  <2>8. \A i \in 1 .. l(v) : val(v)[i] = Convert(e(v), n + i)
    BY <2>4, Zenon
  <2> QED BY <2>4, <2>5, <2>7, <2>8, Zenon
<1> HIDE DEF val
<1>7. /\ sent = [id |-> id, list |-> output.list, type |-> output.type, value |-> sent.value]
      /\ sent.list = output.list /\ sent.type = output.type /\ sent.id = id
      /\ sent.value = [v \in Names(output.list) |-> val(v)]
  <2>1. vals = [v \in Names(output.list) |-> val(v)]
    BY <1>5, Zenon
  <2> HIDE DEF vals
  <2>2. sent = [id |-> id, list |-> output.list, type |-> output.type, value |-> vals]
    BY <1>5
  <2> HIDE DEF sent
  <2> QED BY <2>1, <2>2
<1> HIDE DEF sent
<1>8. IsRecipe(sent, id)
  <2>1. sent = [id |-> id, list |-> sent.list, type |-> sent.type, value |-> sent.value]
    BY <1>7
  <2>2. output.list \in Seq(STRING) /\ output.type \in [Names(output.list) -> DOMAIN Shape]
    BY <1>2, Zenon DEF IsRecipe
  <2>3. sent.value = [v \in Names(sent.list) |-> sent.value[v]] /\ \A v \in Names(sent.list) : sent.value[v] = val(v)
    BY <1>7, Zenon
  <2>4. \A v \in Names(sent.list) :
          /\ sent.value[v] \in [1 .. Shape[sent.type[v]][2] -> Int]
          /\ \A i \in 1 .. Shape[sent.type[v]][2] : Carries(Shape[sent.type[v]][1], sent.value[v][i])
    BY <1>6, <1>7, <2>3, Zenon
  <2>5. sent.list \in Seq(STRING) /\ sent.type \in [Names(sent.list) -> DOMAIN Shape]
    BY <1>7, <2>2, Zenon
  <2> QED BY <2>1, <2>3, <2>4, <2>5, Zenon DEF IsRecipe
<1>9. output' = IF output.id = id THEN [output EXCEPT !.value = sent.value] ELSE output
  <2>1. output.list = sent.list /\ output.type = sent.type /\ id \in Int
    BY <1>7
  <2> QED BY <1>4, <1>8, <2>1, RoundTrip
<1>10. CASE id = 2
  <2>1. output' = sent /\ sample' = <<n>>
    BY <1>4, <1>5, <1>7, <1>9, <1>10
  <2>2. Holds(sent, <<n>>)
    <3>1. <<n>> # <<>> /\ <<n>>[1] = n
      OBVIOUS
    <3>2. \A v \in DOMAIN sent.value :
             sent.value[v] = [i \in 1 .. Shape[sent.type[v]][2] |-> Convert(Shape[sent.type[v]][1], n + i)]
      BY <1>6, <1>7, Zenon
    <3> QED BY <3>1, <3>2 DEF Holds
  <2>3. IsRecipe(output', 2) /\ Holds(output', sample')
    BY <1>8, <1>10, <2>1, <2>2
  <2> QED BY <1>1, <1>3, <2>3, Zenon DEF RecipeInv, RecipesAre, LastObeyed, MasksTouched, OutputsTouched
<1>11. CASE id # 2
  <2>1. output' = output /\ sample' = sample
    BY <1>4, <1>5, <1>9, <1>11
  <2> QED BY <1>1, <1>3, <2>1, Zenon DEF RecipeInv, RecipesAre, LastObeyed, MasksTouched, OutputsTouched
<1> QED BY <1>10, <1>11

\* What is written to the input recipe reaches the outputs of the robot, only
\* theirs, and what the robot sends comes out of the getters: for every byte
\* width, list of variables, level and sample.
THEOREM RecipesCarry == RecipeSpec => []RecipesCarryValues
<1>1. RecipeInv /\ [RecipeNext]_recipeVars => RecipeInv'
  <2> SUFFICES ASSUME RecipeInv, [RecipeNext]_recipeVars
               PROVE  RecipeInv'
    OBVIOUS
  <2>1. CASE SetupRecipe
    BY <2>1, SetupKeeps
  <2>2. CASE SendInputRecipe
    BY <2>2, SendKeeps
  <2>3. CASE \E call \in SetterCalls : CallSetter(call)
    BY <2>3, SetterKeeps
  <2>4. CASE \E n \in Samples, id \in {2, 3} : ReceiveDataPackage(n, id)
    BY <2>4, DataKeeps
  <2>5. CASE UNCHANGED recipeVars
    <3>1. /\ input' = input /\ output' = output /\ newCommand' = newCommand /\ io' = io
          /\ touched' = touched /\ last' = last /\ sample' = sample
      BY <2>5 DEF recipeVars
    <3>2. RecipesAre /\ Holds(output, sample) /\ LastObeyed /\ MasksTouched /\ OutputsTouched
      BY DEF RecipeInv
    <3> QED BY <3>1, <3>2, Zenon DEF RecipeInv, RecipesAre, LastObeyed, MasksTouched, OutputsTouched
  <2> QED BY <2>1, <2>2, <2>3, <2>4, <2>5, Zenon DEF RecipeNext
<1>2. RecipeInv => RecipesCarryValues
  <2> SUFFICES ASSUME RecipeInv
               PROVE  SettersReachRobot /\ GettersReadRobot
    BY DEF RecipesCarryValues
  <2>1. SettersReachRobot
    BY Zenon DEF RecipeInv, LastObeyed, OutputsTouched, SettersReachRobot
  <2>2. ASSUME NEW n \in DOMAIN Getters,
               n \in DOMAIN output.value => output.type[n] = Getters[n],
               n \in DOMAIN output.value \/ n \notin Uninitialised
        PROVE  Get(n) = [i \in 1 .. Shape[Getters[n]][2] |->
                           IF sample = <<>> \/ n \notin DOMAIN output.value THEN 0
                           ELSE Convert(Shape[Getters[n]][1], sample[1] + i)]
    <3>1. CASE n \in DOMAIN output.value
      <4>1. output.type[n] = Getters[n]
        BY <2>2, <3>1
      <4>2. Get(n) = output.value[n]
        BY <3>1, <4>1, Zenon DEF Get
      <4>3. output.value[n] = [i \in 1 .. Shape[Getters[n]][2] |->
                                 IF sample = <<>> THEN 0 ELSE Convert(Shape[Getters[n]][1], sample[1] + i)]
        BY <3>1, <4>1, Zenon DEF RecipeInv, Holds
      <4>4. (sample = <<>> \/ n \notin DOMAIN output.value) <=> (sample = <<>>)
        BY <3>1
      <4> QED BY <4>2, <4>3, <4>4, Zenon
    <3>2. CASE n \notin DOMAIN output.value
      <4>1. Get(n) = [i \in 1 .. Shape[Getters[n]][2] |-> 0]
        BY <2>2, <3>2, Zenon DEF Get
      <4> QED BY <3>2, <4>1, Zenon
    <3> QED BY <3>1, <3>2
  <2>3. GettersReadRobot
    BY <2>2, Zenon DEF GettersReadRobot
  <2> QED BY <2>1, <2>3
<1> QED BY <1>1, <1>2, RecipeStarts, PTL DEF RecipeSpec
=============================================================================
