-------------------------- MODULE UtilitiesProofs --------------------------
(***************************************************************************)
(* The safety invariants of the parts of the SDK that do not interact with  *)
(* each other, for any number of clients, threads, loaders and files.  Each  *)
(* part has a specification of its own here, made of the actions that        *)
(* MCUtilities composes into one run; each invariant has the inductive one   *)
(* it follows from.  The parts that are functions come last: their laws, for *)
(* all arguments.                                                           *)
(***************************************************************************)
EXTENDS ScriptSender, SerialLink, Rs485, RemoteShell, PluginHost, Conversions,
        FiniteSetTheorems, SequenceTheorems, TLAPS

---------------------------------------------------------------------------
(* ScriptSender.                                                            *)

SenderSpec ==
    /\ SenderInit
    /\ [][\/ sender = "absent" /\ Construct
          \/ \E c \in Clients : ClientConnects(c)
          \/ SenderHandler \/ Destroy \/ SenderShutdown]_senderVars

\* What lies in the buffer while no line is complete.
Fragments == {"Head", "Junk"}

\* Robots in the middle of their request.
Halves == {c \in reading : said[c] = 1}

\* A piece of a robot that has gone lies in the buffer.
Owing == IF Halves = {} THEN Len(requests) > 0 ELSE Len(requests) > 1

SenderTypes ==
    /\ requests \in Seq(Fragments) /\ said \in [Clients -> 0 .. 2]
    /\ reply \in [Clients -> {"none", "ignored"} \cup Answered]
    /\ conn \in [Clients -> {"idle", "backlog", "open", "closed"}]
    /\ reading \subseteq Clients /\ mixed \in BOOLEAN

\* A connection says nothing before it is open, and is open while it is read.
Connections ==
    /\ \A c \in reading : conn[c] = "open"
    /\ \A c \in Clients : said[c] # 0 => conn[c] \in {"open", "closed"}

\* Without mixed pieces the buffer holds first pieces only, one of them of a robot that
\* will send the second; any other is not paid for by an ignored request yet.
InTurn ==
    /\ requests \in Seq({"Head"})
    /\ \A c, d \in Halves : c = d
    /\ Halves # {} => Len(requests) > 0
    /\ Owing => Cardinality(Ignored) < Cardinality(GoneMidway)

SenderInv == SenderTypes /\ Connections /\ (~mixed => InTurn) /\ RequestsAnswered

\* Where lines end in the buffer.
EndsOf(buffer) == {i \in DOMAIN buffer : buffer[i] = "Tail"}
FirstEnd(buffer) == CHOOSE i \in EndsOf(buffer) : \A j \in EndsOf(buffer) : i <= j

LEMMA CountsAreNumbers ==
    /\ IsFiniteSet(Ignored) /\ Cardinality(Ignored) \in Nat
    /\ IsFiniteSet(GoneMidway) /\ Cardinality(GoneMidway) \in Nat
    /\ IsFiniteSet(Ignored') /\ Cardinality(Ignored)' \in Nat
    /\ IsFiniteSet(GoneMidway') /\ Cardinality(GoneMidway)' \in Nat
<1>1. /\ Ignored \in SUBSET Clients /\ GoneMidway \in SUBSET Clients
      /\ Ignored' \in SUBSET Clients /\ GoneMidway' \in SUBSET Clients
  BY DEF Ignored, GoneMidway
<1> QED BY <1>1, ClientsAssumption, FS_Subset, FS_CardinalityType

LEMMA AtMostOneMore ==
    ASSUME NEW S, NEW x, IsFiniteSet(S)
    PROVE  IsFiniteSet(S \cup {x}) /\ Cardinality(S \cup {x}) <= Cardinality(S) + 1
<1>1. PICK n \in Nat : n = Cardinality(S)
  BY FS_CardinalityType
<1>2. IsFiniteSet(S \cup {x})
  BY FS_AddElement, Zenon
<1>3. Cardinality(S \cup {x}) = IF x \in S THEN n ELSE n + 1
  BY <1>1, FS_AddElement, Zenon
<1>4. PICK m : m = Cardinality(S \cup {x})
  OBVIOUS
<1>5. m <= n + 1
  BY <1>3, <1>4
<1> QED BY <1>1, <1>2, <1>4, <1>5, Zenon

\* A piece at the end of a buffer without one: the end of a line only if it is the second
\* piece, and then nothing is left behind it.
LEMMA PieceAppended ==
    ASSUME NEW s \in Seq(Fragments), NEW p \in {"Head", "Junk", "Tail"}
    PROVE  LET b == Append(s, p)
           IN  /\ p # "Tail" => b \in Seq(Fragments) /\ EndsOf(b) = {}
               /\ p = "Tail" => /\ EndsOf(b) = {Len(s) + 1} /\ FirstEnd(b) = Len(s) + 1
                                /\ TakenOut(b, FirstEnd(b)) = <<>>
<1>1. PICK b : b = Append(s, p)
  OBVIOUS
<1>2. s \in Seq({"Head", "Junk", "Tail"}) /\ Len(s) \in Nat
  BY DEF Fragments
<1>3. /\ Len(b) = Len(s) + 1 /\ b \in Seq({"Head", "Junk", "Tail"})
      /\ \A i \in 1 .. Len(s) : b[i] = s[i]
      /\ b[Len(s) + 1] = p
  BY <1>1, <1>2, AppendProperties
<1>4. \A i \in 1 .. Len(s) : s[i] \in Fragments
  BY ElementOfSeq
<1>5. DOMAIN b = 1 .. Len(s) + 1
  BY <1>3, LenProperties
<1>6. ASSUME p # "Tail" PROVE b \in Seq(Fragments) /\ EndsOf(b) = {}
  <2>1. p \in Fragments
    BY <1>6 DEF Fragments
  <2>2. b \in Seq(Fragments)
    BY <1>1, <2>1, AppendProperties
  <2>3. \A i \in DOMAIN b : b[i] \in Fragments
    BY <1>2, <1>3, <1>4, <1>5, <2>1
  <2> QED BY <2>2, <2>3 DEF EndsOf, Fragments
<1>7. ASSUME p = "Tail"
      PROVE  /\ EndsOf(b) = {Len(s) + 1} /\ FirstEnd(b) = Len(s) + 1 /\ TakenOut(b, FirstEnd(b)) = <<>>
  <2>1. \A i \in DOMAIN b : b[i] = "Tail" <=> i = Len(s) + 1
    BY <1>2, <1>3, <1>4, <1>5, <1>7 DEF Fragments
  <2>2. EndsOf(b) = {Len(s) + 1}
    BY <1>2, <1>5, <2>1 DEF EndsOf
  <2>3. FirstEnd(b) = Len(s) + 1
    BY <1>2, <2>2 DEF FirstEnd
  <2>4. TakenOut(b, Len(s) + 1) = <<>>
    BY <1>2, <1>3, SubSeqEmpty DEF TakenOut
  <2> QED BY <2>2, <2>3, <2>4
<1> QED BY <1>1, <1>6, <1>7

\* What a read may leave in the buffer, before and after a line is taken out of it.
LEMMA BufferAfter ==
    ASSUME SenderTypes, NEW c, NEW p \in {"Head", "Tail"}, NEW b \in Stored(c, p)
    PROVE  /\ p = "Head" => EndsOf(b) = {}
           /\ EndsOf(b) = {} => b \in Seq(Fragments)
           /\ EndsOf(b) # {} => TakenOut(b, FirstEnd(b)) \in Seq(Fragments)
<1> USE DEF SenderTypes
<1>1. b = Append(requests, p) \/ b = Append(requests, "Junk") \/ b = <<p, "Junk">>
  BY DEF Stored
<1>2. <<>> \in Seq(Fragments)
  OBVIOUS
<1>3. CASE b = Append(requests, p)
  BY <1>2, <1>3, PieceAppended
<1>4. CASE b = Append(requests, "Junk")
  BY <1>4, PieceAppended
<1>5. CASE b = <<p, "Junk">>
  <2>1. DOMAIN b = {1, 2} /\ b[1] = p /\ b[2] = "Junk" /\ Len(b) = 2
    BY <1>5
  <2>2. CASE p = "Head"
    <3>1. EndsOf(b) = {}
      BY <2>1, <2>2 DEF EndsOf
    <3>2. b \in Seq(Fragments)
      BY <1>5, <2>2 DEF Fragments
    <3> QED BY <2>2, <3>1, <3>2
  <2>3. CASE p = "Tail"
    <3>1. EndsOf(b) = {1}
      BY <2>1, <2>3 DEF EndsOf
    <3>2. FirstEnd(b) = 1
      BY <3>1 DEF FirstEnd
    <3>3. TakenOut(b, 1) \in Seq(Fragments)
      <4>1. \A i \in 2 .. 2 : b[i] \in Fragments
        BY <2>1 DEF Fragments
      <4>2. SubSeq(b, 2, 2) \in Seq(Fragments)
        BY <4>1, SubSeqProperties
      <4> QED BY <2>1, <4>2 DEF TakenOut
    <3> QED BY <2>3, <3>1, <3>2, <3>3
  <2> QED BY <2>2, <2>3
<1> QED BY <1>1, <1>3, <1>4, <1>5

\* The request is known exactly when nothing else lay in the buffer.
LEMMA OwnLine ==
    ASSUME NEW s \in Seq({"Head"}), Len(s) > 0
    PROVE  LET b == Append(s, "Tail") IN SubSeq(b, 1, Len(s) + 1) = Program <=> Len(s) = 1
<1>1. PICK b : b = Append(s, "Tail")
  OBVIOUS
<1>2. s \in Seq({"Head", "Tail"}) /\ Len(s) \in Nat
  OBVIOUS
<1>3. b \in Seq({"Head", "Tail"}) /\ Len(b) = Len(s) + 1 /\ b[Len(s) + 1] = "Tail"
      /\ \A i \in 1 .. Len(s) : b[i] = s[i]
  BY <1>1, <1>2, AppendProperties
<1>4. SubSeq(b, 1, Len(s) + 1) = b
  BY <1>3, SubSeqFull
<1>5. Program \in Seq({"Head", "Tail"}) /\ Len(Program) = 2 /\ Program[1] = "Head" /\ Program[2] = "Tail"
  BY DEF Program
<1>6. ASSUME Len(s) = 1 PROVE b = Program
  <2>1. s[1] = "Head"
    BY <1>6, ElementOfSeq
  <2>2. \A i \in 1 .. Len(b) : b[i] = Program[i]
    BY <1>3, <1>5, <1>6, <2>1
  <2> QED BY <1>3, <1>5, <1>6, <2>2, SeqEqual
<1>7. ASSUME b = Program PROVE Len(s) = 1
  <2>1. PICK n \in Nat : n = Len(s)
    BY <1>2
  <2>2. n + 1 = 2
    BY <1>3, <1>5, <1>7, <2>1
  <2>3. n = 1
    BY <2>2
  <2> QED BY <2>1, <2>3
<1> QED BY <1>1, <1>4, <1>6, <1>7

\* Nothing comes in: readers go, or one comes that has said nothing yet.
LEMMA ReadersChange ==
    ASSUME SenderInv, UNCHANGED <<requests, said, reply, mixed, spoiled>>,
           reading' \subseteq Clients, \A c \in reading' \ reading : said[c] = 0,
           conn' \in [Clients -> {"idle", "backlog", "open", "closed"}],
           Connections'
    PROVE  SenderInv'
<1>1. SenderTypes'
  BY DEF SenderInv, SenderTypes
<1>2. Ignored' = Ignored
  BY DEF Ignored
<1>3. GoneMidway \subseteq GoneMidway'
  BY DEF GoneMidway, SenderInv, SenderTypes
<1>4. Cardinality(GoneMidway) <= Cardinality(GoneMidway')
  BY <1>3, CountsAreNumbers, FS_Subset
<1>5. RequestsAnswered'
  <2>1. Cardinality(Ignored') <= Cardinality(GoneMidway')
    BY <1>2, <1>4, CountsAreNumbers DEF SenderInv, RequestsAnswered
  <2> QED BY <2>1 DEF SenderInv, RequestsAnswered
<1>6. ASSUME ~mixed PROVE InTurn'
  <2>1. InTurn
    BY <1>6 DEF SenderInv
  <2>2. Halves' \subseteq Halves
    BY DEF Halves, SenderInv, SenderTypes
  <2>3. requests' \in Seq({"Head"}) /\ (\A c, d \in Halves' : c = d) /\ (Halves' # {} => Len(requests') > 0)
    BY <2>1, <2>2 DEF InTurn
  <2>4. CASE Halves' = Halves
    <3>1. Owing' <=> Owing
      BY <2>4 DEF Owing
    <3>2. Owing' => Cardinality(Ignored') < Cardinality(GoneMidway')
      BY <1>2, <1>4, <2>1, <3>1, CountsAreNumbers DEF InTurn
    <3> QED BY <2>3, <3>2 DEF InTurn
  <2>5. CASE Halves' # Halves
    <3>1. PICK h \in Halves : h \notin Halves'
      BY <2>2, <2>5
    <3>2. h \in GoneMidway' /\ h \notin GoneMidway
      BY <3>1 DEF Halves, GoneMidway, SenderInv, SenderTypes
    <3>3. GoneMidway \cup {h} \subseteq GoneMidway'
      BY <1>3, <3>2
    <3>4. Cardinality(GoneMidway \cup {h}) = Cardinality(GoneMidway) + 1
      BY <3>2, CountsAreNumbers, FS_AddElement
    <3>5. Cardinality(GoneMidway) + 1 <= Cardinality(GoneMidway')
      BY <3>3, <3>4, CountsAreNumbers, FS_Subset
    <3>6. Cardinality(Ignored') < Cardinality(GoneMidway')
      BY <1>2, <3>5, CountsAreNumbers DEF SenderInv, RequestsAnswered
    <3> QED BY <2>3, <3>6 DEF InTurn
  <2> QED BY <2>4, <2>5
<1> QED BY <1>1, <1>5, <1>6 DEF SenderInv

\* A piece comes in: parts of the invariant that do not count.
LEMMA ReceivedTypes ==
    ASSUME SenderInv, NEW c \in Clients, Received(c)
    PROVE  /\ SenderTypes' /\ Connections'
           /\ \A d \in Clients : reply'[d] \in Answered => said'[d] = 2
<1>1. /\ said[c] \in {0, 1} /\ said' = [said EXCEPT ![c] = said[c] + 1]
      /\ c \in reading /\ mixed' \in BOOLEAN
  BY DEF Received, SenderInv, SenderTypes
<1>2. said' \in [Clients -> 0 .. 2] /\ said'[c] = said[c] + 1 /\ \A d \in Clients \ {c} : said'[d] = said[d]
  BY <1>1 DEF SenderInv, SenderTypes
<1> DEFINE p == IF said[c] = 0 THEN "Head" ELSE "Tail"
<1>3. PICK b \in Stored(c, p) :
        IF EndsOf(b) = {}
        THEN requests' = b /\ UNCHANGED <<reply, reading, conn>>
        ELSE /\ requests' = TakenOut(b, FirstEnd(b))
             /\ \E a \in Answers(SubSeq(b, 1, FirstEnd(b))) :
                  /\ reply' = [reply EXCEPT ![c] = a]
                  /\ \/ reading' = reading \ {c} /\ conn' = [conn EXCEPT ![c] = "closed"]
                     \/ UNCHANGED <<reading, conn>>
  BY ZenonT(60) DEF Received, EndsOf, FirstEnd, p
<1>4. p \in {"Head", "Tail"}
  OBVIOUS
<1>5. requests' \in Seq(Fragments)
  BY <1>3, <1>4, BufferAfter DEF SenderInv
<1>6. CASE EndsOf(b) = {}
  <2>1. UNCHANGED <<reply, reading, conn>>
    BY <1>3, <1>6
  <2>2. SenderTypes'
    BY <1>1, <1>2, <1>5, <2>1 DEF SenderInv, SenderTypes
  <2>3. Connections'
    BY <1>1, <1>2, <2>1 DEF SenderInv, SenderTypes, Connections
  <2>4. \A d \in Clients : reply'[d] \in Answered => said'[d] = 2
    BY <1>1, <1>2, <2>1 DEF SenderInv, RequestsAnswered
  <2> QED BY <2>2, <2>3, <2>4
<1>7. CASE EndsOf(b) # {}
  <2>1. said[c] = 1
    <3>1. p # "Head"
      BY <1>3, <1>4, <1>7, BufferAfter DEF SenderInv
    <3> QED BY <1>1, <3>1
  <2>2. PICK a \in {"ignored"} \cup Answered :
          /\ reply' = [reply EXCEPT ![c] = a]
          /\ \/ reading' = reading \ {c} /\ conn' = [conn EXCEPT ![c] = "closed"]
             \/ UNCHANGED <<reading, conn>>
    BY <1>3, <1>7 DEF Answers, Answered
  <2>3. reply' \in [Clients -> {"none", "ignored"} \cup Answered] /\ \A d \in Clients \ {c} : reply'[d] = reply[d]
    BY <2>2 DEF SenderInv, SenderTypes
  <2>4. conn' \in [Clients -> {"idle", "backlog", "open", "closed"}] /\ reading' \subseteq reading
    BY <2>2 DEF SenderInv, SenderTypes
  <2>5. SenderTypes'
    BY <1>1, <1>2, <1>5, <2>3, <2>4 DEF SenderInv, SenderTypes
  <2>6. Connections'
    BY <1>1, <1>2, <2>2 DEF SenderInv, SenderTypes, Connections
  <2>7. \A d \in Clients : reply'[d] \in Answered => said'[d] = 2
    BY <1>2, <2>1, <2>3 DEF SenderInv, RequestsAnswered
  <2> QED BY <2>5, <2>6, <2>7
<1> QED BY <1>6, <1>7

\* A piece comes in: no robot goes in the middle of its request, and no other's request
\* becomes an ignored one.
LEMMA ReceivedCounts ==
    ASSUME SenderInv, NEW c \in Clients, Received(c)
    PROVE  /\ GoneMidway' = GoneMidway
           /\ Ignored' \subseteq Ignored \cup {c} /\ Ignored \subseteq Ignored'
           /\ c \in spoiled' => Ignored' = Ignored
<1>1. /\ said[c] \in {0, 1} /\ said' = [said EXCEPT ![c] = said[c] + 1]
      /\ c \in reading /\ spoiled' \in {spoiled, spoiled \cup {c}}
  BY DEF Received, SenderInv, SenderTypes
<1>2. said'[c] = said[c] + 1 /\ \A d \in Clients \ {c} : said'[d] = said[d]
  BY <1>1 DEF SenderInv, SenderTypes
<1>3. \/ UNCHANGED <<reply, reading>>
      \/ /\ \E a \in Answered \cup {"ignored"} : reply' = [reply EXCEPT ![c] = a]
         /\ reading' \in {reading, reading \ {c}} /\ said[c] = 1
  <2> DEFINE p == IF said[c] = 0 THEN "Head" ELSE "Tail"
  <2>1. PICK b \in Stored(c, p) :
          IF EndsOf(b) = {} THEN UNCHANGED <<reply, reading>>
          ELSE \E a \in Answers(SubSeq(b, 1, FirstEnd(b))) :
                 /\ reply' = [reply EXCEPT ![c] = a]
                 /\ reading' \in {reading, reading \ {c}}
    BY ZenonT(60) DEF Received, EndsOf, FirstEnd, p
  <2>2. EndsOf(b) # {} => p # "Head"
    BY <2>1, BufferAfter DEF SenderInv
  <2>3. \A line : Answers(line) \subseteq Answered \cup {"ignored"}
    BY DEF Answers, Answered
  <2> QED BY <1>1, <2>1, <2>2, <2>3
<1>4. \A d \in Clients \ {c} : reply'[d] = reply[d] /\ (d \in reading' <=> d \in reading)
  BY <1>3 DEF SenderInv, SenderTypes
<1>5. GoneMidway' = GoneMidway
  <2>1. c \notin GoneMidway
    BY <1>1 DEF GoneMidway
  <2>2. c \notin GoneMidway'
    BY <1>1, <1>2, <1>3 DEF GoneMidway
  <2> QED BY <1>2, <1>4, <2>1, <2>2 DEF GoneMidway
<1>6. c \notin Ignored
  BY <1>1 DEF Ignored
<1>7. \A d \in Clients \ {c} : d \in Ignored' <=> d \in Ignored
  BY <1>1, <1>2, <1>4 DEF Ignored
<1>8. Ignored \subseteq Clients /\ Ignored' \subseteq Clients
  BY DEF Ignored
<1>9. c \in spoiled' => c \notin Ignored'
  BY DEF Ignored
<1> QED BY <1>5, <1>6, <1>7, <1>8, <1>9

\* A piece comes in that mixes with others, or while some are mixed.
LEMMA MixedKeeps ==
    ASSUME SenderInv, NEW c \in Clients, Received(c), mixed \/ Mixes(c)
    PROVE  SenderInv'
<1>1. c \in spoiled' /\ (~mixed' => AsNew')
  BY DEF Received
<1>2. Ignored' = Ignored /\ GoneMidway' = GoneMidway
  BY <1>1, ReceivedCounts
<1>3. RequestsAnswered'
  BY <1>2, ReceivedTypes DEF SenderInv, RequestsAnswered
<1>4. ASSUME ~mixed' PROVE InTurn'
  <2>1. requests' = <<>> /\ Halves' = {}
    BY <1>1, <1>4 DEF AsNew, Halves
  <2>2. Len(requests') = 0 /\ requests' \in Seq({"Head"})
    BY <2>1
  <2>3. ~Owing'
    BY <2>1, <2>2 DEF Owing
  <2> QED BY <2>1, <2>2, <2>3 DEF InTurn
<1> QED BY <1>3, <1>4, ReceivedTypes DEF SenderInv

\* The first piece of a request comes in, and no other robot is in the middle of its own.
LEMMA HeadKeeps ==
    ASSUME SenderInv, NEW c \in Clients, Received(c), ~mixed, ~Mixes(c), said[c] = 0
    PROVE  SenderInv'
<1>1. /\ InTurn /\ c \in reading /\ place[c] = put /\ Halves \ {c} = {}
      /\ said' = [said EXCEPT ![c] = said[c] + 1]
  BY DEF SenderInv, Received, Mixes, Halves
<1>2. requests \in Seq({"Head"}) /\ requests \in Seq(Fragments) /\ Len(requests) \in Nat
  BY <1>1 DEF InTurn, SenderInv, SenderTypes
<1>3. requests' = Append(requests, "Head") /\ UNCHANGED <<reply, reading>>
  <2>1. Stored(c, "Head") = {Append(requests, "Head")}
    BY <1>1 DEF Stored
  <2>2. EndsOf(Append(requests, "Head")) = {}
    BY <1>2, PieceAppended
  <2>3. PICK b \in Stored(c, "Head") :
          EndsOf(b) = {} => requests' = b /\ UNCHANGED <<reply, reading>>
    BY ZenonT(60) DEF Received, EndsOf, FirstEnd
  <2> QED BY <2>1, <2>2, <2>3
<1>4. requests' \in Seq({"Head"}) /\ Len(requests') = Len(requests) + 1
  BY <1>2, <1>3, AppendProperties
<1>5. Halves = {} /\ Halves' = {c}
  <2>1. said'[c] = 1 /\ \A d \in Clients \ {c} : said'[d] = said[d]
    BY <1>1 DEF SenderInv, SenderTypes
  <2>2. c \notin Halves
    BY DEF Halves
  <2> QED BY <1>1, <1>3, <2>1, <2>2 DEF Halves, SenderInv, SenderTypes
<1>6. Owing' <=> Owing
  BY <1>2, <1>4, <1>5 DEF Owing
<1>7. Ignored' = Ignored
  <2>1. said'[c] # 2
    BY <1>1 DEF SenderInv, SenderTypes
  <2>2. c \notin Ignored'
    BY <2>1 DEF Ignored
  <2> QED BY <2>2, ReceivedCounts
<1>8. InTurn'
  <2>1. Owing' => Cardinality(Ignored') < Cardinality(GoneMidway')
    BY <1>1, <1>6, <1>7, ReceivedCounts DEF InTurn
  <2>2. Halves' # {} => Len(requests') > 0
    BY <1>2, <1>4
  <2> QED BY <1>4, <1>5, <2>1, <2>2 DEF InTurn
<1>9. RequestsAnswered'
  BY <1>7, ReceivedCounts, ReceivedTypes DEF SenderInv, RequestsAnswered
<1> QED BY <1>8, <1>9, ReceivedTypes DEF SenderInv

\* The second piece comes in: the robot is answered unless a piece of one that has gone
\* lay in the buffer, and then that one has paid for it.
LEMMA TailKeeps ==
    ASSUME SenderInv, NEW c \in Clients, Received(c), ~mixed, ~Mixes(c), said[c] = 1
    PROVE  SenderInv'
<1>1. /\ InTurn /\ c \in Halves /\ place[c] = put
      /\ said' = [said EXCEPT ![c] = said[c] + 1]
  BY DEF SenderInv, Received, Mixes, Halves
<1>2. requests \in Seq({"Head"}) /\ requests \in Seq(Fragments)
  BY <1>1 DEF InTurn, SenderInv, SenderTypes
<1>3. Len(requests) \in Nat /\ Len(requests) > 0
  BY <1>1, <1>2 DEF InTurn
<1> DEFINE line == SubSeq(Append(requests, "Tail"), 1, Len(requests) + 1)
<1>4. PICK a \in Answers(line) :
        /\ requests' = <<>> /\ reply' = [reply EXCEPT ![c] = a]
        /\ reading' \in {reading, reading \ {c}}
  <2>1. Stored(c, "Tail") = {Append(requests, "Tail")}
    BY <1>1 DEF Stored
  <2>2. LET b == Append(requests, "Tail")
        IN  /\ EndsOf(b) = {Len(requests) + 1} /\ FirstEnd(b) = Len(requests) + 1
            /\ TakenOut(b, FirstEnd(b)) = <<>>
    BY <1>2, PieceAppended
  <2>3. said[c] # 0
    OBVIOUS
  <2>4. PICK b \in Stored(c, "Tail") :
          EndsOf(b) # {} =>
            /\ requests' = TakenOut(b, FirstEnd(b))
            /\ \E a \in Answers(SubSeq(b, 1, FirstEnd(b))) :
                 /\ reply' = [reply EXCEPT ![c] = a]
                 /\ reading' \in {reading, reading \ {c}}
    BY <2>3, ZenonT(60) DEF Received, EndsOf, FirstEnd
  <2> HIDE DEF line
  <2>5. line = SubSeq(Append(requests, "Tail"), 1, Len(requests) + 1)
    BY DEF line
  <2> QED BY <2>1, <2>2, <2>4, <2>5
<1>5. Halves' = {}
  <2>1. said'[c] = 2 /\ \A d \in Clients \ {c} : said'[d] = said[d]
    BY <1>1 DEF SenderInv, SenderTypes
  <2>2. \A d \in Halves : d = c
    BY <1>1 DEF InTurn
  <2> QED BY <1>4, <2>1, <2>2 DEF Halves, SenderInv, SenderTypes
<1>6. requests' \in Seq({"Head"}) /\ ~Owing' /\ InTurn'
  <2>1. requests' \in Seq({"Head"}) /\ Len(requests') = 0
    BY <1>4
  <2>2. ~Owing'
    BY <1>5, <2>1 DEF Owing
  <2> QED BY <1>5, <2>1, <2>2 DEF InTurn
<1>7. Cardinality(Ignored') <= Cardinality(GoneMidway')
  <2>1. CASE Len(requests) = 1
    <3>1. line = Program
      BY <1>2, <1>3, <2>1, OwnLine
    <3>2. reply'[c] \in Answered
      BY <1>4, <3>1 DEF Answers, Answered, SenderInv, SenderTypes
    <3>3. c \notin Ignored'
      BY <3>2 DEF Ignored
    <3>4. Ignored' = Ignored
      BY <3>3, ReceivedCounts
    <3> QED BY <3>4, ReceivedCounts DEF SenderInv, RequestsAnswered
  <2>2. CASE Len(requests) # 1
    <3>1. Owing
      BY <1>1, <1>3, <2>2 DEF Owing
    <3>2. Cardinality(Ignored) < Cardinality(GoneMidway)
      BY <1>1, <3>1 DEF InTurn
    <3>3. Cardinality(Ignored') <= Cardinality(Ignored) + 1
      <4>1. IsFiniteSet(Ignored \cup {c}) /\ Cardinality(Ignored \cup {c}) <= Cardinality(Ignored) + 1
        BY CountsAreNumbers, AtMostOneMore
      <4>2. Cardinality(Ignored') <= Cardinality(Ignored \cup {c})
        BY <4>1, ReceivedCounts, FS_Subset
      <4>3. Cardinality(Ignored \cup {c}) \in Nat
        BY <4>1, FS_CardinalityType
      <4> QED BY <4>1, <4>2, <4>3, CountsAreNumbers
    <3> QED BY <3>2, <3>3, CountsAreNumbers, ReceivedCounts
  <2> QED BY <2>1, <2>2
<1>8. RequestsAnswered'
  BY <1>7, ReceivedTypes DEF RequestsAnswered
<1> QED BY <1>6, <1>8, ReceivedTypes DEF SenderInv

\* However many robots connect, hang up or send pieces of their requests in whatever
\* order, and whenever the driver makes and destroys the sender: the script is written to
\* a robot only after its whole request, and the requests that came in apart from others
\* and were ignored are no more than the robots that went in the middle of theirs.
THEOREM SenderAnswers == SenderSpec => []RequestsAnswered
<1> DEFINE Moves == \/ sender = "absent" /\ Construct
                    \/ \E c \in Clients : ClientConnects(c)
                    \/ SenderHandler \/ Destroy \/ SenderShutdown
<1>1. SenderInit => SenderInv
  <2> SUFFICES ASSUME SenderInit PROVE SenderInv
    OBVIOUS
  <2>1. /\ said = [c \in Clients |-> 0] /\ reply = [c \in Clients |-> "none"]
        /\ conn = [c \in Clients |-> "idle"] /\ reading = {} /\ mixed = FALSE
        /\ requests = <<>>
    BY DEF SenderInit
  <2>2. SenderTypes
    <3>1. requests \in Seq(Fragments) /\ reading \subseteq Clients /\ mixed \in BOOLEAN
      <4>1. <<>> \in Seq(Fragments) /\ {} \subseteq Clients /\ FALSE \in BOOLEAN
        OBVIOUS
      <4> QED BY <2>1, <4>1, Zenon
    <3>2. said \in [Clients -> 0 .. 2]
      BY <2>1
    <3>3. /\ reply \in [Clients -> {"none", "ignored"} \cup Answered]
          /\ conn \in [Clients -> {"idle", "backlog", "open", "closed"}]
      BY <2>1
    <3> QED BY <3>1, <3>2, <3>3 DEF SenderTypes
  <2>3. Connections
    BY <2>1 DEF Connections
  <2>4. Halves = {} /\ Ignored = {} /\ GoneMidway = {}
    <3>1. \A c \in Clients : said[c] = 0
      BY <2>1
    <3> QED BY <2>1, <3>1 DEF Halves, Ignored, GoneMidway
  <2>5. InTurn
    BY <2>1, <2>4 DEF InTurn, Owing
  <2>6. RequestsAnswered
    <3>1. \A c \in Clients : reply[c] \notin Answered
      BY <2>1 DEF Answered
    <3>2. Cardinality(Ignored) <= Cardinality(GoneMidway)
      BY <2>4, FS_EmptySet
    <3> QED BY <3>1, <3>2 DEF RequestsAnswered
  <2> QED BY <2>2, <2>3, <2>5, <2>6 DEF SenderInv
<1>2. SenderInv /\ [Moves]_senderVars => SenderInv'
  <2> SUFFICES ASSUME SenderInv, [Moves]_senderVars PROVE SenderInv'
    OBVIOUS
  <2> USE DEF SenderInv, SenderTypes, Connections
  <2>1. ASSUME NEW c \in Clients, Received(c) PROVE SenderInv'
    <3>1. said[c] \in {0, 1}
      BY <2>1 DEF Received
    <3> QED BY <2>1, <3>1, MixedKeeps, HeadKeeps, TailKeeps
  <2>2. ASSUME NEW c \in Clients, ClientConnects(c) PROVE SenderInv'
    BY <2>2, ReadersChange DEF ClientConnects
  <2>3. ASSUME NEW c \in Clients, Accepted(c) PROVE SenderInv'
    BY <2>3, ReadersChange DEF Accepted
  <2>4. ASSUME NEW c \in Clients, Dropped(c) PROVE SenderInv'
    BY <2>4, ReadersChange DEF Dropped
  <2>5. ASSUME NEW c \in Clients, ReceivedLate(c) PROVE SenderInv'
    BY <2>5, ReadersChange DEF ReceivedLate
  <2>6. CASE Construct \/ Destroy \/ AcceptAborted \/ UNCHANGED senderVars
    BY <2>6, ReadersChange DEF Construct, Destroy, AcceptAborted, senderVars
  <2>7. CASE SenderShutdown
    BY <2>7, ReadersChange DEF SenderShutdown
  <2> QED BY <2>1, <2>2, <2>3, <2>4, <2>5, <2>6, <2>7 DEF SenderHandler
<1>3. SenderInv => RequestsAnswered
  BY DEF SenderInv
<1> QED BY <1>1, <1>2, <1>3, PTL DEF SenderSpec

---------------------------------------------------------------------------
(* SerialCommunication.                                                     *)

SerialSpec == SerialInit /\ [][SerialNext]_serialVars

\* A read that has been started.
Outstanding == [size : Nat, bytes : Seq(Nat), own : BOOLEAN]

Increasing(s) == \A i, j \in DOMAIN s : i < j => s[i] < s[j]

\* The elements of s are the numbers after n.
Follows(s, n) == \A i \in DOMAIN s : s[i] = n + i

\* Every element of s is at most n.
UpTo(s, n) == \A i \in DOMAIN s : s[i] <= n

\* Every element of s is less than every one of t.
Before(s, t) == \A i \in DOMAIN s, j \in DOMAIN t : s[i] < t[j]

\* The types, and which bytes are still on the line.
SerialTypes ==
    /\ arrived \in Nat /\ taken \in Nat /\ taken <= arrived
    /\ delivered \in Seq(Nat) /\ reads \in Seq(Outstanding)
    /\ busy \in BOOLEAN /\ timedOut \in BOOLEAN
    /\ busy => reads # <<>>
    /\ \A i \in DOMAIN reads : Len(reads[i].bytes) <= reads[i].size

\* The bytes of the read of the call that runs come after those that were returned.
OwnInOrder(r) ==
    r.own => Increasing(r.bytes) /\ UpTo(r.bytes, taken) /\ Before(delivered, r.bytes)

InOrder ==
    /\ Increasing(delivered) /\ UpTo(delivered, taken)
    /\ \A i \in DOMAIN reads : OwnInOrder(reads[i])
    /\ \A i \in DOMAIN reads : reads[i].own => busy
    /\ \A i, j \in DOMAIN reads : reads[i].own /\ reads[j].own => i = j

\* Without a timeout all that was taken is returned, or is in the read of the call.
NoGap ==
    ~timedOut =>
        /\ Follows(delivered, 0)
        /\ reads = <<>> => Len(delivered) = taken
        /\ reads # <<>> => /\ busy /\ Len(reads) = 1 /\ reads[1].own
                           /\ Len(delivered) + Len(reads[1].bytes) = taken
                           /\ Follows(reads[1].bytes, Len(delivered))

SerialInv == SerialTypes /\ InOrder /\ NoGap

\* What holds of two sequences holds of one after the other.
LEMMA OneAfterTheOther ==
    ASSUME NEW a \in Seq(Nat), NEW b \in Seq(Nat)
    PROVE  /\ a \o b \in Seq(Nat) /\ Len(a \o b) = Len(a) + Len(b)
           /\ Increasing(a) /\ Increasing(b) /\ Before(a, b) => Increasing(a \o b)
           /\ \A n \in Nat : UpTo(a, n) /\ UpTo(b, n) => UpTo(a \o b, n)
           /\ \A n \in Nat : Follows(a, n) /\ Follows(b, n + Len(a)) => Follows(a \o b, n)
           /\ \A c \in Seq(Nat) : Before(c, a) /\ Before(c, b) => Before(c, a \o b)
<1>1. PICK d : d = a \o b
  OBVIOUS
<1>2. /\ d \in Seq(Nat) /\ Len(d) = Len(a) + Len(b) /\ Len(a) \in Nat /\ Len(b) \in Nat
      /\ DOMAIN a = 1 .. Len(a) /\ DOMAIN b = 1 .. Len(b) /\ DOMAIN d = 1 .. Len(a) + Len(b)
  BY <1>1, ConcatProperties, LenProperties
<1>3. ASSUME NEW i \in DOMAIN d
      PROVE  \/ i <= Len(a) /\ i \in DOMAIN a /\ d[i] = a[i]
             \/ i > Len(a) /\ i - Len(a) \in DOMAIN b /\ d[i] = b[i - Len(a)]
  BY <1>1, <1>2, ConcatProperties
<1>4. (\A i \in DOMAIN a : a[i] \in Nat) /\ (\A i \in DOMAIN b : b[i] \in Nat)
      /\ (\A i \in DOMAIN d : i \in Nat)
  BY <1>2
<1>5. ASSUME Increasing(a), Increasing(b), Before(a, b) PROVE Increasing(d)
  <2> SUFFICES ASSUME NEW i \in DOMAIN d, NEW j \in DOMAIN d, i < j PROVE d[i] < d[j]
    BY DEF Increasing
  <2>1. CASE j <= Len(a)
    <3>1. i <= Len(a)
      BY <1>2, <1>4, <2>1
    <3>2. i \in DOMAIN a /\ j \in DOMAIN a /\ d[i] = a[i] /\ d[j] = a[j]
      BY <1>2, <1>3, <1>4, <2>1, <3>1
    <3> QED BY <1>5, <3>2 DEF Increasing
  <2>2. CASE i > Len(a)
    <3>1. j > Len(a)
      BY <1>2, <1>4, <2>2
    <3>2. /\ i - Len(a) \in DOMAIN b /\ j - Len(a) \in DOMAIN b /\ i - Len(a) < j - Len(a)
          /\ d[i] = b[i - Len(a)] /\ d[j] = b[j - Len(a)]
      BY <1>2, <1>3, <1>4, <2>2, <3>1, SMTT(30)
    <3> QED BY <1>5, <3>2 DEF Increasing
  <2>3. CASE i <= Len(a) /\ j > Len(a)
    <3>1. i \in DOMAIN a /\ d[i] = a[i] /\ j - Len(a) \in DOMAIN b /\ d[j] = b[j - Len(a)]
      BY <1>2, <1>3, <1>4, <2>3, SMTT(30)
    <3> QED BY <1>5, <3>1 DEF Before
  <2> QED BY <1>2, <1>4, <2>1, <2>2, <2>3
<1>6. ASSUME NEW n \in Nat, UpTo(a, n), UpTo(b, n) PROVE UpTo(d, n)
  BY <1>3, <1>6 DEF UpTo
<1>7. ASSUME NEW n \in Nat, Follows(a, n), Follows(b, n + Len(a)) PROVE Follows(d, n)
  <2> SUFFICES ASSUME NEW i \in DOMAIN d PROVE d[i] = n + i
    BY DEF Follows
  <2>1. CASE i <= Len(a) /\ i \in DOMAIN a /\ d[i] = a[i]
    BY <1>7, <2>1 DEF Follows
  <2>2. CASE i > Len(a) /\ i - Len(a) \in DOMAIN b /\ d[i] = b[i - Len(a)]
    <3>1. d[i] = n + Len(a) + (i - Len(a))
      BY <1>7, <2>2 DEF Follows
    <3> QED BY <1>2, <1>4, <3>1
  <2> QED BY <1>3, <2>1, <2>2
<1>8. ASSUME NEW c \in Seq(Nat), Before(c, a), Before(c, b) PROVE Before(c, d)
  BY <1>3, <1>8 DEF Before
<1> QED BY <1>1, <1>2, <1>5, <1>6, <1>7, <1>8

\* The next n bytes of the line.
LEMMA NextBytes ==
    ASSUME taken \in Nat, NEW n \in Nat
    PROVE  /\ Bytes(n) \in Seq(Nat) /\ Len(Bytes(n)) = n /\ Increasing(Bytes(n))
           /\ Follows(Bytes(n), taken) /\ UpTo(Bytes(n), taken + n)
           /\ \A s \in Seq(Nat) : UpTo(s, taken) => Before(s, Bytes(n))
<1>1. PICK b : b = Bytes(n)
  OBVIOUS
<1>2. b = [i \in 1 .. n |-> taken + i]
  BY <1>1 DEF Bytes
<1>3. b \in [1 .. n -> Nat] /\ DOMAIN b = 1 .. n /\ \A i \in 1 .. n : b[i] = taken + i
  BY <1>2
<1>4. b \in Seq(Nat) /\ Len(b) = n
  BY <1>3, IsASeq, LenProperties
<1>5. Increasing(b) /\ Follows(b, taken) /\ UpTo(b, taken + n)
  BY <1>3 DEF Increasing, Follows, UpTo
<1>6. ASSUME NEW s \in Seq(Nat), UpTo(s, taken) PROVE Before(s, b)
  <2>1. \A i \in DOMAIN s : s[i] \in Nat /\ s[i] <= taken
    BY <1>6, ElementOfSeq, LenProperties DEF UpTo
  <2> QED BY <1>3, <2>1 DEF Before
<1> QED BY <1>1, <1>4, <1>5, <1>6

\* A sequence bounded by n is bounded by what is more.
LEMMA UpToMore ==
    ASSUME NEW s \in Seq(Nat), NEW m \in Nat, NEW n \in Nat, m <= n, UpTo(s, m) PROVE UpTo(s, n)
<1>1. \A i \in DOMAIN s : s[i] \in Nat /\ s[i] <= m
  BY ElementOfSeq, LenProperties DEF UpTo
<1> QED BY <1>1 DEF UpTo

\* The empty sequence.
LEMMA NoBytes ==
    /\ <<>> \in Seq(Nat) /\ Increasing(<<>>) /\ \A n \in Nat : UpTo(<<>>, n) /\ Follows(<<>>, n)
    /\ \A s \in Seq(Nat) : Before(s, <<>>)
<1>1. DOMAIN <<>> = {} /\ <<>> \in Seq(Nat)
  BY EmptySeq
<1> QED BY <1>1 DEF Increasing, UpTo, Follows, Before

\* Nothing is outstanding, nothing was taken.
LEMMA FreshConnection ==
    ASSUME arrived' = 0, taken' = 0, delivered' = <<>>, reads' = <<>>, busy' \in BOOLEAN, ~busy',
           timedOut' \in BOOLEAN
    PROVE  SerialInv'
<1>1. DOMAIN <<>> = {} /\ <<>> \in Seq(Outstanding) /\ Len(<<>>) = 0
  BY EmptySeq
<1>2. SerialTypes'
  BY <1>1, NoBytes DEF SerialTypes
<1>3. InOrder'
  BY <1>1, NoBytes DEF InOrder
<1>4. NoGap'
  BY <1>1, NoBytes DEF NoGap
<1> QED BY <1>2, <1>3, <1>4 DEF SerialInv

\* A step that changes none of the bytes or reads.
LEMMA SameBytes ==
    ASSUME SerialInv, UNCHANGED <<taken, reads, busy, delivered, timedOut>>,
           arrived' \in Nat, arrived' >= arrived
    PROVE  SerialInv'
<1>1. SerialTypes'
  BY DEF SerialInv, SerialTypes
<1>2. InOrder'
  BY DEF SerialInv, InOrder, OwnInOrder
<1>3. NoGap'
  BY DEF SerialInv, NoGap
<1> QED BY <1>1, <1>2, <1>3 DEF SerialInv

\* read() without a timeout.
LEMMA BlockingReadKeeps == ASSUME SerialInv, NEW n \in Sizes, BlockingRead(n) PROVE SerialInv'
<1>0. SerialTypes /\ InOrder /\ NoGap /\ n \in Nat
  BY SerialSizes DEF SerialInv
<1>1. PICK k : k = IF arrived - taken < n THEN arrived - taken ELSE n
  OBVIOUS
<1>2. /\ ~busy /\ taken' = taken + k /\ delivered' = delivered \o Bytes(k)
      /\ reads' = reads \/ reads' = <<>>
      /\ UNCHANGED <<arrived, busy, timedOut>>
  BY <1>1 DEF BlockingRead
<1>3. k \in Nat /\ taken' \in Nat /\ taken' <= arrived' /\ taken <= taken'
  BY <1>0, <1>1, <1>2 DEF SerialTypes
<1>4. /\ Bytes(k) \in Seq(Nat) /\ Len(Bytes(k)) = k /\ Increasing(Bytes(k))
      /\ Follows(Bytes(k), taken) /\ UpTo(Bytes(k), taken + k) /\ Before(delivered, Bytes(k))
  BY <1>0, <1>3, NextBytes DEF SerialTypes, InOrder
<1>5. /\ delivered' \in Seq(Nat) /\ Len(delivered') = Len(delivered) + k
      /\ Increasing(delivered') /\ UpTo(delivered', taken')
  <2>1. UpTo(delivered, taken')
    BY <1>0, <1>3, UpToMore DEF SerialTypes, InOrder
  <2> QED BY <1>0, <1>2, <1>3, <1>4, <2>1, OneAfterTheOther DEF SerialTypes, InOrder
<1>6. \A i \in DOMAIN reads' : ~reads'[i].own /\ Len(reads'[i].bytes) <= reads'[i].size
  BY <1>0, <1>2, EmptySeq DEF SerialTypes, InOrder
<1>7. SerialTypes'
  BY <1>0, <1>2, <1>3, <1>5, <1>6, EmptySeq DEF SerialTypes
<1>8. InOrder'
  <2>1. Increasing(delivered)' /\ UpTo(delivered, taken)'
    BY <1>5 DEF Increasing, UpTo
  <2> QED BY <1>6, <2>1 DEF InOrder, OwnInOrder
<1>9. NoGap'
  <2> SUFFICES ASSUME ~timedOut PROVE /\ reads' = <<>> /\ Len(delivered') = taken'
                                      /\ Follows(delivered, 0)'
    BY <1>2 DEF NoGap
  <2>1. reads = <<>> /\ Len(delivered) = taken /\ Follows(delivered, 0)
    BY <1>0, <1>2 DEF NoGap
  <2>2. Follows(delivered', 0)
    <3>1. 0 + Len(delivered) = taken
      BY <1>0, <2>1 DEF SerialTypes
    <3> QED BY <1>0, <1>2, <1>4, <2>1, <3>1, OneAfterTheOther DEF SerialTypes
  <2> QED BY <1>2, <1>5, <2>1, <2>2 DEF Follows
<1> QED BY <1>7, <1>8, <1>9 DEF SerialInv

\* read() with a timeout begins.
LEMMA BeginReadKeeps == ASSUME SerialInv, NEW n \in Sizes, BeginRead(n) PROVE SerialInv'
<1>0. SerialTypes /\ InOrder /\ NoGap /\ n \in Nat
  BY SerialSizes DEF SerialInv
<1>1. PICK r : r = [size |-> n, bytes |-> <<>>, own |-> TRUE]
  OBVIOUS
<1>2. r \in Outstanding /\ r.bytes = <<>> /\ r.own /\ r.size = n
  BY <1>0, <1>1, NoBytes DEF Outstanding
<1>3. /\ ~busy /\ busy' = TRUE /\ reads' = Append(reads, r)
      /\ UNCHANGED <<arrived, taken, delivered, timedOut>>
  BY <1>1 DEF BeginRead
<1>4. /\ reads' \in Seq(Outstanding) /\ reads' # <<>> /\ Len(reads') = Len(reads) + 1
      /\ Len(reads) \in Nat /\ DOMAIN reads = 1 .. Len(reads) /\ DOMAIN reads' = 1 .. Len(reads) + 1
      /\ \A i \in DOMAIN reads : reads'[i] = reads[i]
      /\ reads'[Len(reads) + 1] = r
  BY <1>0, <1>2, <1>3, AppendProperties, LenProperties DEF SerialTypes
<1>5. \A i \in DOMAIN reads' : i \in DOMAIN reads \/ i = Len(reads) + 1
  BY <1>4
<1>6. \A i \in DOMAIN reads : ~reads[i].own
  BY <1>0, <1>3 DEF InOrder
<1>7. SerialTypes'
  <2>1. ASSUME NEW i \in DOMAIN reads' PROVE Len(reads'[i].bytes) <= reads'[i].size
    BY <1>0, <1>2, <1>4, <1>5, EmptySeq DEF SerialTypes
  <2> QED BY <1>0, <1>3, <1>4, <2>1 DEF SerialTypes
<1>8. InOrder'
  <2>1. ASSUME NEW i \in DOMAIN reads', reads'[i].own PROVE i = Len(reads) + 1 /\ reads'[i] = r
    BY <1>4, <1>5, <1>6, <2>1
  <2>2. OwnInOrder(r)
    BY <1>0, <1>2, NoBytes DEF OwnInOrder, SerialTypes
  <2>3. \A i \in DOMAIN reads' : OwnInOrder(reads[i])'
    BY <1>3, <2>1, <2>2 DEF OwnInOrder
  <2>4. Increasing(delivered)' /\ UpTo(delivered, taken)'
    BY <1>0, <1>3 DEF InOrder
  <2> QED BY <1>3, <2>1, <2>3, <2>4 DEF InOrder
<1>9. NoGap'
  <2> SUFFICES ASSUME ~timedOut PROVE NoGap'
    BY <1>3 DEF NoGap
  <2>1. reads = <<>> /\ Len(delivered) = taken /\ Follows(delivered, 0)
    BY <1>0, <1>3 DEF NoGap
  <2>2. Len(reads') = 1 /\ reads'[1] = r
    BY <1>4, <2>1, EmptySeq
  <2>3. Len(delivered) \in Nat /\ Follows(r.bytes, Len(delivered)) /\ Len(r.bytes) = 0
    BY <1>0, <1>2, NoBytes, LenProperties, EmptySeq DEF SerialTypes
  <2>4. Len(delivered) + Len(r.bytes) = taken
    BY <2>1, <2>3
  <2> QED BY <1>2, <1>3, <1>4, <2>1, <2>2, <2>3, <2>4 DEF NoGap
<1> QED BY <1>7, <1>8, <1>9 DEF SerialInv

\* A read with a timeout is over, and its bytes are lost.
LEMMA ReadTimesOutKeeps == ASSUME SerialInv, ReadTimesOut PROVE SerialInv'
<1>0. SerialTypes /\ InOrder /\ NoGap
  BY DEF SerialInv
<1>1. /\ busy /\ busy' = FALSE /\ UNCHANGED <<arrived, taken, delivered>>
      /\ timedOut' = (timedOut \/ \E i \in DOMAIN reads : reads[i].own)
      /\ reads' = [i \in DOMAIN reads |-> [reads[i] EXCEPT !.own = FALSE]]
  BY DEF ReadTimesOut
<1>2. Len(reads) \in Nat /\ DOMAIN reads = 1 .. Len(reads) /\ \A i \in DOMAIN reads : reads[i] \in Outstanding
  BY <1>0, LenProperties DEF SerialTypes
<1>3. ASSUME NEW i \in DOMAIN reads
      PROVE  /\ reads'[i] \in Outstanding /\ ~reads'[i].own /\ reads'[i].bytes = reads[i].bytes
             /\ reads'[i].size = reads[i].size
  BY <1>1, <1>2 DEF Outstanding
<1>4. reads' \in [1 .. Len(reads) -> Outstanding]
  BY <1>1, <1>2, <1>3
<1>5. reads' \in Seq(Outstanding) /\ DOMAIN reads' = DOMAIN reads
  <2>1. DOMAIN reads' = DOMAIN reads
    BY <1>1
  <2>2. PICK m \in Nat : m = Len(reads)
    BY <1>2
  <2>3. reads' \in [1 .. m -> Outstanding]
    BY <1>4, <2>2
  <2> QED BY <2>1, <2>3, SeqDef
<1>6. timedOut'
  <2>1. ASSUME ~timedOut PROVE \E i \in DOMAIN reads : reads[i].own
    BY <1>0, <1>1, <1>2, <2>1 DEF SerialTypes, NoGap
  <2> QED BY <1>1, <2>1
<1>7. SerialTypes'
  <2>1. timedOut' \in BOOLEAN
    BY <1>1
  <2> QED BY <1>0, <1>1, <1>3, <1>5, <2>1 DEF SerialTypes
<1>8. InOrder'
  BY <1>0, <1>1, <1>3, <1>5 DEF InOrder, OwnInOrder
<1> QED BY <1>6, <1>7, <1>8 DEF SerialInv, NoGap

\* The other side closes.
LEMMA PeerClosesKeeps == ASSUME SerialInv, PeerCloses PROVE SerialInv'
<1>0. SerialTypes /\ InOrder /\ NoGap
  BY DEF SerialInv
<1>1. /\ busy /\ busy' = FALSE /\ reads' = <<>> /\ UNCHANGED <<arrived, taken, timedOut>>
      /\ \/ \E i \in DOMAIN reads : reads[i].own /\ delivered' = delivered \o reads[i].bytes
         \/ (\A i \in DOMAIN reads : ~reads[i].own) /\ UNCHANGED delivered
  BY DEF PeerCloses
<1>2. DOMAIN reads = 1 .. Len(reads) /\ \A i \in DOMAIN reads : reads[i].bytes \in Seq(Nat)
  <2>1. DOMAIN reads = 1 .. Len(reads) /\ \A i \in DOMAIN reads : reads[i] \in Outstanding
    BY <1>0, LenProperties DEF SerialTypes
  <2> QED BY <2>1 DEF Outstanding
<1>3. /\ delivered' \in Seq(Nat) /\ Increasing(delivered') /\ UpTo(delivered', taken)
      /\ ~timedOut => Follows(delivered', 0) /\ Len(delivered') = taken
  <2>1. ASSUME NEW i \in DOMAIN reads, reads[i].own, delivered' = delivered \o reads[i].bytes
        PROVE  /\ delivered' \in Seq(Nat) /\ Increasing(delivered') /\ UpTo(delivered', taken)
               /\ ~timedOut => Follows(delivered', 0) /\ Len(delivered') = taken
    <3>1. PICK b : b = reads[i].bytes
      OBVIOUS
    <3>2. b \in Seq(Nat) /\ Increasing(b) /\ UpTo(b, taken) /\ Before(delivered, b)
      BY <1>0, <1>2, <2>1, <3>1 DEF InOrder, OwnInOrder
    <3>3. /\ delivered' \in Seq(Nat) /\ Increasing(delivered') /\ UpTo(delivered', taken)
          /\ Len(delivered') = Len(delivered) + Len(b)
      BY <1>0, <2>1, <3>1, <3>2, OneAfterTheOther DEF SerialTypes, InOrder
    <3>4. ASSUME ~timedOut PROVE Follows(delivered', 0) /\ Len(delivered') = taken
      <4>1. reads # <<>> /\ i = 1
        BY <1>0, <1>1, <1>2, <2>1, <3>4 DEF SerialTypes, NoGap
      <4>2. /\ Follows(delivered, 0) /\ Len(delivered) + Len(b) = taken /\ Follows(b, Len(delivered))
        BY <1>0, <3>1, <3>4, <4>1 DEF NoGap
      <4>3. 0 + Len(delivered) = Len(delivered)
        BY <1>0, LenProperties DEF SerialTypes
      <4> QED BY <1>0, <2>1, <3>1, <3>2, <3>3, <4>2, <4>3, OneAfterTheOther DEF SerialTypes
    <3> QED BY <3>3, <3>4
  <2>2. ASSUME \A i \in DOMAIN reads : ~reads[i].own, UNCHANGED delivered PROVE timedOut
    BY <1>0, <1>1, <1>2, <2>2 DEF SerialTypes, NoGap
  <2> QED BY <1>0, <1>1, <2>1, <2>2 DEF SerialTypes, InOrder
<1>4. DOMAIN <<>> = {} /\ <<>> \in Seq(Outstanding)
  BY EmptySeq
<1>5. SerialTypes'
  BY <1>0, <1>1, <1>3, <1>4 DEF SerialTypes
<1>6. InOrder'
  BY <1>1, <1>3, <1>4 DEF InOrder, Increasing, UpTo
<1>7. NoGap'
  BY <1>1, <1>3 DEF NoGap, Follows
<1> QED BY <1>5, <1>6, <1>7 DEF SerialInv

\* The first read in the queue takes bytes.
LEMMA TransferKeeps == ASSUME SerialInv, Transfer PROVE SerialInv'
<1>0. SerialTypes /\ InOrder /\ NoGap
  BY DEF SerialInv
<1>1. PICK r, need, k, bytes, new :
        /\ r = reads[1] /\ need = r.size - Len(r.bytes)
        /\ k = IF arrived - taken < need THEN arrived - taken ELSE need
        /\ bytes = r.bytes \o Bytes(k) /\ new = [r EXCEPT !.bytes = bytes]
  OBVIOUS
<1>2. /\ busy /\ taken < arrived /\ taken' = taken + k
      /\ reads' = IF k < need THEN Append(Tail(reads), new) ELSE Tail(reads)
      /\ delivered' = IF k = need /\ r.own THEN delivered \o bytes ELSE delivered
      /\ busy' = (reads' # <<>>) /\ UNCHANGED <<arrived, timedOut>>
  BY <1>1 DEF Transfer
<1>3. /\ reads # <<>> /\ Len(reads) \in Nat /\ Len(reads) >= 1 /\ DOMAIN reads = 1 .. Len(reads)
      /\ 1 \in DOMAIN reads /\ r \in Outstanding /\ Len(r.bytes) <= r.size /\ OwnInOrder(r)
  <2>1. reads # <<>> /\ Len(reads) \in Nat /\ DOMAIN reads = 1 .. Len(reads)
    BY <1>0, <1>2, LenProperties DEF SerialTypes
  <2>2. Len(reads) # 0
    BY <1>0, <2>1, EmptySeq DEF SerialTypes
  <2>3. Len(reads) >= 1 /\ 1 \in DOMAIN reads
    BY <2>1, <2>2
  <2> QED BY <1>0, <1>1, <2>1, <2>3, ElementOfSeq DEF SerialTypes, InOrder
<1>4. /\ r.size \in Nat /\ r.bytes \in Seq(Nat) /\ Len(r.bytes) \in Nat /\ need \in Nat
      /\ k \in Nat /\ k <= need /\ taken' \in Nat /\ taken <= taken' /\ taken' <= arrived
  <2>1. r.size \in Nat /\ r.bytes \in Seq(Nat) /\ Len(r.bytes) \in Nat
    BY <1>3, LenProperties DEF Outstanding
  <2>2. need \in Nat
    BY <1>1, <1>3, <2>1, SMTT(30)
  <2>3. /\ arrived \in Nat /\ taken \in Nat /\ taken < arrived /\ taken' = taken + k
        /\ k = IF arrived - taken < need THEN arrived - taken ELSE need
    BY <1>0, <1>1, <1>2 DEF SerialTypes
  <2>4. k \in Nat /\ k <= need /\ k <= arrived - taken
    BY <2>2, <2>3
  <2> QED BY <2>1, <2>2, <2>3, <2>4
<1>5. /\ Bytes(k) \in Seq(Nat) /\ Len(Bytes(k)) = k /\ Increasing(Bytes(k))
      /\ Follows(Bytes(k), taken) /\ UpTo(Bytes(k), taken')
      /\ \A s \in Seq(Nat) : UpTo(s, taken) => Before(s, Bytes(k))
  BY <1>0, <1>2, <1>4, NextBytes DEF SerialTypes
<1>6. bytes \in Seq(Nat) /\ Len(bytes) = Len(r.bytes) + k
  <2>1. PICK a, b : a = r.bytes /\ b = Bytes(k)
    OBVIOUS
  <2>2. a \in Seq(Nat) /\ b \in Seq(Nat) /\ Len(b) = k /\ bytes = a \o b
    BY <1>1, <1>4, <1>5, <2>1
  <2> QED BY <2>1, <2>2, ConcatProperties
<1>7. r.own => Increasing(bytes) /\ UpTo(bytes, taken') /\ Before(delivered, bytes)
  <2> SUFFICES ASSUME r.own PROVE Increasing(bytes) /\ UpTo(bytes, taken') /\ Before(delivered, bytes)
    OBVIOUS
  <2>1. Increasing(r.bytes) /\ UpTo(r.bytes, taken) /\ Before(delivered, r.bytes) /\ delivered \in Seq(Nat)
        /\ UpTo(delivered, taken) /\ taken \in Nat
    BY <1>0, <1>3 DEF OwnInOrder, SerialTypes, InOrder
  <2>2. UpTo(r.bytes, taken')
    BY <1>4, <2>1, UpToMore
  <2>3. Before(r.bytes, Bytes(k)) /\ Before(delivered, Bytes(k))
    BY <1>4, <1>5, <2>1
  <2> QED BY <1>1, <1>4, <1>5, <2>1, <2>2, <2>3, OneAfterTheOther
<1>8. /\ new \in Outstanding /\ new.bytes = bytes /\ new.own = r.own /\ new.size = r.size
  BY <1>1, <1>3, <1>6 DEF Outstanding
<1>9. /\ Tail(reads) \in Seq(Outstanding) /\ Len(Tail(reads)) = Len(reads) - 1
      /\ DOMAIN Tail(reads) = 1 .. Len(reads) - 1
      /\ \A i \in 1 .. Len(reads) - 1 : Tail(reads)[i] = reads[i + 1] /\ i + 1 \in DOMAIN reads
  BY <1>0, <1>3, HeadTailProperties, LenProperties DEF SerialTypes
<1>10. /\ reads' \in Seq(Outstanding) /\ DOMAIN reads' = 1 .. IF k < need THEN Len(reads) ELSE Len(reads) - 1
       /\ \A i \in 1 .. Len(reads) - 1 : i \in DOMAIN reads' /\ reads'[i] = reads[i + 1]
       /\ k < need => reads'[Len(reads)] = new
  <2>1. CASE k < need
    <3>1. reads' = Append(Tail(reads), new)
      BY <1>2, <2>1
    <3>2. /\ reads' \in Seq(Outstanding) /\ Len(reads') = Len(reads)
          /\ \A i \in 1 .. Len(reads) - 1 : reads'[i] = Tail(reads)[i]
          /\ reads'[Len(reads)] = new
      BY <1>3, <1>8, <1>9, <3>1, AppendProperties
    <3> QED BY <1>3, <1>9, <2>1, <3>2, LenProperties
  <2>2. CASE ~(k < need)
    <3>1. reads' = Tail(reads)
      BY <1>2, <2>2
    <3> QED BY <1>9, <2>2, <3>1
  <2> QED BY <2>1, <2>2
<1>11. ASSUME NEW i \in DOMAIN reads'
       PROVE  \/ i \in 1 .. Len(reads) - 1 /\ reads'[i] = reads[i + 1] /\ i + 1 \in DOMAIN reads
              \/ i = Len(reads) /\ k < need /\ reads'[i] = new
  BY <1>3, <1>9, <1>10
<1>12. /\ delivered' \in Seq(Nat) /\ Increasing(delivered') /\ UpTo(delivered', taken')
  <2>1. CASE k = need /\ r.own
    <3>1. UpTo(delivered, taken')
      BY <1>0, <1>4, UpToMore DEF SerialTypes, InOrder
    <3> QED BY <1>0, <1>2, <1>4, <1>6, <1>7, <2>1, <3>1, OneAfterTheOther DEF SerialTypes, InOrder
  <2>2. CASE ~(k = need /\ r.own)
    <3>1. delivered' = delivered
      BY <1>2, <2>2
    <3> QED BY <1>0, <1>4, <3>1, UpToMore DEF SerialTypes, InOrder
  <2> QED BY <2>1, <2>2
<1>13. SerialTypes'
  <2>1. ASSUME NEW i \in DOMAIN reads' PROVE Len(reads'[i].bytes) <= reads'[i].size
    <3>1. CASE reads'[i] = new /\ k < need
      <4>1. Len(reads'[i].bytes) = Len(r.bytes) + k /\ reads'[i].size = r.size
        BY <1>6, <1>8, <3>1
      <4>2. k < r.size - Len(r.bytes)
        BY <1>1, <3>1
      <4> QED BY <1>4, <4>1, <4>2
    <3>2. CASE i + 1 \in DOMAIN reads /\ reads'[i] = reads[i + 1]
      BY <1>0, <3>2 DEF SerialTypes
    <3> QED BY <1>11, <3>1, <3>2
  <2>2. busy' \in BOOLEAN /\ (busy' => reads' # <<>>)
    BY <1>2
  <2> QED BY <1>0, <1>2, <1>4, <1>10, <1>12, <2>1, <2>2 DEF SerialTypes
<1>14. \A i, j \in DOMAIN reads : reads[i].own /\ reads[j].own => i = j
  BY <1>0 DEF InOrder
<1>15. InOrder'
  <2>1. ASSUME NEW i \in DOMAIN reads', reads'[i].own
        PROVE  /\ Increasing(reads'[i].bytes) /\ UpTo(reads'[i].bytes, taken')
               /\ Before(delivered', reads'[i].bytes)
    <3>1. CASE reads'[i] = new /\ k < need
      <4>1. delivered' = delivered /\ r.own
        BY <1>2, <1>4, <1>8, <2>1, <3>1
      <4> QED BY <1>7, <1>8, <3>1, <4>1
    <3>2. CASE i \in 1 .. Len(reads) - 1 /\ i + 1 \in DOMAIN reads /\ reads'[i] = reads[i + 1]
      <4>1. i + 1 # 1
        BY <1>3, <3>2
      <4>2. ~r.own
        BY <1>1, <1>3, <1>14, <2>1, <3>2, <4>1
      <4>3. delivered' = delivered
        BY <1>2, <4>2
      <4>4. /\ Increasing(reads'[i].bytes) /\ UpTo(reads'[i].bytes, taken)
            /\ Before(delivered, reads'[i].bytes)
        BY <1>0, <2>1, <3>2 DEF InOrder, OwnInOrder
      <4>5. reads'[i].bytes \in Seq(Nat) /\ taken \in Nat
        <5>1. reads'[i] \in Outstanding
          BY <1>0, <1>3, <3>2, ElementOfSeq DEF SerialTypes
        <5> QED BY <1>0, <5>1 DEF SerialTypes, Outstanding
      <4>6. UpTo(reads'[i].bytes, taken')
        BY <1>4, <4>4, <4>5, UpToMore
      <4> QED BY <4>3, <4>4, <4>6
    <3> QED BY <1>11, <2>1, <3>1, <3>2
  <2>2. ASSUME NEW i \in DOMAIN reads' PROVE OwnInOrder(reads[i])'
    BY <2>1 DEF OwnInOrder, Increasing, UpTo, Before
  <2>3. ASSUME NEW i \in DOMAIN reads', NEW j \in DOMAIN reads', reads'[i].own, reads'[j].own
        PROVE  i = j
    <3> DEFINE old(m) == IF m = Len(reads) THEN 1 ELSE m + 1
    <3>1. ASSUME NEW m \in DOMAIN reads', reads'[m].own
          PROVE  old(m) \in DOMAIN reads /\ reads[old(m)].own /\ m \in 1 .. Len(reads)
      <4>1. CASE m \in 1 .. Len(reads) - 1 /\ reads'[m] = reads[m + 1] /\ m + 1 \in DOMAIN reads
        <5>1. old(m) = m + 1
          BY <1>3, <4>1
        <5> QED BY <1>3, <3>1, <4>1, <5>1
      <4>2. CASE m = Len(reads) /\ reads'[m] = new
        BY <1>1, <1>3, <1>8, <3>1, <4>2
      <4> QED BY <1>11, <3>1, <4>1, <4>2
    <3>2. old(i) = old(j) /\ i \in 1 .. Len(reads) /\ j \in 1 .. Len(reads)
      BY <1>14, <2>3, <3>1
    <3> QED BY <1>3, <3>2
  <2>4. ASSUME NEW i \in DOMAIN reads' PROVE busy'
    <3>1. DOMAIN <<>> = {}
      OBVIOUS
    <3>2. reads' # <<>>
      BY <2>4, <3>1
    <3> QED BY <1>2, <3>2
  <2>5. Increasing(delivered)' /\ UpTo(delivered, taken)'
    BY <1>12 DEF Increasing, UpTo
  <2> QED BY <2>2, <2>3, <2>4, <2>5 DEF InOrder
<1>16. NoGap'
  <2> SUFFICES ASSUME ~timedOut PROVE NoGap'
    BY <1>2 DEF NoGap
  <2>1. /\ Len(reads) = 1 /\ r.own /\ Follows(delivered, 0)
        /\ Len(delivered) + Len(r.bytes) = taken /\ Follows(r.bytes, Len(delivered))
    BY <1>0, <1>1, <1>3 DEF NoGap
  <2>2. Len(delivered) \in Nat /\ delivered \in Seq(Nat)
    BY <1>0, LenProperties DEF SerialTypes
  <2>3. Follows(bytes, Len(delivered)) /\ Len(delivered) + Len(bytes) = taken'
    <3>1. Len(delivered) + Len(r.bytes) = taken /\ Len(delivered) + Len(bytes) = taken + k
      BY <1>4, <1>6, <2>1, <2>2
    <3>2. Follows(Bytes(k), Len(delivered) + Len(r.bytes))
      BY <1>5, <3>1
    <3>3. Follows(bytes, Len(delivered))
      BY <1>1, <1>4, <1>5, <2>1, <2>2, <3>2, OneAfterTheOther
    <3> QED BY <1>2, <3>1, <3>3
  <2>4. CASE k < need
    <3>1. reads' # <<>> /\ Len(reads') = 1 /\ reads'[1] = new /\ delivered' = delivered
      <4>1. 1 \in DOMAIN reads' /\ reads'[1] = new /\ DOMAIN reads' = 1 .. 1
        BY <1>10, <2>1, <2>4
      <4>2. Len(reads') \in Nat /\ DOMAIN reads' = 1 .. Len(reads')
        BY <1>10, LenProperties
      <4>3. Len(reads') = 1
        BY <4>1, <4>2
      <4> QED BY <1>2, <1>4, <2>4, <4>1, <4>3, EmptySeq
    <3>2. Follows(delivered', 0) /\ Follows(reads'[1].bytes, Len(delivered'))
          /\ Len(delivered') + Len(reads'[1].bytes) = taken' /\ reads'[1].own /\ busy'
      BY <1>2, <1>8, <2>1, <2>3, <3>1
    <3> QED BY <3>1, <3>2 DEF NoGap, Follows
  <2>5. CASE k = need
    <3>1. delivered' = delivered \o bytes
      BY <1>2, <2>1, <2>5
    <3>2. 0 + Len(delivered) = Len(delivered)
      BY <2>2
    <3>3. Follows(delivered', 0) /\ Len(delivered') = taken'
      BY <1>6, <2>1, <2>2, <2>3, <3>1, <3>2, OneAfterTheOther, SMTT(30)
    <3>4. reads' = <<>>
      <4>1. reads' = Tail(reads)
        BY <1>2, <1>4, <2>5
      <4>2. Len(Tail(reads)) = 0
        BY <1>9, <2>1
      <4> QED BY <1>9, <4>1, <4>2, EmptySeq
    <3> QED BY <3>3, <3>4 DEF NoGap, Follows
  <2> QED BY <1>4, <2>4, <2>5
<1> QED BY <1>13, <1>15, <1>16 DEF SerialInv

\* However many bytes arrive and whatever sizes are read: reads return the bytes of the
\* line in the order in which they came, and without a gap as long as no read of this
\* connection has timed out.
THEOREM BytesComeInOrder == SerialSpec => []BytesInOrder
<1>1. SerialInit => SerialInv
  <2> SUFFICES ASSUME SerialInit PROVE SerialInv
    OBVIOUS
  <2>1. DOMAIN <<>> = {} /\ <<>> \in Seq(Outstanding) /\ Len(<<>>) = 0
    BY EmptySeq
  <2>2. SerialTypes
    <3>1. /\ arrived = 0 /\ taken = 0 /\ reads = <<>> /\ delivered = <<>> /\ busy = FALSE
          /\ timedOut = FALSE
      BY DEF SerialInit
    <3>2. \A i \in DOMAIN reads : Len(reads[i].bytes) <= reads[i].size
      BY <2>1, <3>1
    <3>3. 0 \in Nat /\ 0 <= 0 /\ delivered \in Seq(Nat) /\ reads \in Seq(Outstanding)
      BY <2>1, <3>1, NoBytes
    <3> QED BY <3>1, <3>2, <3>3, Zenon DEF SerialTypes
  <2>3. InOrder
    BY <2>1, NoBytes DEF SerialInit, InOrder
  <2>4. NoGap
    BY <2>1, NoBytes DEF SerialInit, NoGap
  <2> QED BY <2>2, <2>3, <2>4 DEF SerialInv
<1>2. SerialInv /\ [SerialNext]_serialVars => SerialInv'
  <2> SUFFICES ASSUME SerialInv, [SerialNext]_serialVars PROVE SerialInv'
    OBVIOUS
  <2>0. arrived \in Nat /\ busy \in BOOLEAN
    BY DEF SerialInv, SerialTypes
  <2>1. CASE UNCHANGED serialVars \/ LateConnect \/ ByteArrives
    <3>1. /\ UNCHANGED <<taken, reads, busy, delivered, timedOut>>
          /\ arrived' \in Nat /\ arrived' >= arrived
      BY <2>0, <2>1 DEF serialVars, LateConnect, ByteArrives
    <3> QED BY <3>1, SameBytes
  <2>2. CASE SerialDisconnect \/ SerialConnect
    <3>1. /\ arrived' = 0 /\ taken' = 0 /\ delivered' = <<>> /\ reads' = <<>> /\ timedOut' = FALSE
          /\ ~busy /\ busy' = busy
      BY <2>2 DEF SerialDisconnect, SerialConnect, SocketDisconnect
    <3>2. busy' \in BOOLEAN /\ ~busy' /\ timedOut' \in BOOLEAN
      BY <2>0, <3>1
    <3> QED BY <3>1, <3>2, FreshConnection
  <2> QED BY <2>1, <2>2, BlockingReadKeeps, BeginReadKeeps, TransferKeeps, ReadTimesOutKeeps,
             PeerClosesKeeps DEF SerialNext
<1>3. SerialInv => BytesInOrder
  <2> SUFFICES ASSUME SerialInv PROVE BytesInOrder
    OBVIOUS
  <2>1. Increasing(delivered) /\ (~timedOut => Follows(delivered, 0))
    BY DEF SerialInv, InOrder, NoGap
  <2>2. ~timedOut /\ ~busy => reads = <<>>
    BY DEF SerialInv, NoGap
  <2>3. \A i \in DOMAIN delivered : 0 + i = i
    BY LenProperties DEF SerialInv, SerialTypes
  <2> QED BY <2>1, <2>2, <2>3 DEF BytesInOrder, Increasing, Follows
<1> QED BY <1>1, <1>2, <1>3, PTL DEF SerialSpec

---------------------------------------------------------------------------
(* RS-485 lines over socat.                                                 *)

Rs485Spec == Rs485Init /\ [][Rs485Next]_rs485Vars

StartSteps == {"idle", "find", "script", "launch", "poll"}

Starts == [line : Lines, port : TcpPorts \cup {0}, step : StartSteps, alone : BOOLEAN]

\* The types of the starts and of the processes they leave.
Rs485Types ==
    /\ starting \in [Threads -> Starts]
    /\ \A u \in Threads : starting[u].step \in {"launch", "poll"} => starting[u].line \in lineSet

\* Two starts on ports that fit know of each other.
StartsKnowEachOther ==
    \A u, v \in Threads :
        u # v /\ Running(u) /\ Running(v) /\ Overlaps(starting[u].port, starting[v].port) =>
            ~starting[u].alone

\* A start that is alone has found no process, and finds later the one that it launched.
FindsItsOwn ==
    \A u \in Threads, s \in socats :
        /\ starting[u].step \in {"script", "launch", "poll"} /\ starting[u].alone
        /\ <<starting[u].port, s.port>> \in Fits
        => starting[u].step = "poll" /\ s.line = starting[u].line

Rs485Inv == Rs485Types /\ StartsKnowEachOther /\ FindsItsOwn /\ HandleServesItsLine

\* A start that goes on to another step keeps the rest of what it knows.
LEMMA StartGoesOn ==
    ASSUME Rs485Types, NEW u \in Threads, NEW p \in StartSteps,
           starting' = [starting EXCEPT ![u].step = p]
    PROVE  /\ starting' \in [Threads -> Starts]
           /\ \A v \in Threads : /\ starting'[v].line = starting[v].line
                                 /\ starting'[v].port = starting[v].port
                                 /\ starting'[v].alone = starting[v].alone
                                 /\ starting'[v].step = IF v = u THEN p ELSE starting[v].step
BY DEF Rs485Types, Starts, StartSteps

\* A start that is over.
LEMMA StartIsOver ==
    ASSUME Rs485Inv, NEW u \in Threads, StartDone(u), UNCHANGED <<socats, lineSet>>,
           HandleServesItsLine'
    PROVE  Rs485Inv'
<1>1. /\ starting'[u] = NoStart /\ \A v \in Threads \ {u} : starting'[v] = starting[v]
      /\ starting' \in [Threads -> Starts]
  BY DEF Rs485Inv, Rs485Types, StartDone, NoStart, Lines, Starts, StartSteps
<1>2. Rs485Types'
  BY <1>1 DEF Rs485Inv, Rs485Types, NoStart
<1>3. StartsKnowEachOther'
  BY <1>1 DEF Rs485Inv, StartsKnowEachOther, Running, Overlaps, NoStart
<1>4. FindsItsOwn'
  BY <1>1 DEF Rs485Inv, FindsItsOwn, NoStart
<1> QED BY <1>2, <1>3, <1>4 DEF Rs485Inv

\* A process that a start finds and makes a handle of.
LEMMA HandleOfStart ==
    ASSUME Rs485Inv, NEW u \in Threads, starting[u].step \in {"find", "poll"},
           NEW s \in Found(starting[u].port), handles' = handles \cup {Handle(u, s)},
           lineSet' = lineSet
    PROVE  HandleServesItsLine'
<1>1. \A h \in handles : ~h.reused /\ h.alone => h.serves = h.line /\ h.line \in lineSet
  BY DEF Rs485Inv, HandleServesItsLine
<1>2. PICK h : h = Handle(u, s)
  OBVIOUS
<1>3. /\ h.line = starting[u].line /\ h.serves = s.line /\ h.reused = (starting[u].step = "find")
      /\ h.alone = starting[u].alone
  BY <1>2 DEF Handle
<1>4. ASSUME ~h.reused, h.alone PROVE h.serves = h.line /\ h.line \in lineSet
  <2>1. starting[u].step = "poll" /\ starting[u].alone
    BY <1>3, <1>4
  <2>2. s \in socats /\ <<starting[u].port, s.port>> \in Fits
    BY DEF Found
  <2>3. s.line = starting[u].line
    BY <2>1, <2>2 DEF Rs485Inv, FindsItsOwn
  <2> QED BY <1>3, <2>1, <2>3 DEF Rs485Inv, Rs485Types
<1> QED BY <1>1, <1>2, <1>4 DEF HandleServesItsLine

\* Rs485Start
LEMMA Rs485StartKeeps ==
    ASSUME Rs485Inv, NEW u \in Threads, NEW line \in Lines, NEW port \in TcpPorts,
           Rs485Start(u, line, port)
    PROVE  Rs485Inv'
<1>1. PICK others : others = {v \in Threads \ {u} : Running(v) /\ Overlaps(port, starting[v].port)}
  OBVIOUS
<1>2. /\ UNCHANGED <<socats, lineSet, handles>> /\ ~Running(u)
      /\ starting' = [v \in Threads |->
             IF v = u THEN [line |-> line, port |-> port, step |-> "find", alone |-> others = {}]
             ELSE [starting[v] EXCEPT !.alone = @ /\ v \notin others]]
  BY <1>1 DEF Rs485Start
<1>3. starting'[u] = [line |-> line, port |-> port, step |-> "find", alone |-> others = {}]
  BY <1>2
<1>4. \A v \in Threads \ {u} :
         /\ starting'[v].line = starting[v].line /\ starting'[v].port = starting[v].port
         /\ starting'[v].step = starting[v].step
         /\ starting'[v].alone = (starting[v].alone /\ v \notin others)
  BY <1>2 DEF Rs485Inv, Rs485Types, Starts, StartSteps
<1>5. starting' \in [Threads -> Starts]
  <2>1. ASSUME NEW v \in Threads \ {u}
        PROVE  starting'[v] \in Starts
    <3>1. PICK a \in BOOLEAN : a = (starting[v].alone /\ v \notin others)
      OBVIOUS
    <3>2. starting'[v] = [starting[v] EXCEPT !.alone = a]
      BY <1>2, <3>1
    <3> QED BY <3>2 DEF Rs485Inv, Rs485Types, Starts, StartSteps
  <2>2. (others = {}) \in BOOLEAN
    OBVIOUS
  <2>3. starting'[u] \in Starts
    BY <1>3, <2>2 DEF Starts, StartSteps
  <2> QED BY <1>2, <2>1, <2>3
<1>6. Rs485Types'
  BY <1>2, <1>3, <1>4, <1>5 DEF Rs485Inv, Rs485Types
<1>7. StartsKnowEachOther'
  <2> SUFFICES ASSUME NEW v \in Threads, NEW w \in Threads, v # w,
                      Running(v)', Running(w)', Overlaps(starting'[v].port, starting'[w].port)
               PROVE  ~starting'[v].alone
    BY DEF StartsKnowEachOther, Overlaps
  <2>1. CASE v = u
    <3>1. w \in others
      BY <1>1, <1>3, <1>4, <2>1 DEF Running
    <3>2. others # {}
      BY <3>1
    <3>3. starting'[u].alone = (others = {})
      BY <1>3
    <3> QED BY <2>1, <3>2, <3>3
  <2>2. CASE w = u
    <3>1. v \in others
      BY <1>1, <1>3, <1>4, <2>2 DEF Running, Overlaps
    <3> QED BY <1>4, <2>2, <3>1
  <2>3. CASE v # u /\ w # u
    BY <1>4, <2>3 DEF Rs485Inv, StartsKnowEachOther, Running
  <2> QED BY <2>1, <2>2, <2>3
<1>8. FindsItsOwn'
  <2> SUFFICES ASSUME NEW v \in Threads, NEW s \in socats,
                      starting'[v].step \in {"script", "launch", "poll"}, starting'[v].alone,
                      <<starting'[v].port, s.port>> \in Fits
               PROVE  starting'[v].step = "poll" /\ s.line = starting'[v].line
    BY <1>2 DEF FindsItsOwn
  <2>1. v # u
    BY <1>3
  <2>2. starting[v].alone /\ starting[v].step \in {"script", "launch", "poll"}
    BY <1>4, <2>1
  <2> QED BY <1>4, <2>1, <2>2 DEF Rs485Inv, FindsItsOwn
<1>9. HandleServesItsLine'
  BY <1>2 DEF Rs485Inv, HandleServesItsLine
<1> QED BY <1>6, <1>7, <1>8, <1>9 DEF Rs485Inv

\* FindSocat
LEMMA FindSocatKeeps == ASSUME Rs485Inv, NEW u \in Threads, FindSocat(u) PROVE Rs485Inv'
<1>1. starting[u].step = "find" /\ UNCHANGED <<socats, lineSet>>
  BY DEF FindSocat
<1>2. CASE Found(starting[u].port) = {}
  <2>1. starting' = [starting EXCEPT ![u].step = "script"] /\ UNCHANGED handles
    BY <1>2 DEF FindSocat
  <2>2. /\ starting' \in [Threads -> Starts]
        /\ \A v \in Threads : /\ starting'[v].line = starting[v].line
                              /\ starting'[v].port = starting[v].port
                              /\ starting'[v].alone = starting[v].alone
                              /\ starting'[v].step = IF v = u THEN "script" ELSE starting[v].step
    BY <2>1, StartGoesOn DEF Rs485Inv, StartSteps
  <2>3. Rs485Types'
    BY <1>1, <2>2 DEF Rs485Inv, Rs485Types
  <2>4. StartsKnowEachOther'
    BY <1>1, <2>2, ZenonT(60) DEF Rs485Inv, StartsKnowEachOther, Running, Overlaps
  <2>5. FindsItsOwn'
    BY <1>1, <1>2, <2>2 DEF Rs485Inv, FindsItsOwn, Found
  <2>6. HandleServesItsLine'
    BY <1>1, <2>1 DEF Rs485Inv, HandleServesItsLine
  <2> QED BY <2>3, <2>4, <2>5, <2>6 DEF Rs485Inv
<1>3. CASE Found(starting[u].port) # {}
  <2>1. PICK s \in Found(starting[u].port) : handles' = handles \cup {Handle(u, s)} /\ StartDone(u)
    BY <1>3 DEF FindSocat
  <2> QED BY <1>1, <2>1, HandleOfStart, StartIsOver
<1> QED BY <1>2, <1>3

\* SendConfig
LEMMA SendConfigKeeps == ASSUME Rs485Inv, NEW u \in Threads, SendConfig(u) PROVE Rs485Inv'
<1>1. starting[u].step = "script" /\ UNCHANGED <<socats, handles>>
  BY DEF SendConfig
<1>2. CASE /\ lineSet' = lineSet \cup {starting[u].line}
           /\ starting' = [starting EXCEPT ![u].step = "launch"]
  <2>1. /\ starting' \in [Threads -> Starts]
        /\ \A v \in Threads : /\ starting'[v].line = starting[v].line
                              /\ starting'[v].port = starting[v].port
                              /\ starting'[v].alone = starting[v].alone
                              /\ starting'[v].step = IF v = u THEN "launch" ELSE starting[v].step
    BY <1>2, StartGoesOn DEF Rs485Inv, StartSteps
  <2>2. Rs485Types'
    BY <1>2, <2>1 DEF Rs485Inv, Rs485Types
  <2>3. StartsKnowEachOther'
    BY <1>1, <2>1, ZenonT(60) DEF Rs485Inv, StartsKnowEachOther, Running, Overlaps
  <2>4. FindsItsOwn'
    BY <1>1, <2>1 DEF Rs485Inv, FindsItsOwn
  <2>5. HandleServesItsLine'
    BY <1>1, <1>2 DEF Rs485Inv, HandleServesItsLine
  <2> QED BY <2>2, <2>3, <2>4, <2>5 DEF Rs485Inv
<1>3. CASE StartDone(u) /\ UNCHANGED lineSet
  <2>1. HandleServesItsLine'
    BY <1>1, <1>3 DEF Rs485Inv, HandleServesItsLine
  <2> QED BY <1>1, <1>3, <2>1, StartIsOver
<1> QED BY <1>2, <1>3 DEF SendConfig

\* Launch
LEMMA LaunchKeeps == ASSUME Rs485Inv, NEW u \in Threads, Launch(u) PROVE Rs485Inv'
<1>1. /\ starting[u].step = "launch" /\ UNCHANGED <<lineSet, handles>>
      /\ starting' = [starting EXCEPT ![u].step = "poll"]
  BY DEF Launch
<1>2. /\ starting' \in [Threads -> Starts]
      /\ \A v \in Threads : /\ starting'[v].line = starting[v].line
                            /\ starting'[v].port = starting[v].port
                            /\ starting'[v].alone = starting[v].alone
                            /\ starting'[v].step = IF v = u THEN "poll" ELSE starting[v].step
  BY <1>1, StartGoesOn DEF Rs485Inv, StartSteps
<1>3. Rs485Types'
  BY <1>1, <1>2 DEF Rs485Inv, Rs485Types
<1>4. StartsKnowEachOther'
  BY <1>1, <1>2 DEF Rs485Inv, StartsKnowEachOther, Running, Overlaps
<1>5. FindsItsOwn'
  <2> SUFFICES ASSUME NEW v \in Threads, NEW s \in socats',
                      starting'[v].step \in {"script", "launch", "poll"}, starting'[v].alone,
                      <<starting'[v].port, s.port>> \in Fits
               PROVE  starting'[v].step = "poll" /\ s.line = starting'[v].line
    BY DEF FindsItsOwn
  <2>1. s \in socats \/ (s.port = starting[u].port /\ s.line = starting[u].line)
    BY DEF Launch
  <2>2. CASE s \in socats
    BY <1>1, <1>2, <2>2 DEF Rs485Inv, FindsItsOwn
  <2>3. CASE s.port = starting[u].port /\ s.line = starting[u].line
    <3>1. CASE v = u
      BY <1>2, <2>3, <3>1
    <3>2. CASE v # u
      BY <1>1, <1>2, <2>3, <3>2 DEF Rs485Inv, StartsKnowEachOther, Running, Overlaps
    <3> QED BY <3>1, <3>2
  <2> QED BY <2>1, <2>2, <2>3
<1>6. HandleServesItsLine'
  BY <1>1 DEF Rs485Inv, HandleServesItsLine
<1> QED BY <1>3, <1>4, <1>5, <1>6 DEF Rs485Inv

\* PollSocat
LEMMA PollSocatKeeps == ASSUME Rs485Inv, NEW u \in Threads, PollSocat(u) PROVE Rs485Inv'
<1>1. starting[u].step = "poll" /\ UNCHANGED <<socats, lineSet>>
  BY DEF PollSocat
<1>2. ASSUME NEW s \in Found(starting[u].port), handles' = handles \cup {Handle(u, s)}, StartDone(u)
      PROVE  Rs485Inv'
  BY <1>1, <1>2, HandleOfStart, StartIsOver
<1>3. ASSUME StartDone(u), handles' = handles PROVE Rs485Inv'
  <2>1. HandleServesItsLine'
    BY <1>1, <1>3 DEF Rs485Inv, HandleServesItsLine
  <2> QED BY <1>1, <1>3, <2>1, StartIsOver
<1> QED BY <1>2, <1>3 DEF PollSocat

\* Rs485End
LEMMA Rs485EndKeeps == ASSUME Rs485Inv, NEW h \in handles, Rs485End(h) PROVE Rs485Inv'
<1>1. handles' \subseteq handles /\ socats' \subseteq socats /\ UNCHANGED <<lineSet, starting>>
  BY DEF Rs485End
<1> QED BY <1>1 DEF Rs485Inv, Rs485Types, StartsKnowEachOther, FindsItsOwn, HandleServesItsLine,
                    Running, Overlaps

\* However many threads start and end lines on whatever ports: the handle of a start
\* that was alone on the ports that fit, and launched its process itself, is of the line
\* it was asked for, and a script has configured that line.
THEOREM HandlesServe == Rs485Spec => []HandleServesItsLine
<1>1. Rs485Init => Rs485Inv
  BY DEF Rs485Init, Rs485Inv, Rs485Types, StartsKnowEachOther, FindsItsOwn, HandleServesItsLine,
         NoStart, Starts, StartSteps, Lines, Running
<1>2. Rs485Inv /\ [Rs485Next]_rs485Vars => Rs485Inv'
  <2> SUFFICES ASSUME Rs485Inv, [Rs485Next]_rs485Vars PROVE Rs485Inv'
    OBVIOUS
  <2>1. CASE UNCHANGED rs485Vars
    BY <2>1 DEF rs485Vars, Rs485Inv, Rs485Types, StartsKnowEachOther, FindsItsOwn,
                HandleServesItsLine, Running, Overlaps
  <2>2. CASE Rs485Next
    BY <2>2, FindSocatKeeps, SendConfigKeeps, LaunchKeeps, PollSocatKeeps, Rs485StartKeeps,
       Rs485EndKeeps DEF Rs485Next
  <2> QED BY <2>1, <2>2
<1>3. Rs485Inv => HandleServesItsLine
  BY DEF Rs485Inv
<1> QED BY <1>1, <1>2, <1>3, PTL DEF Rs485Spec

---------------------------------------------------------------------------
(* SshUtils, RemoteUpgrade and ControllerLog.                               *)

ShellSpec == ShellInit /\ [][ShellStep \/ HangsUp]_shellVars

\* The functions of SshUtils, what their library calls take, and what they release.
RemoteFunctions == {"execute", "download", "upload"}

\* The library calls of a function.
StepsOf(f, build) ==
    CASE f = "execute"  -> ExecuteCommand(build)
      [] f = "download" -> DownloadFile(build)
      [] f = "upload"   -> UploadFile(build)

Resources == {"session", "login", "channel", "file", "scp", "pipe", "child"}

LibraryCalls == [takes : SUBSET Resources, undo : SUBSET Resources]

\* The parts of a library call.
LEMMA CallParts ==
    ASSUME NEW t \in SUBSET Resources, NEW u \in SUBSET Resources
    PROVE  Call(t, u) \in LibraryCalls /\ Call(t, u).takes = t /\ Call(t, u).undo = u
BY DEF Call, LibraryCalls

\* A list of three.
LEMMA Triple ==
    ASSUME NEW S, NEW a \in S, NEW b \in S, NEW c \in S
    PROVE  LET r == <<a, b, c>>
           IN  r \in Seq(S) /\ Len(r) = 3 /\ r[1] = a /\ r[2] = b /\ r[3] = c
OBVIOUS

\* A list of four.
LEMMA Quadruple ==
    ASSUME NEW S, NEW a \in S, NEW b \in S, NEW c \in S, NEW d \in S
    PROVE  LET r == <<a, b, c, d>>
           IN  r \in Seq(S) /\ Len(r) = 4 /\ r[1] = a /\ r[2] = b /\ r[3] = c /\ r[4] = d
OBVIOUS

\* What stands where in a list put together from two.
LEMMA Joined ==
    ASSUME NEW S, NEW l \in Seq(S), NEW r \in Seq(S), Len(l) = 3
    PROVE  /\ Len(l \o r) = 3 + Len(r)
           /\ \A i \in 1 .. 3 + Len(r) : (l \o r)[i] = IF i <= 3 THEN l[i] ELSE r[i - 3]
<1>1. /\ Len(l \o r) = Len(l) + Len(r)
      /\ \A i \in 1 .. Len(l) + Len(r) :
            (l \o r)[i] = IF i <= Len(l) THEN l[i] ELSE r[i - Len(l)]
  BY ConcatProperties
<1> QED BY <1>1

\* The error path of each libssh call releases all that the calls before it took.
LEMMA ErrorPathsRelease ==
    ASSUME NEW f \in RemoteFunctions, NEW s, s = StepsOf(f, "libssh")
    PROVE  /\ Len(s) \in Nat /\ Len(s) >= 4
           /\ s[1].takes = {"session"} /\ s[1].undo = {}
           /\ s[2].takes = {"login"} /\ s[2].undo = {"session"} /\ s[3].takes = {}
           /\ \A i \in 1 .. Len(s) - 1 : s[i].undo \cup s[i].takes \subseteq s[i + 1].undo
<1>1. ASSUME NEW r \in Seq(LibraryCalls), s = Login \o r
      PROVE  /\ Len(s) = 3 + Len(r)
             /\ s[1] = Call({"session"}, {}) /\ s[2] = Call({"login"}, {"session"})
             /\ s[3] = Call({}, {"login", "session"})
             /\ \A i \in 1 .. Len(r) : s[3 + i] = r[i]
  <2>1. PICK a, b, c : /\ a = Call({"session"}, {}) /\ b = Call({"login"}, {"session"})
                       /\ c = Call({}, {"login", "session"})
    OBVIOUS
  <2>2. a \in LibraryCalls /\ b \in LibraryCalls /\ c \in LibraryCalls
    BY <2>1, CallParts DEF Resources
  <2>3. PICK l : l = <<a, b, c>>
    OBVIOUS
  <2>4. l \in Seq(LibraryCalls) /\ Len(l) = 3 /\ l[1] = a /\ l[2] = b /\ l[3] = c
    BY <2>2, <2>3, Triple
  <2>5. s = l \o r
    BY <1>1, <2>1, <2>3 DEF Login
  <2>6. Len(r) \in Nat
    BY LenProperties
  <2>7. /\ Len(s) = 3 + Len(r)
        /\ \A i \in 1 .. 3 + Len(r) : s[i] = IF i <= 3 THEN l[i] ELSE r[i - 3]
    <3>1. /\ Len(l \o r) = 3 + Len(r)
          /\ \A i \in 1 .. 3 + Len(r) : (l \o r)[i] = IF i <= 3 THEN l[i] ELSE r[i - 3]
      BY <2>4, Joined, Zenon
    <3>2. /\ Len(s) = 3 + Len(r)
          /\ \A i \in 1 .. 3 + Len(r) : s[i] = (l \o r)[i]
      BY <2>5, <3>1
    <3> HIDE <2>5
    <3> QED BY <3>1, <3>2
  <2>8. 1 \in 1 .. 3 + Len(r) /\ 2 \in 1 .. 3 + Len(r) /\ 3 \in 1 .. 3 + Len(r)
    BY <2>6
  <2>9. \A i \in 1 .. Len(r) : 3 + i \in 1 .. 3 + Len(r) /\ ~(3 + i <= 3) /\ (3 + i) - 3 = i
    BY <2>6
  <2> QED BY <2>1, <2>4, <2>7, <2>8, <2>9
<1>2. CASE f = "execute"
  <2>1. PICK a, b, c :
          /\ a = Call({"channel"}, {"login", "session"})
          /\ b = Call({}, {"channel", "login", "session"})
          /\ c = Call({}, {"channel", "login", "session"})
    OBVIOUS
  <2>2. s = Login \o <<a, b, c>>
    BY <1>2, <2>1 DEF StepsOf, ExecuteCommand
  <2>3. a \in LibraryCalls /\ b \in LibraryCalls /\ c \in LibraryCalls
    BY <2>1, CallParts DEF Resources
  <2>4. Len(s) = 6 /\ s[4] = a /\ s[5] = b /\ s[6] = c
    <3>1. PICK r : r = <<a, b, c>>
      OBVIOUS
    <3>2. r \in Seq(LibraryCalls) /\ Len(r) = 3 /\ r[1] = a /\ r[2] = b /\ r[3] = c
      BY <2>3, <3>1, Triple
    <3>3. 1 \in 1 .. 3 /\ 3 + 1 = 4 /\ 2 \in 1 .. 3 /\ 3 + 2 = 5 /\ 3 \in 1 .. 3 /\ 3 + 3 = 6
      OBVIOUS
    <3> QED BY <1>1, <2>2, <3>1, <3>2, <3>3
  <2>5. /\ s[1].takes = {"session"} /\ s[1].undo = {}
        /\ s[2].takes = {"login"} /\ s[2].undo = {"session"}
        /\ s[3].takes = {} /\ s[3].undo = {"login", "session"}
    <3>1. <<a, b, c>> \in Seq(LibraryCalls)
      BY <2>3, Triple
    <3>2. /\ s[1] = Call({"session"}, {}) /\ s[2] = Call({"login"}, {"session"})
          /\ s[3] = Call({}, {"login", "session"})
      BY <1>1, <2>2, <3>1
    <3> QED BY <3>2, CallParts DEF Resources
  <2>6. /\ s[4].takes = {"channel"} /\ s[4].undo = {"login", "session"}
        /\ s[5].takes = {} /\ s[5].undo = {"channel", "login", "session"}
        /\ s[6].takes = {} /\ s[6].undo = {"channel", "login", "session"}
    BY <2>1, <2>4, CallParts DEF Resources
  <2>7. \A i \in 1 .. Len(s) - 1 : i \in {1, 2, 3, 4, 5}
    <3>1. Len(s) - 1 = 5
      BY <2>4
    <3>2. \A i \in 1 .. 5 : i \in {1, 2, 3, 4, 5}
      OBVIOUS
    <3> QED BY <3>1, <3>2
  <2>8. /\ s[1].undo \cup s[1].takes \subseteq s[1 + 1].undo
        /\ s[2].undo \cup s[2].takes \subseteq s[2 + 1].undo
        /\ s[3].undo \cup s[3].takes \subseteq s[3 + 1].undo
        /\ s[4].undo \cup s[4].takes \subseteq s[4 + 1].undo
        /\ s[5].undo \cup s[5].takes \subseteq s[5 + 1].undo
    BY <2>5, <2>6
  <2> QED BY <2>4, <2>5, <2>7, <2>8, SMTT(30)
<1>3. CASE f = "download"
  <2>1. PICK a, b, c, d :
          /\ a = Call({"scp"}, {"login", "session"})
          /\ b = Call({}, {"scp", "login", "session"})
          /\ c = Call({}, {"scp", "login", "session"})
          /\ d = Call({"file"}, {"scp", "login", "session"})
    OBVIOUS
  <2>2. s = Login \o <<a, b, c, d>>
    BY <1>3, <2>1 DEF StepsOf, DownloadFile
  <2>3. a \in LibraryCalls /\ b \in LibraryCalls /\ c \in LibraryCalls /\ d \in LibraryCalls
    BY <2>1, CallParts DEF Resources
  <2>4. Len(s) = 7 /\ s[4] = a /\ s[5] = b /\ s[6] = c /\ s[7] = d
    <3>1. PICK r : r = <<a, b, c, d>>
      OBVIOUS
    <3>2. r \in Seq(LibraryCalls) /\ Len(r) = 4 /\ r[1] = a /\ r[2] = b /\ r[3] = c /\ r[4] = d
      BY <2>3, <3>1, Quadruple
    <3>3. /\ 1 \in 1 .. 4 /\ 3 + 1 = 4 /\ 2 \in 1 .. 4 /\ 3 + 2 = 5
          /\ 3 \in 1 .. 4 /\ 3 + 3 = 6 /\ 4 \in 1 .. 4 /\ 3 + 4 = 7
      OBVIOUS
    <3> QED BY <1>1, <2>2, <3>1, <3>2, <3>3
  <2>5. /\ s[1].takes = {"session"} /\ s[1].undo = {}
        /\ s[2].takes = {"login"} /\ s[2].undo = {"session"}
        /\ s[3].takes = {} /\ s[3].undo = {"login", "session"}
    <3>1. <<a, b, c, d>> \in Seq(LibraryCalls)
      BY <2>3, Quadruple
    <3>2. /\ s[1] = Call({"session"}, {}) /\ s[2] = Call({"login"}, {"session"})
          /\ s[3] = Call({}, {"login", "session"})
      BY <1>1, <2>2, <3>1
    <3> QED BY <3>2, CallParts DEF Resources
  <2>6. /\ s[4].takes = {"scp"} /\ s[4].undo = {"login", "session"}
        /\ s[5].takes = {} /\ s[5].undo = {"scp", "login", "session"}
        /\ s[6].takes = {} /\ s[6].undo = {"scp", "login", "session"}
        /\ s[7].takes = {"file"} /\ s[7].undo = {"scp", "login", "session"}
    BY <2>1, <2>4, CallParts DEF Resources
  <2>7. \A i \in 1 .. Len(s) - 1 : i \in {1, 2, 3, 4, 5, 6}
    <3>1. Len(s) - 1 = 6
      BY <2>4
    <3>2. \A i \in 1 .. 6 : i \in {1, 2, 3, 4, 5, 6}
      OBVIOUS
    <3> QED BY <3>1, <3>2
  <2>8. /\ s[1].undo \cup s[1].takes \subseteq s[1 + 1].undo
        /\ s[2].undo \cup s[2].takes \subseteq s[2 + 1].undo
        /\ s[3].undo \cup s[3].takes \subseteq s[3 + 1].undo
        /\ s[4].undo \cup s[4].takes \subseteq s[4 + 1].undo
        /\ s[5].undo \cup s[5].takes \subseteq s[5 + 1].undo
        /\ s[6].undo \cup s[6].takes \subseteq s[6 + 1].undo
    BY <2>5, <2>6
  <2> QED BY <2>4, <2>5, <2>7, <2>8, SMTT(30)
<1>4. CASE f = "upload"
  <2>1. PICK a, b, c, d :
          /\ a = Call({"file"}, {"login", "session"})
          /\ b = Call({"scp"}, {"file", "login", "session"})
          /\ c = Call({}, {"file", "scp", "login", "session"})
          /\ d = Call({}, {"file", "scp", "login", "session"})
    OBVIOUS
  <2>2. s = Login \o <<a, b, c, d>>
    BY <1>4, <2>1 DEF StepsOf, UploadFile
  <2>3. a \in LibraryCalls /\ b \in LibraryCalls /\ c \in LibraryCalls /\ d \in LibraryCalls
    BY <2>1, CallParts DEF Resources
  <2>4. Len(s) = 7 /\ s[4] = a /\ s[5] = b /\ s[6] = c /\ s[7] = d
    <3>1. PICK r : r = <<a, b, c, d>>
      OBVIOUS
    <3>2. r \in Seq(LibraryCalls) /\ Len(r) = 4 /\ r[1] = a /\ r[2] = b /\ r[3] = c /\ r[4] = d
      BY <2>3, <3>1, Quadruple
    <3>3. /\ 1 \in 1 .. 4 /\ 3 + 1 = 4 /\ 2 \in 1 .. 4 /\ 3 + 2 = 5
          /\ 3 \in 1 .. 4 /\ 3 + 3 = 6 /\ 4 \in 1 .. 4 /\ 3 + 4 = 7
      OBVIOUS
    <3> QED BY <1>1, <2>2, <3>1, <3>2, <3>3
  <2>5. /\ s[1].takes = {"session"} /\ s[1].undo = {}
        /\ s[2].takes = {"login"} /\ s[2].undo = {"session"}
        /\ s[3].takes = {} /\ s[3].undo = {"login", "session"}
    <3>1. <<a, b, c, d>> \in Seq(LibraryCalls)
      BY <2>3, Quadruple
    <3>2. /\ s[1] = Call({"session"}, {}) /\ s[2] = Call({"login"}, {"session"})
          /\ s[3] = Call({}, {"login", "session"})
      BY <1>1, <2>2, <3>1
    <3> QED BY <3>2, CallParts DEF Resources
  <2>6. /\ s[4].takes = {"file"} /\ s[4].undo = {"login", "session"}
        /\ s[5].takes = {"scp"} /\ s[5].undo = {"file", "login", "session"}
        /\ s[6].takes = {} /\ s[6].undo = {"file", "scp", "login", "session"}
        /\ s[7].takes = {} /\ s[7].undo = {"file", "scp", "login", "session"}
    BY <2>1, <2>4, CallParts DEF Resources
  <2>7. \A i \in 1 .. Len(s) - 1 : i \in {1, 2, 3, 4, 5, 6}
    <3>1. Len(s) - 1 = 6
      BY <2>4
    <3>2. \A i \in 1 .. 6 : i \in {1, 2, 3, 4, 5, 6}
      OBVIOUS
    <3> QED BY <3>1, <3>2
  <2>8. /\ s[1].undo \cup s[1].takes \subseteq s[1 + 1].undo
        /\ s[2].undo \cup s[2].takes \subseteq s[2 + 1].undo
        /\ s[3].undo \cup s[3].takes \subseteq s[3 + 1].undo
        /\ s[4].undo \cup s[4].takes \subseteq s[4 + 1].undo
        /\ s[5].undo \cup s[5].takes \subseteq s[5 + 1].undo
        /\ s[6].undo \cup s[6].takes \subseteq s[6 + 1].undo
    BY <2>5, <2>6
  <2> QED BY <2>4, <2>5, <2>7, <2>8
<1> QED BY <1>2, <1>3, <1>4 DEF RemoteFunctions

\* A process takes its pipe first, and nothing is released if fork fails.
LEMMA ForkTakes ==
    ASSUME NEW f \in RemoteFunctions, NEW s, s = StepsOf(f, "fork")
    PROVE  /\ Len(s) \in Nat /\ Len(s) >= 1
           /\ \A i \in 1 .. Len(s) : s[i].undo = {} /\ s[i].takes \subseteq {"pipe", "child"}
           /\ \A i \in 1 .. Len(s) - 1 : s[i].takes = {"pipe"}
<1>1. CASE f = "execute"
  <2>1. s = <<Call({"pipe"}, {}), Call({"child"}, {})>>
    BY <1>1 DEF StepsOf, ExecuteCommand
  <2>2. Len(s) = 2 /\ s[1] = Call({"pipe"}, {}) /\ s[2] = Call({"child"}, {})
    BY <2>1
  <2>3. (\A i \in 1 .. Len(s) : i \in {1, 2}) /\ (\A i \in 1 .. Len(s) - 1 : i = 1)
    BY <2>2
  <2> QED BY <2>2, <2>3 DEF Call
<1>2. CASE f # "execute"
  <2>1. s = <<Call({"child"}, {})>>
    BY <1>2 DEF StepsOf, DownloadFile, UploadFile, ScpCommand, RemoteFunctions
  <2>2. Len(s) = 1 /\ s[1] = Call({"child"}, {})
    BY <2>1
  <2>3. (\A i \in 1 .. Len(s) : i = 1) /\ (\A i \in 1 .. Len(s) - 1 : FALSE)
    <3>1. (\A i \in 1 .. 1 : i = 1) /\ (\A i \in 1 .. 0 : FALSE) /\ 1 - 1 = 0
      OBVIOUS
    <3> QED BY <2>2, <3>1
  <2> QED BY <2>2, <2>3 DEF Call
<1> QED BY <1>1, <1>2

---------------------------------------------------------------------------

\* The functions a job may still have to call.
Pending(name) ==
    CASE name = "execute" -> {<<>>, <<"execute">>}
      [] name = "upgrade" -> {<<>>, <<"execute">>, <<"execute", "execute">>,
                              <<"upload", "execute", "execute">>}
      [] name = "log"     -> {<<>>, <<"download">>, <<"execute", "download">>}

\* The job is at a library call of the function it runs, or moves its data, or has ended.
PlaceInv ==
    /\ job \in Jobs /\ calls \in Pending(job.name) /\ at \in Int
    /\ at = JobDone <=> calls = <<>>
    /\ at = JobThrew => ~job.callback
    /\ calls # <<>> /\ at # JobThrew => at \in 1 .. Len(Steps) + 1

\* With libssh: the error path of the next call releases all that is taken.
LibraryInv ==
    /\ at = JobDone => owned = {}
    /\ calls # <<>> /\ at \in 1 .. Len(Steps) => owned \subseteq Steps[at].undo
    /\ at >= 3 => {"session", "login"} \subseteq owned

\* With sshpass: only the pipe is left when fork fails.
ProcessInv ==
    /\ owned \subseteq {"pipe", "child"}
    /\ at = JobDone \/ (calls # <<>> /\ at \in 1 .. Len(Steps)) => owned \subseteq {"pipe"}

OwnedInv ==
    /\ job.build = "libssh" => LibraryInv
    /\ job.build = "fork" => ProcessInv
    /\ owned \cap {"channel", "scp"} # {} => {"login", "session"} \subseteq owned

\* Only an upgrade whose file was moved as a whole goes on to its commands.
MovedInv ==
    /\ size \in Nat /\ moved \in Nat /\ moved <= size
    /\ job.name = "upgrade" /\ calls \in {<<"execute">>, <<"execute", "execute">>} => moved = size
    /\ TrueMeansWhole

ShellInv == PlaceInv /\ OwnedInv /\ MovedInv

\* The calls that are left, as lists.
LEMMA ListFacts ==
    /\ Len(<<>>) = 0 /\ <<>> # <<"execute">> /\ <<>> # <<"download">>
    /\ <<>> # <<"execute", "execute">> /\ <<>> # <<"execute", "download">>
    /\ <<>> # <<"upload", "execute", "execute">>
    /\ Len(<<"execute">>) = 1 /\ Head(<<"execute">>) = "execute" /\ Tail(<<"execute">>) = <<>>
    /\ Len(<<"download">>) = 1 /\ Head(<<"download">>) = "download" /\ Tail(<<"download">>) = <<>>
    /\ Len(<<"execute", "execute">>) = 2 /\ Head(<<"execute", "execute">>) = "execute"
    /\ Tail(<<"execute", "execute">>) = <<"execute">>
    /\ Len(<<"execute", "download">>) = 2 /\ Head(<<"execute", "download">>) = "execute"
    /\ Tail(<<"execute", "download">>) = <<"download">>
    /\ Len(<<"upload", "execute", "execute">>) = 3
    /\ Head(<<"upload", "execute", "execute">>) = "upload"
    /\ Tail(<<"upload", "execute", "execute">>) = <<"execute", "execute">>
    /\ <<"execute">> # <<"upload", "execute", "execute">>
    /\ <<"execute", "execute">> # <<"upload", "execute", "execute">>
    /\ <<"execute">> # <<"execute", "execute">>
OBVIOUS

\* A job that has calls left has a function at the head of them.
LEMMA HeadIsFunction ==
    ASSUME NEW name \in {"execute", "upgrade", "log"}, NEW c \in Pending(name), c # <<>>
    PROVE  /\ Head(c) \in RemoteFunctions
           /\ Head(c) = "upload" => name = "upgrade" /\ c = <<"upload", "execute", "execute">>
           /\ Head(c) = "download" => name = "log" /\ c = <<"download">>
           /\ Tail(c) \in Pending(name) /\ (Len(c) = 1 <=> Tail(c) = <<>>)
           /\ name = "execute" => Len(c) = 1
<1>1. CASE name = "execute"
  <2>1. Pending(name) = {<<>>, <<"execute">>}
    BY <1>1 DEF Pending
  <2>2. c = <<"execute">>
    BY <2>1
  <2> QED BY <1>1, <2>1, <2>2, ListFacts DEF RemoteFunctions
<1>2. CASE name = "upgrade"
  <2>1. Pending(name) = {<<>>, <<"execute">>, <<"execute", "execute">>,
                         <<"upload", "execute", "execute">>}
    BY <1>2 DEF Pending
  <2>2. CASE c = <<"execute">>
    BY <1>2, <2>1, <2>2, ListFacts DEF RemoteFunctions
  <2>3. CASE c = <<"execute", "execute">>
    BY <1>2, <2>1, <2>3, ListFacts DEF RemoteFunctions
  <2>4. CASE c = <<"upload", "execute", "execute">>
    BY <1>2, <2>1, <2>4, ListFacts DEF RemoteFunctions
  <2> QED BY <2>1, <2>2, <2>3, <2>4
<1>3. CASE name = "log"
  <2>1. Pending(name) = {<<>>, <<"download">>, <<"execute", "download">>}
    BY <1>3 DEF Pending
  <2>2. CASE c = <<"download">>
    BY <1>3, <2>1, <2>2, ListFacts DEF RemoteFunctions
  <2>3. CASE c = <<"execute", "download">>
    BY <1>3, <2>1, <2>3, ListFacts DEF RemoteFunctions
  <2> QED BY <2>1, <2>2, <2>3
<1> QED BY <1>1, <1>2, <1>3

\* What is left when a function returns, and where the job goes on.
LEMMA ReturnMoves ==
    ASSUME PlaceInv, calls # <<>>, NEW v, Returns(v), UNCHANGED job
    PROVE  /\ calls' \in Pending(job.name)
           /\ \/ calls' = <<>> /\ at' = JobDone
              \/ calls' # <<>> /\ at' = 1 /\ Head(calls') \in RemoteFunctions
<1>1. job.name \in {"execute", "upgrade", "log"} /\ <<>> \in Pending(job.name)
  BY DEF PlaceInv, Jobs, Pending
<1>2. calls \in Pending(job.name)
  BY DEF PlaceInv
<1>3. Tail(calls) \in Pending(job.name) /\ (Len(calls) = 1 <=> Tail(calls) = <<>>)
  BY <1>1, <1>2, HeadIsFunction
<1>4. \/ calls' = <<>> /\ at' = JobDone
      \/ calls' = Tail(calls) /\ at' = IF Len(calls) = 1 THEN JobDone ELSE 1
  BY DEF Returns
<1>5. calls' # <<>> /\ calls' \in Pending(job.name) => Head(calls') \in RemoteFunctions
  BY <1>1, HeadIsFunction
<1> QED BY <1>1, <1>3, <1>4, <1>5

\* The library calls of the function that runs.
LEMMA StepsAre ==
    ASSUME PlaceInv, calls # <<>>
    PROVE  /\ Head(calls) \in RemoteFunctions /\ Steps = StepsOf(Head(calls), job.build)
           /\ job.build \in {"libssh", "fork"} /\ Len(Steps) \in Nat /\ Len(Steps) >= 1
<1>1. job.name \in {"execute", "upgrade", "log"} /\ job.build \in {"libssh", "fork"}
  BY DEF PlaceInv, Jobs, Builds
<1>2. Head(calls) \in RemoteFunctions
  BY <1>1, HeadIsFunction DEF PlaceInv
<1>3. Steps = StepsOf(Head(calls), job.build)
  BY DEF Steps, StepsOf
<1>4. CASE job.build = "libssh"
  <2>1. Len(Steps) \in Nat /\ Len(Steps) >= 4
    BY <1>2, <1>3, <1>4, ErrorPathsRelease
  <2> QED BY <1>1, <1>2, <1>3, <2>1
<1>5. CASE job.build = "fork"
  <2>1. Len(Steps) \in Nat /\ Len(Steps) >= 1
    BY <1>2, <1>3, <1>5, ForkTakes
  <2> QED BY <1>1, <1>2, <1>3, <2>1
<1> QED BY <1>1, <1>4, <1>5

\* A function that returns with nothing but the pipe in its hands leaves the job
\* where the next one can start.
LEMMA ReturnKeepsPlace ==
    ASSUME PlaceInv, calls # <<>>, NEW v, Returns(v), UNCHANGED job,
           owned' = {} \/ (job.build = "fork" /\ owned' \subseteq {"pipe"})
    PROVE  PlaceInv' /\ OwnedInv'
<1>1. /\ calls' \in Pending(job.name)
      /\ \/ calls' = <<>> /\ at' = JobDone
         \/ calls' # <<>> /\ at' = 1 /\ Head(calls') \in RemoteFunctions
  BY ReturnMoves
<1>2. job \in Jobs /\ job' = job /\ job.build \in {"libssh", "fork"}
  BY DEF PlaceInv, Jobs, Builds
<1>3. CASE calls' = <<>> /\ at' = JobDone
  <2>1. PlaceInv'
    BY <1>1, <1>2, <1>3 DEF PlaceInv, JobDone, JobThrew
  <2>2. OwnedInv'
    BY <1>2, <1>3 DEF OwnedInv, LibraryInv, ProcessInv, JobDone
  <2> QED BY <2>1, <2>2
<1>4. CASE calls' # <<>> /\ at' = 1 /\ Head(calls') \in RemoteFunctions
  <2>1. PICK s : s = Steps'
    OBVIOUS
  <2>2. s = StepsOf(Head(calls'), job.build)
    BY <1>2, <2>1 DEF Steps, StepsOf
  <2>3. Len(s) \in Nat /\ Len(s) >= 1
    <3>1. job.build = "libssh" => Len(s) \in Nat /\ Len(s) >= 4
      BY <1>4, <2>2, ErrorPathsRelease
    <3>2. job.build = "fork" => Len(s) \in Nat /\ Len(s) >= 1
      BY <1>4, <2>2, ForkTakes
    <3> QED BY <1>2, <3>1, <3>2
  <2>4. PlaceInv'
    <3>1. (at \in 1 .. Len(Steps) + 1)'
      BY <1>4, <2>1, <2>3
    <3> QED BY <1>1, <1>2, <1>4, <3>1 DEF PlaceInv, JobDone, JobThrew
  <2>5. OwnedInv'
    <3>1. at' # JobDone /\ ~(at' >= 3)
      BY <1>4 DEF JobDone
    <3>2. job.build = "libssh" => owned' = {}
      OBVIOUS
    <3>3. owned' \subseteq {"pipe"}
      OBVIOUS
    <3> QED BY <1>2, <3>1, <3>2, <3>3 DEF OwnedInv, LibraryInv, ProcessInv
  <2> QED BY <2>4, <2>5
<1> QED BY <1>1, <1>3, <1>4

\* What a function may answer, for the answer of the job to be true.
LEMMA ReturnKeepsMoved ==
    ASSUME PlaceInv, MovedInv, calls # <<>>, NEW v, Returns(v), UNCHANGED <<job, size>>,
           moved' \in {moved, size},
           Head(calls) = "execute" => v # "true",
           Head(calls) = "upload" => v = "false" \/ moved' = size,
           Head(calls) = "download" => v # "true" \/ moved' = size \/ size > MaxInt \/ told'
    PROVE  MovedInv'
<1>1. job.name \in {"execute", "upgrade", "log"} /\ job' = job /\ size' = size
  BY DEF PlaceInv, Jobs
<1>2. size \in Nat /\ moved' \in Nat /\ moved' <= size
  BY DEF MovedInv
<1>3. /\ Head(calls) \in RemoteFunctions
      /\ Head(calls) = "upload" => job.name = "upgrade" /\ calls = <<"upload", "execute", "execute">>
      /\ Head(calls) = "download" => job.name = "log" /\ calls = <<"download">>
  BY <1>1, HeadIsFunction DEF PlaceInv
<1>4. CASE job.name = "upgrade"
  <2>1. /\ Head(calls) = "upload" /\ v = "false" => calls' = <<>> /\ value' = "false"
        /\ Head(calls) = "upload" /\ v # "false" => calls' = <<"execute", "execute">>
    <3>1. Head(calls) = "upload" => Len(calls) # 1 /\ Tail(calls) = <<"execute", "execute">>
      <4>1. Len(<<"upload", "execute", "execute">>) # 1
        OBVIOUS
      <4>2. Tail(<<"upload", "execute", "execute">>) = <<"execute", "execute">>
        OBVIOUS
      <4> QED BY <1>3, <4>1, <4>2, Zenon
    <3>2. CASE Head(calls) = "upload" /\ v = "false"
      BY <1>4, <3>1, <3>2 DEF Returns
    <3>3. CASE Head(calls) = "upload" /\ v # "false"
      BY <1>4, <3>1, <3>3 DEF Returns
    <3> QED BY <3>2, <3>3
  <2>2. Head(calls) # "upload" => moved = size
    <3>1. calls \in {<<>>, <<"execute">>, <<"execute", "execute">>,
                      <<"upload", "execute", "execute">>}
      BY <1>4 DEF PlaceInv, Pending
    <3> QED BY <1>4, <3>1, ListFacts DEF MovedInv
  <2>3. moved' = size \/ (calls' = <<>> /\ value' = "false")
    BY <1>3, <2>1, <2>2
  <2>4. TrueMeansWhole'
    BY <1>1, <2>3 DEF TrueMeansWhole
  <2>5. calls' = <<>> => calls' \notin {<<"execute">>, <<"execute", "execute">>}
    BY ListFacts
  <2> QED BY <1>1, <1>2, <2>3, <2>4, <2>5 DEF MovedInv
<1>5. CASE job.name # "upgrade"
  <2>1. value' = v /\ calls' = Tail(calls) /\ at' = IF Len(calls) = 1 THEN JobDone ELSE 1
    BY <1>5 DEF Returns
  <2>2. v = "true" => Head(calls) = "download"
    BY <1>3, <1>5 DEF RemoteFunctions
  <2>3. TrueMeansWhole'
    BY <1>1, <1>3, <2>1, <2>2 DEF TrueMeansWhole
  <2> QED BY <1>1, <1>2, <1>5, <2>3 DEF MovedInv
<1> QED BY <1>4, <1>5

\* Every step of a job keeps the invariant.
LEMMA ShellStepKeeps ==
    ASSUME ShellInv, ShellStep \/ HangsUp
    PROVE  ShellInv'
<1>0. PlaceInv /\ OwnedInv /\ MovedInv
  BY DEF ShellInv
<1>1. ASSUME calls # <<>>
      PROVE  /\ Head(calls) \in RemoteFunctions /\ Steps = StepsOf(Head(calls), job.build)
             /\ job.build \in {"libssh", "fork"} /\ Len(Steps) \in Nat /\ Len(Steps) >= 1
  BY <1>0, <1>1, StepsAre
<1>2. CASE CallSucceeds
  <2>1. /\ calls # <<>> /\ at \in 1 .. Len(Steps) /\ ~SessionMissing
        /\ owned' = owned \cup Steps[at].takes /\ at' = at + 1
        /\ UNCHANGED <<job, calls, size, moved, told, hungUp, path, value>>
    BY <1>2 DEF CallSucceeds
  <2>2. Steps' = Steps
    BY <2>1 DEF Steps
  <2>3. /\ Head(calls) \in RemoteFunctions /\ Steps = StepsOf(Head(calls), job.build)
        /\ job.build \in {"libssh", "fork"} /\ Len(Steps) \in Nat /\ Len(Steps) >= 1
    BY <1>1, <2>1
  <2>4. at \in Int /\ at >= 1 /\ at <= Len(Steps) /\ at' \in Int /\ at' >= 2 /\ at' <= Len(Steps) + 1
    BY <2>1, <2>3
  <2>5. PlaceInv'
    <3>1. at' # JobDone /\ at' # JobThrew /\ at' \in 1 .. Len(Steps) + 1
      BY <2>3, <2>4 DEF JobDone, JobThrew
    <3> QED BY <1>0, <2>1, <2>2, <2>4, <3>1 DEF PlaceInv
  <2>6. OwnedInv'
    <3>1. CASE job.build = "libssh"
      <4>1. /\ Len(Steps) >= 4
            /\ Steps[1].takes = {"session"} /\ Steps[1].undo = {}
            /\ Steps[2].takes = {"login"} /\ Steps[2].undo = {"session"} /\ Steps[3].takes = {}
            /\ \A i \in 1 .. Len(Steps) - 1 :
                  Steps[i].undo \cup Steps[i].takes \subseteq Steps[i + 1].undo
        BY <2>3, <3>1, ErrorPathsRelease
      <4>2. owned \subseteq Steps[at].undo /\ (at >= 3 => {"session", "login"} \subseteq owned)
        BY <1>0, <2>1, <3>1 DEF OwnedInv, LibraryInv
      <4>3. at' <= Len(Steps) => owned' \subseteq Steps[at'].undo
        <5>1. at' <= Len(Steps) => at \in 1 .. Len(Steps) - 1
          BY <2>1, <2>3, <2>4
        <5>2. at' <= Len(Steps) => Steps[at].undo \cup Steps[at].takes \subseteq Steps[at + 1].undo
          BY <4>1, <5>1
        <5> QED BY <2>1, <4>2, <5>2
      <4>4. at' >= 3 => {"session", "login"} \subseteq owned'
        <5>1. at = 1 => ~(at' >= 3)
          BY <2>1
        <5>2. at = 2 => {"session", "login"} \subseteq owned'
          BY <2>1, <3>1, <4>1 DEF SessionMissing
        <5>3. at >= 3 => {"session", "login"} \subseteq owned'
          BY <2>1, <4>2
        <5>4. at = 1 \/ at = 2 \/ at >= 3
          BY <2>4
        <5> QED BY <5>1, <5>2, <5>3, <5>4
      <4>5. owned' \cap {"channel", "scp"} # {} => {"login", "session"} \subseteq owned'
        <5>1. at = 1 => owned' \cap {"channel", "scp"} = {}
          BY <2>1, <4>1, <4>2
        <5>2. at = 2 => owned' \cap {"channel", "scp"} = {}
          BY <2>1, <4>1, <4>2
        <5>3. at >= 3 => {"session", "login"} \subseteq owned'
          BY <2>1, <4>2
        <5>4. at = 1 \/ at = 2 \/ at >= 3
          BY <2>4
        <5> QED BY <5>1, <5>2, <5>3, <5>4
      <4>6. LibraryInv'
        <5>1. at' # JobDone /\ (at' \in 1 .. Len(Steps) => at' <= Len(Steps))
          BY <2>4 DEF JobDone
        <5> QED BY <2>2, <4>3, <4>4, <5>1 DEF LibraryInv
      <4>7. job'.build = "libssh"
        BY <2>1, <3>1
      <4> QED BY <4>5, <4>6, <4>7 DEF OwnedInv
    <3>2. CASE job.build = "fork"
      <4>1. /\ \A i \in 1 .. Len(Steps) :
                  Steps[i].undo = {} /\ Steps[i].takes \subseteq {"pipe", "child"}
            /\ \A i \in 1 .. Len(Steps) - 1 : Steps[i].takes = {"pipe"}
        BY <2>3, <3>2, ForkTakes
      <4>2. owned \subseteq {"pipe"}
        BY <1>0, <2>1, <3>2 DEF OwnedInv, ProcessInv
      <4>3. owned' \subseteq {"pipe", "child"}
        BY <2>1, <4>1, <4>2
      <4>4. at' \in 1 .. Len(Steps) => owned' \subseteq {"pipe"}
        <5>1. at' \in 1 .. Len(Steps) => at \in 1 .. Len(Steps) - 1
          BY <2>1, <2>3, <2>4
        <5> QED BY <2>1, <4>1, <4>2, <5>1
      <4>5. ProcessInv'
        <5>1. at' # JobDone
          BY <2>4 DEF JobDone
        <5> QED BY <2>2, <4>3, <4>4, <5>1 DEF ProcessInv
      <4>6. job'.build = "fork"
        BY <2>1, <3>2
      <4> QED BY <4>3, <4>5, <4>6 DEF OwnedInv
    <3> QED BY <2>3, <3>1, <3>2
  <2>7. MovedInv'
    <3>1. TrueMeansWhole'
      BY <2>4 DEF TrueMeansWhole, JobDone
    <3> QED BY <1>0, <2>1, <3>1 DEF MovedInv
  <2> QED BY <2>5, <2>6, <2>7 DEF ShellInv
<1>3. CASE CallFails
  <2>1. /\ calls # <<>> /\ at \in 1 .. Len(Steps)
        /\ UNCHANGED <<job, size, moved, told, hungUp>>
    BY <1>3 DEF CallFails
  <2>2. /\ Head(calls) \in RemoteFunctions /\ Steps = StepsOf(Head(calls), job.build)
        /\ job.build \in {"libssh", "fork"} /\ Len(Steps) \in Nat /\ Len(Steps) >= 1
    BY <1>1, <2>1
  <2>3. CASE Head(calls) = "upload" /\ at = 1 /\ job.build = "libssh"
    <3>1. at' = 2 /\ UNCHANGED <<owned, calls, value, path>>
      BY <1>3, <2>3 DEF CallFails
    <3>2. Steps' = Steps
      BY <2>1, <3>1 DEF Steps
    <3>3. Len(Steps) >= 4 /\ Steps[1].undo = {}
      BY <2>2, <2>3, ErrorPathsRelease
    <3>4. owned = {}
      BY <1>0, <2>1, <2>3, <3>3 DEF OwnedInv, LibraryInv
    <3>5. at' # JobDone /\ at' # JobThrew /\ ~(at' >= 3) /\ at' \in Int /\ at' \in 1 .. Len(Steps) + 1
      BY <2>2, <3>1, <3>3 DEF JobDone, JobThrew
    <3>6. PlaceInv'
      BY <1>0, <2>1, <3>1, <3>2, <3>5 DEF PlaceInv
    <3>7. OwnedInv'
      BY <2>1, <2>3, <3>1, <3>4, <3>5 DEF OwnedInv, LibraryInv
    <3>8. MovedInv'
      <4>1. TrueMeansWhole'
        BY <3>5 DEF TrueMeansWhole
      <4> QED BY <1>0, <2>1, <3>1, <4>1 DEF MovedInv
    <3> QED BY <3>6, <3>7, <3>8 DEF ShellInv
  <2>4. CASE ~(Head(calls) = "upload" /\ at = 1 /\ job.build = "libssh")
    <3>1. owned' = owned \ Steps[at].undo /\ Returns(Failed)
      BY <1>3, <2>4 DEF CallFails
    <3>2. owned' = {} \/ (job.build = "fork" /\ owned' \subseteq {"pipe"})
      <4>1. CASE job.build = "libssh"
        BY <1>0, <2>1, <3>1, <4>1 DEF OwnedInv, LibraryInv
      <4>2. CASE job.build = "fork"
        BY <1>0, <2>1, <3>1, <4>2 DEF OwnedInv, ProcessInv
      <4> QED BY <2>2, <4>1, <4>2
    <3>3. PlaceInv' /\ OwnedInv'
      BY <1>0, <2>1, <3>1, <3>2, ReturnKeepsPlace
    <3>4. /\ Failed # "true" /\ (Head(calls) = "upload" => Failed = "false")
      BY DEF Failed
    <3>5. MovedInv'
      <4>1. moved' \in {moved, size} /\ UNCHANGED <<job, size>>
        BY <2>1
      <4> QED BY <1>0, <2>1, <3>1, <3>4, <4>1, ReturnKeepsMoved
    <3> QED BY <3>3, <3>5 DEF ShellInv
  <2> QED BY <2>3, <2>4
<1>4. CASE Output
  <2>1. PICK v \in (IF Head(calls) = "execute" THEN {"output", "nothing"} ELSE {"true", "false"}) :
          Finish(v) /\ moved' = IF v = "true" THEN size ELSE moved
    BY <1>4 DEF Output
  <2>2. calls # <<>> /\ UNCHANGED <<job, size, told, hungUp>>
    BY <1>4 DEF Output, Moving
  <2>3. owned' = {} /\ Returns(v)
    BY <2>1 DEF Finish
  <2>4. PlaceInv' /\ OwnedInv'
    BY <1>0, <2>2, <2>3, ReturnKeepsPlace
  <2>5. MovedInv'
    <3>1. moved' \in {moved, size} /\ UNCHANGED <<job, size>>
      BY <2>1, <2>2
    <3>2. /\ Head(calls) = "execute" => v # "true"
          /\ Head(calls) = "upload" => v = "false" \/ moved' = size
          /\ Head(calls) = "download" => v # "true" \/ moved' = size
      BY <2>1
    <3> QED BY <1>0, <2>2, <2>3, <3>1, <3>2, ReturnKeepsMoved
  <2> QED BY <2>4, <2>5 DEF ShellInv
<1>5. ASSUME Transfers
      PROVE  /\ calls # <<>> /\ at = Len(Steps) + 1 /\ job.build = "libssh"
             /\ Head(calls) \in {"download", "upload"}
             /\ Limit \in Int /\ Limit <= size /\ (size <= MaxInt => Limit = size)
             /\ (Head(calls) = "upload" => Limit = size)
  <2>1. size \in Nat /\ MaxInt \in Nat
    BY <1>0, ShellSizes DEF MovedInv
  <2>2. FileSize \in Int /\ FileSize <= size /\ (size <= MaxInt => FileSize = size)
    BY <2>1 DEF FileSize
  <2>3. calls # <<>> /\ at = Len(Steps) + 1 /\ job.build = "libssh" /\ Head(calls) \in {"download", "upload"}
    BY <1>5 DEF Transfers, Moving
  <2> QED BY <2>1, <2>2, <2>3 DEF Limit
<1>6. CASE MoveChunk
  <2>1. /\ Transfers /\ moved < Limit /\ moved' = moved + 1
        /\ UNCHANGED <<job, calls, at, owned, size, told, hungUp, path, value>>
    BY <1>6 DEF MoveChunk
  <2>2. Steps' = Steps
    BY <2>1 DEF Steps
  <2>3. PlaceInv'
    BY <1>0, <2>1, <2>2 DEF PlaceInv
  <2>4. OwnedInv'
    BY <1>0, <2>1, <2>2 DEF OwnedInv, LibraryInv, ProcessInv
  <2>5. MovedInv'
    <3>1. calls # <<>> /\ Head(calls) \in {"download", "upload"} /\ Limit \in Int /\ Limit <= size
      BY <1>5, <2>1
    <3>2. moved' \in Nat /\ moved' <= size
      BY <1>0, <2>1, <3>1 DEF MovedInv
    <3>3. at' # JobDone
      BY <1>0, <2>1, <3>1 DEF PlaceInv
    <3>4. calls \notin {<<"execute">>, <<"execute", "execute">>}
      BY <3>1, ListFacts
    <3>5. TrueMeansWhole'
      BY <3>3 DEF TrueMeansWhole
    <3>6. size' = size /\ calls' = calls /\ size \in Nat
      BY <1>0, <2>1 DEF MovedInv
    <3> QED BY <3>2, <3>4, <3>5, <3>6 DEF MovedInv
  <2> QED BY <2>3, <2>4, <2>5 DEF ShellInv
<1>7. CASE MoveFails
  <2>1. Transfers /\ UNCHANGED <<job, size, moved, hungUp>>
    BY <1>7 DEF MoveFails
  <2>2. calls # <<>> /\ job.build = "libssh" /\ Head(calls) \in {"download", "upload"}
    BY <1>5, <2>1
  <2>3. CASE ~job.callback
    <3>1. at' = JobThrew /\ owned' = owned \ {"file"} /\ UNCHANGED <<calls, told, path, value>>
      BY <1>7, <2>3 DEF MoveFails
    <3>2. at' = -1 /\ at' # JobDone /\ ~(at' >= 3) /\ (\A n \in Int : at' \notin 1 .. n)
      BY <3>1 DEF JobThrew, JobDone
    <3>3. PlaceInv'
      BY <1>0, <2>1, <2>2, <2>3, <3>1, <3>2 DEF PlaceInv
    <3>4. OwnedInv'
      <4>1. Len(Steps') \in Int
        <5>1. Steps' = Steps
          BY <2>1, <3>1 DEF Steps
        <5> QED BY <1>1, <2>2, <5>1
      <4>2. LibraryInv'
        BY <3>2, <4>1 DEF LibraryInv
      <4>3. owned' \cap {"channel", "scp"} # {} => {"login", "session"} \subseteq owned'
        BY <1>0, <3>1 DEF OwnedInv
      <4>4. job'.build = "libssh"
        BY <2>1, <2>2
      <4> QED BY <4>2, <4>3, <4>4 DEF OwnedInv
    <3>5. MovedInv'
      <4>1. TrueMeansWhole'
        BY <3>2 DEF TrueMeansWhole
      <4> QED BY <1>0, <2>1, <3>1, <4>1 DEF MovedInv
    <3> QED BY <3>3, <3>4, <3>5 DEF ShellInv
  <2>4. CASE job.callback
    <3>1. PICK v : v = IF Head(calls) = "download" THEN "true" ELSE "false"
      OBVIOUS
    <3>2. told' = TRUE /\ owned' = {} /\ Returns(v)
      BY <1>7, <2>4, <3>1 DEF MoveFails, Finish
    <3>3. PlaceInv' /\ OwnedInv'
      BY <1>0, <2>1, <2>2, <3>2, ReturnKeepsPlace
    <3>4. MovedInv'
      <4>1. moved' \in {moved, size} /\ UNCHANGED <<job, size>>
        BY <2>1
      <4>2. Head(calls) # "execute" /\ (Head(calls) = "upload" => v = "false") /\ told'
        BY <2>2, <3>1, <3>2
      <4> QED BY <1>0, <2>2, <3>2, <4>1, <4>2, ReturnKeepsMoved
    <3> QED BY <3>3, <3>4 DEF ShellInv
  <2> QED BY <2>3, <2>4
<1>8. CASE MoveEnds
  <2>1. /\ Transfers /\ moved >= Limit /\ owned' = {} /\ Returns("true")
        /\ UNCHANGED <<job, size, moved, told, hungUp>>
    BY <1>8 DEF MoveEnds, Finish
  <2>2. /\ calls # <<>> /\ Head(calls) \in {"download", "upload"} /\ Limit \in Int
        /\ (size <= MaxInt => Limit = size) /\ (Head(calls) = "upload" => Limit = size)
    BY <1>5, <2>1
  <2>3. PlaceInv' /\ OwnedInv'
    BY <1>0, <2>1, <2>2, ReturnKeepsPlace
  <2>4. MovedInv'
    <3>1. moved' = moved /\ moved' \in {moved, size} /\ UNCHANGED <<job, size>>
      BY <2>1
    <3>2. size \in Nat /\ moved \in Nat /\ moved <= size /\ MaxInt \in Nat
      BY <1>0, ShellSizes DEF MovedInv
    <3>3. Limit = size => moved = size
      BY <2>1, <3>2
    <3>4. size > MaxInt \/ size <= MaxInt
      BY <3>2
    <3>5. /\ Head(calls) # "execute" /\ (Head(calls) = "upload" => moved' = size)
          /\ moved' = size \/ size > MaxInt
      BY <2>2, <3>1, <3>3, <3>4
    <3> QED BY <1>0, <2>1, <2>2, <3>1, <3>5, ReturnKeepsMoved
  <2> QED BY <2>3, <2>4 DEF ShellInv
<1>9. CASE HangsUp
  <2>1. UNCHANGED <<job, calls, at, owned, size, moved, told, path, value>>
    BY <1>9 DEF HangsUp
  <2>2. Steps' = Steps
    BY <2>1 DEF Steps
  <2>3. PlaceInv'
    BY <1>0, <2>1, <2>2 DEF PlaceInv
  <2>4. OwnedInv'
    BY <1>0, <2>1, <2>2 DEF OwnedInv, LibraryInv, ProcessInv
  <2>5. MovedInv'
    BY <1>0, <2>1 DEF MovedInv, TrueMeansWhole
  <2> QED BY <2>3, <2>4, <2>5 DEF ShellInv
<1> QED BY <1>2, <1>3, <1>4, <1>6, <1>7, <1>8, <1>9 DEF ShellStep

\* The first function of a job starts with nothing taken.
LEMMA ShellStarts ==
    ASSUME ShellInit
    PROVE  ShellInv
<1>1. /\ job \in Jobs /\ calls = CallsOf(job) /\ at = 1 /\ owned = {} /\ moved = 0
      /\ size \in FileSizes
  BY DEF ShellInit
<1>2. job.name \in {"execute", "upgrade", "log"}
  BY <1>1 DEF Jobs
<1>3. calls \in Pending(job.name) /\ calls # <<>>
  <2>1. job.name = "execute" => calls = <<"execute">> /\ <<"execute">> \in Pending(job.name)
    BY <1>1 DEF CallsOf, Pending
  <2>2. job.name = "upgrade" =>
          calls = <<"upload", "execute", "execute">> /\ <<"upload", "execute", "execute">> \in Pending(job.name)
    BY <1>1 DEF CallsOf, Pending
  <2>3. job.name = "log" =>
          calls = <<"execute", "download">> /\ <<"execute", "download">> \in Pending(job.name)
    BY <1>1 DEF CallsOf, Pending
  <2> QED BY <1>2, <2>1, <2>2, <2>3, ListFacts
<1>4. /\ Head(calls) \in RemoteFunctions /\ Steps = StepsOf(Head(calls), job.build)
      /\ job.build \in {"libssh", "fork"}
  <2>1. Head(calls) \in RemoteFunctions
    BY <1>2, <1>3, HeadIsFunction
  <2> QED BY <1>1, <2>1 DEF Steps, StepsOf, Jobs, Builds
<1>5. Len(Steps) \in Nat /\ Len(Steps) >= 1
  <2>1. job.build = "libssh" => Len(Steps) \in Nat /\ Len(Steps) >= 4
    BY <1>4, ErrorPathsRelease
  <2>2. job.build = "fork" => Len(Steps) \in Nat /\ Len(Steps) >= 1
    BY <1>4, ForkTakes
  <2> QED BY <1>4, <2>1, <2>2
<1>6. at # JobDone /\ at # JobThrew /\ ~(at >= 3) /\ at \in 1 .. Len(Steps) + 1 /\ at \in Int
  BY <1>1, <1>5 DEF JobDone, JobThrew
<1>7. PlaceInv
  BY <1>1, <1>3, <1>6 DEF PlaceInv
<1>8. OwnedInv
  BY <1>1, <1>6 DEF OwnedInv, LibraryInv, ProcessInv
<1>9. MovedInv
  <2>1. size \in Nat
    BY <1>1, ShellSizes
  <2>2. 0 <= size
    BY <2>1
  <2>3. job.name = "upgrade" => calls = <<"upload", "execute", "execute">>
    BY <1>1 DEF CallsOf
  <2>4. job.name = "upgrade" => calls \notin {<<"execute">>, <<"execute", "execute">>}
    BY <2>3, ListFacts
  <2>5. TrueMeansWhole
    BY <1>6 DEF TrueMeansWhole
  <2> QED BY <1>1, <2>1, <2>2, <2>4, <2>5 DEF MovedInv
<1> QED BY <1>7, <1>8, <1>9 DEF ShellInv

\* For files of any size and an int of any width: whichever library call fails, the
\* functions of SshUtils.cpp have released what they took when they return, and an upgrade
\* or a log that is answered with true was moved as a whole, with the exceptions that
\* NothingLeaks and TrueMeansWhole name.
THEOREM JobsLeaveNothing == ShellSpec => []JobsAreClean
<1>1. ShellInit => ShellInv
  BY ShellStarts
<1>2. ShellInv /\ [ShellStep \/ HangsUp]_shellVars => ShellInv'
  <2>1. ASSUME ShellInv, UNCHANGED shellVars PROVE ShellInv'
    <3>1. UNCHANGED <<job, calls, at, owned, size, moved, told, hungUp, path, value>>
      BY <2>1 DEF shellVars
    <3>2. Steps' = Steps
      BY <3>1 DEF Steps
    <3>3. PlaceInv'
      BY <2>1, <3>1, <3>2 DEF ShellInv, PlaceInv
    <3>4. OwnedInv'
      BY <2>1, <3>1, <3>2 DEF ShellInv, OwnedInv, LibraryInv, ProcessInv
    <3>5. MovedInv'
      BY <2>1, <3>1 DEF ShellInv, MovedInv, TrueMeansWhole
    <3> QED BY <3>3, <3>4, <3>5 DEF ShellInv
  <2> QED BY <2>1, ShellStepKeeps
<1>3. ShellInv => JobsAreClean
  <2>1. ASSUME ShellInv PROVE NothingLeaks
    <3>1. job.build \in {"libssh", "fork"}
      BY <2>1 DEF ShellInv, PlaceInv, Jobs, Builds
    <3>2. at = JobDone => owned \subseteq {"pipe"} /\ (job.build = "libssh" => owned = {})
      BY <2>1, <3>1 DEF ShellInv, OwnedInv, LibraryInv, ProcessInv
    <3> QED BY <2>1, <3>2 DEF ShellInv, OwnedInv, PlaceInv, NothingLeaks
  <2> QED BY <2>1 DEF ShellInv, MovedInv, JobsAreClean
<1> QED BY <1>1, <1>2, <1>3, PTL DEF ShellSpec

---------------------------------------------------------------------------
(* ClassLoader, ClassRegistry and SharedLibrary.                            *)

PluginSpec == PluginInit /\ [][PluginNext]_pluginVars

Codes == Libraries \X Nat

\* The types; a loader that has loaded its library has a handle of it.
PluginTypes ==
    /\ loader \in [Loaders -> {"new", "loaded", "failed", "gone"}]
    /\ handle \in [Loaders -> BOOLEAN]
    /\ refs \in [Libraries -> Nat] /\ mapping \in [Libraries -> Nat] /\ leaked \in [Libraries -> Nat]
    /\ registry \in [Classes -> Codes \cup {NoFactory}]
    /\ IsFiniteSet(instances)
    /\ instances \subseteq [id : Nat, code : Codes, ready : BOOLEAN]
    /\ \A d \in Loaders : loader[d] = "loaded" => handle[d]

\* Every reference has a loader that holds it, or was lost.
RefsCounted == \A l \in Libraries : refs[l] = Cardinality(Holders(l)) + leaked[l]

\* A library that was mapped once has its classes in the registry.
Registered ==
    \A l \in Libraries :
        /\ refs[l] > 0 => mapping[l] > 0
        /\ mapping[l] > 0 => \A c \in ClassesOf[l] : registry[c] # NoFactory

\* Code is of a mapping that was there.
WasMapped(code) == 1 <= code[2] /\ code[2] <= mapping[code[1]]

CodeWasMapped ==
    /\ \A c \in Classes : registry[c] # NoFactory => WasMapped(registry[c])
    /\ \A i \in instances : WasMapped(i.code)

\* A library has gone, or has gone and come again.
SomeGone == \E l \in Libraries : mapping[l] > 1 \/ (mapping[l] = 1 /\ refs[l] = 0)

PluginInv ==
    /\ PluginTypes /\ RefsCounted /\ Registered /\ CodeWasMapped
    /\ wild => SomeGone
    /\ answer = "OK" => \E i \in instances : i.ready

\* There are finitely many holders of a library, so a holder is a reference.
LEMMA HoldersAreCounted ==
    ASSUME NEW l \in Libraries
    PROVE  /\ IsFiniteSet(Holders(l)) /\ Cardinality(Holders(l)) \in Nat
           /\ \A d \in Holders(l) : Cardinality(Holders(l)) >= 1
<1>1. IsFiniteSet(Holders(l))
  BY PluginFiles, FS_Subset DEF Holders
<1>2. Cardinality(Holders(l)) \in Nat
  BY <1>1, FS_CardinalityType
<1>3. ASSUME NEW d \in Holders(l) PROVE Cardinality(Holders(l)) >= 1
  <2>1. Holders(l) # {}
    OBVIOUS
  <2>2. Cardinality(Holders(l)) # 0
    BY <1>1, <2>1, FS_EmptySet
  <2> QED BY <1>2, <2>2
<1> QED BY <1>1, <1>2, <1>3

\* A loader takes a handle.
LEMMA HolderAdded ==
    ASSUME PluginTypes, NEW d \in Loaders, handle' = [handle EXCEPT ![d] = TRUE],
           NEW l \in Libraries
    PROVE  Cardinality(Holders(l)') = IF l = LibOf[d] /\ ~handle[d] THEN Cardinality(Holders(l)) + 1
                                      ELSE Cardinality(Holders(l))
<1>1. Holders(l)' = IF l = LibOf[d] THEN Holders(l) \cup {d} ELSE Holders(l)
  BY DEF PluginTypes, Holders
<1>2. d \in Holders(l) <=> l = LibOf[d] /\ handle[d]
  BY DEF Holders
<1> QED BY <1>1, <1>2, HoldersAreCounted, FS_AddElement

\* A loader gives its handle up.
LEMMA HolderRemoved ==
    ASSUME PluginTypes, NEW d \in Loaders, handle' = [handle EXCEPT ![d] = FALSE],
           NEW l \in Libraries
    PROVE  Cardinality(Holders(l)') = IF l = LibOf[d] /\ handle[d] THEN Cardinality(Holders(l)) - 1
                                      ELSE Cardinality(Holders(l))
<1>1. Holders(l)' = IF l = LibOf[d] THEN Holders(l) \ {d} ELSE Holders(l)
  BY DEF PluginTypes, Holders
<1>2. d \in Holders(l) <=> l = LibOf[d] /\ handle[d]
  BY DEF Holders
<1> QED BY <1>1, <1>2, HoldersAreCounted, FS_RemoveElement

\* A library is mapped, or not: the registry keeps what it has.
LEMMA LibraryMapped ==
    ASSUME PluginInv, NEW l \in Libraries, LoadLibrary(l) \/ UNCHANGED <<mapping, registry>>,
           UNCHANGED instances
    PROVE  /\ mapping' \in [Libraries -> Nat] /\ registry' \in [Classes -> Codes \cup {NoFactory}]
           /\ \A m \in Libraries : mapping'[m] >= mapping[m]
           /\ \A m \in Libraries : mapping'[m] > 0 => \A c \in ClassesOf[m] : registry'[c] # NoFactory
           /\ LoadLibrary(l) => mapping'[l] > 0 /\ (refs[l] = 0 => mapping'[l] = mapping[l] + 1)
           /\ CodeWasMapped'
           /\ \A m \in Libraries \ {l} : mapping'[m] = mapping[m]
<1>0. PluginTypes /\ Registered /\ CodeWasMapped
  BY DEF PluginInv
<1>1. CASE UNCHANGED <<mapping, registry>>
  <2>1. ~(refs[l] = 0 /\ LoadLibrary(l))
    BY <1>0, <1>1 DEF LoadLibrary, PluginTypes
  <2> QED BY <1>0, <1>1, <2>1 DEF PluginTypes, Registered, CodeWasMapped, WasMapped
<1>2. CASE LoadLibrary(l) /\ refs[l] = 0
  <2>1. /\ mapping' = [mapping EXCEPT ![l] = @ + 1]
        /\ registry' = [c \in Classes |->
              IF c \in ClassesOf[l] THEN RegisterClass(c, <<l, mapping[l] + 1>>) ELSE registry[c]]
    BY <1>2 DEF LoadLibrary
  <2>2. PICK code : code = <<l, mapping[l] + 1>>
    OBVIOUS
  <2>3. code \in Codes /\ code # NoFactory /\ code[1] = l /\ code[2] = mapping[l] + 1
    BY <1>0, <2>2, PluginFiles DEF PluginTypes, Codes
  <2>4. /\ DOMAIN registry' = Classes
        /\ \A c \in Classes :
             registry'[c] = IF c \in ClassesOf[l] /\ registry[c] = NoFactory THEN code ELSE registry[c]
    BY <2>1, <2>2 DEF RegisterClass
  <2>5. /\ mapping' \in [Libraries -> Nat] /\ mapping'[l] = mapping[l] + 1
        /\ \A m \in Libraries \ {l} : mapping'[m] = mapping[m]
    BY <1>0, <2>1 DEF PluginTypes
  <2>6. registry' \in [Classes -> Codes \cup {NoFactory}]
    BY <1>0, <2>1, <2>2, <2>3 DEF PluginTypes, RegisterClass
  <2>7. mapping[l] \in Nat /\ \A m \in Libraries : mapping'[m] \in Nat /\ mapping'[m] >= mapping[m]
    BY <1>0, <2>5 DEF PluginTypes
  <2>8. ASSUME NEW m \in Libraries, mapping'[m] > 0, NEW c \in ClassesOf[m]
        PROVE  registry'[c] # NoFactory
    <3>1. c \in Classes
      BY DEF Classes
    <3>2. CASE m = l
      BY <2>3, <2>4, <3>1, <3>2
    <3>3. CASE m # l
      BY <1>0, <2>3, <2>4, <2>5, <2>8, <3>1, <3>3 DEF Registered
    <3> QED BY <3>2, <3>3
  <2>9. ASSUME NEW k \in Codes, WasMapped(k) PROVE 1 <= k[2] /\ k[2] <= mapping'[k[1]]
    <3>1. k[1] \in Libraries /\ k[2] \in Nat
      BY DEF Codes
    <3>2. mapping[k[1]] \in Nat /\ mapping'[k[1]] \in Nat /\ mapping'[k[1]] >= mapping[k[1]]
      BY <1>0, <2>7, <3>1 DEF PluginTypes
    <3> QED BY <2>9, <3>1, <3>2 DEF WasMapped
  <2>10. CodeWasMapped'
    <3>1. ASSUME NEW c \in Classes, registry'[c] # NoFactory
          PROVE  1 <= registry'[c][2] /\ registry'[c][2] <= mapping'[registry'[c][1]]
      <4>1. CASE registry'[c] = code
        BY <2>3, <2>5, <2>7, <4>1
      <4>2. CASE registry'[c] = registry[c]
        <5>1. registry[c] \in Codes /\ WasMapped(registry[c])
          BY <1>0, <3>1, <4>2 DEF PluginTypes, CodeWasMapped
        <5> QED BY <2>9, <4>2, <5>1
      <4> QED BY <2>4, <4>1, <4>2
    <3>2. ASSUME NEW i \in instances PROVE 1 <= i.code[2] /\ i.code[2] <= mapping'[i.code[1]]
      BY <1>0, <2>9 DEF PluginTypes, CodeWasMapped
    <3> QED BY <3>1, <3>2 DEF CodeWasMapped, WasMapped
  <2> QED BY <2>5, <2>6, <2>7, <2>8, <2>10
<1>3. CASE LoadLibrary(l) /\ refs[l] # 0
  <2>1. UNCHANGED <<mapping, registry>> /\ refs[l] > 0
    BY <1>0, <1>3 DEF LoadLibrary, PluginTypes
  <2>2. mapping[l] > 0
    BY <1>0, <2>1 DEF Registered
  <2> QED BY <1>0, <1>3, <2>1, <2>2 DEF PluginTypes, Registered, CodeWasMapped, WasMapped
<1> QED BY <1>1, <1>2, <1>3

\* loadLib
LEMMA LoadLibKeeps == ASSUME PluginInv, NEW d \in Loaders, LoadLib(d) PROVE PluginInv'
<1>0. PluginTypes /\ RefsCounted /\ Registered /\ LibOf[d] \in Libraries
  BY PluginFiles DEF PluginInv
<1>1. PICK l \in Libraries : l = LibOf[d]
  BY <1>0
<1>2. /\ leaked' = [leaked EXCEPT ![l] = IF handle[d] THEN @ + 1 ELSE @]
      /\ UNCHANGED <<instances, answer, wild>>
      /\ \/ /\ loader' = [loader EXCEPT ![d] = "loaded"] /\ handle' = [handle EXCEPT ![d] = TRUE]
            /\ LoadLibrary(l) /\ refs' = [refs EXCEPT ![l] = @ + 1]
         \/ /\ loader' = [loader EXCEPT ![d] = "failed"] /\ handle' = [handle EXCEPT ![d] = FALSE]
            /\ LoadLibrary(l) \/ UNCHANGED <<mapping, registry>>
            /\ UNCHANGED refs
  BY <1>1 DEF LoadLib
<1>3. /\ mapping' \in [Libraries -> Nat] /\ registry' \in [Classes -> Codes \cup {NoFactory}]
      /\ \A m \in Libraries : mapping'[m] >= mapping[m]
      /\ \A m \in Libraries : mapping'[m] > 0 => \A c \in ClassesOf[m] : registry'[c] # NoFactory
      /\ LoadLibrary(l) => mapping'[l] > 0 /\ (refs[l] = 0 => mapping'[l] = mapping[l] + 1)
      /\ CodeWasMapped'
      /\ \A m \in Libraries \ {l} : mapping'[m] = mapping[m]
  BY <1>2, LibraryMapped
<1>4. /\ leaked' \in [Libraries -> Nat] /\ leaked'[l] = IF handle[d] THEN leaked[l] + 1 ELSE leaked[l]
      /\ \A m \in Libraries \ {l} : leaked'[m] = leaked[m]
  BY <1>0, <1>2 DEF PluginTypes
<1>5. \A m \in Libraries : /\ refs[m] \in Nat /\ mapping[m] \in Nat /\ mapping'[m] \in Nat
                           /\ leaked[m] \in Nat /\ Cardinality(Holders(m)) \in Nat
                           /\ refs[m] = Cardinality(Holders(m)) + leaked[m]
  BY <1>0, <1>3, HoldersAreCounted DEF PluginTypes, RefsCounted
<1>6. answer' = "OK" => \E i \in instances' : i.ready
  BY <1>2 DEF PluginInv
<1>7. CASE /\ loader' = [loader EXCEPT ![d] = "loaded"] /\ handle' = [handle EXCEPT ![d] = TRUE]
           /\ LoadLibrary(l) /\ refs' = [refs EXCEPT ![l] = @ + 1]
  <2>1. /\ refs' \in [Libraries -> Nat] /\ refs'[l] = refs[l] + 1
        /\ \A m \in Libraries \ {l} : refs'[m] = refs[m]
    BY <1>0, <1>7 DEF PluginTypes
  <2>2. PluginTypes'
    BY <1>0, <1>2, <1>3, <1>4, <1>7, <2>1 DEF PluginTypes
  <2>3. RefsCounted'
    <3>1. ASSUME NEW m \in Libraries PROVE refs'[m] = Cardinality(Holders(m)') + leaked'[m]
      <4>1. Cardinality(Holders(m)') = IF m = l /\ ~handle[d] THEN Cardinality(Holders(m)) + 1
                                       ELSE Cardinality(Holders(m))
        BY <1>0, <1>1, <1>7, HolderAdded
      <4>2. CASE m = l
        BY <1>4, <1>5, <2>1, <4>1, <4>2
      <4>3. CASE m # l
        BY <1>4, <1>5, <2>1, <4>1, <4>3
      <4> QED BY <4>2, <4>3
    <3> QED BY <3>1 DEF RefsCounted
  <2>4. Registered'
    <3>1. ASSUME NEW m \in Libraries, refs'[m] > 0 PROVE mapping'[m] > 0
      <4>1. CASE m = l
        BY <1>3, <1>7, <4>1
      <4>2. CASE m # l
        BY <1>0, <1>3, <2>1, <3>1, <4>2 DEF Registered
      <4> QED BY <4>1, <4>2
    <3> QED BY <1>3, <3>1 DEF Registered
  <2>5. wild' => SomeGone'
    <3> SUFFICES ASSUME wild' PROVE SomeGone'
      OBVIOUS
    <3>1. PICK m \in Libraries : mapping[m] > 1 \/ (mapping[m] = 1 /\ refs[m] = 0)
      BY <1>2 DEF PluginInv, SomeGone
    <3>2. CASE mapping[m] > 1
      BY <1>3, <1>5, <3>2 DEF SomeGone
    <3>3. CASE mapping[m] = 1 /\ refs[m] = 0 /\ m = l
      BY <1>3, <1>5, <1>7, <3>3 DEF SomeGone
    <3>4. CASE mapping[m] = 1 /\ refs[m] = 0 /\ m # l
      BY <1>3, <2>1, <3>4 DEF SomeGone
    <3> QED BY <3>1, <3>2, <3>3, <3>4
  <2> QED BY <1>3, <1>6, <2>2, <2>3, <2>4, <2>5 DEF PluginInv
<1>8. CASE /\ loader' = [loader EXCEPT ![d] = "failed"] /\ handle' = [handle EXCEPT ![d] = FALSE]
           /\ LoadLibrary(l) \/ UNCHANGED <<mapping, registry>>
           /\ UNCHANGED refs
  <2>2. PluginTypes'
    BY <1>0, <1>2, <1>3, <1>4, <1>8 DEF PluginTypes
  <2>3. RefsCounted'
    <3>1. ASSUME NEW m \in Libraries PROVE refs'[m] = Cardinality(Holders(m)') + leaked'[m]
      <4>1. Cardinality(Holders(m)') = IF m = l /\ handle[d] THEN Cardinality(Holders(m)) - 1
                                       ELSE Cardinality(Holders(m))
        BY <1>0, <1>1, <1>8, HolderRemoved
      <4>2. refs'[m] = refs[m]
        BY <1>8
      <4>3. CASE m = l
        <5>1. CASE handle[d]
          BY <1>4, <1>5, <4>1, <4>2, <4>3, <5>1
        <5>2. CASE ~handle[d]
          BY <1>4, <1>5, <4>1, <4>2, <4>3, <5>2
        <5> QED BY <5>1, <5>2
      <4>4. CASE m # l
        BY <1>4, <1>5, <4>1, <4>2, <4>4
      <4> QED BY <4>3, <4>4
    <3> QED BY <3>1 DEF RefsCounted
  <2>4. Registered'
    <3>1. ASSUME NEW m \in Libraries, refs'[m] > 0 PROVE mapping'[m] > 0
      BY <1>0, <1>3, <1>5, <1>8, <3>1 DEF Registered
    <3> QED BY <1>3, <3>1 DEF Registered
  <2>5. wild' => SomeGone'
    <3> SUFFICES ASSUME wild' PROVE SomeGone'
      OBVIOUS
    <3>1. PICK m \in Libraries : mapping[m] > 1 \/ (mapping[m] = 1 /\ refs[m] = 0)
      BY <1>2 DEF PluginInv, SomeGone
    <3>2. mapping'[m] = mapping[m] \/ mapping'[m] > mapping[m]
      BY <1>3, <1>5
    <3> QED BY <1>5, <1>8, <3>1, <3>2 DEF SomeGone
  <2> QED BY <1>3, <1>6, <2>2, <2>3, <2>4, <2>5 DEF PluginInv
<1> QED BY <1>2, <1>7, <1>8

\* ~ClassLoader
LEMMA DestroyLoaderKeeps == ASSUME PluginInv, NEW d \in Loaders, DestroyLoader(d) PROVE PluginInv'
<1>0. PluginTypes /\ RefsCounted /\ Registered /\ LibOf[d] \in Libraries
  BY PluginFiles DEF PluginInv
<1>1. PICK l \in Libraries : l = LibOf[d]
  BY <1>0
<1>2. /\ loader' = [loader EXCEPT ![d] = "gone"] /\ handle' = [handle EXCEPT ![d] = FALSE]
      /\ IF handle[d] THEN refs' = [refs EXCEPT ![l] = @ - 1] ELSE UNCHANGED refs
      /\ UNCHANGED <<mapping, registry, instances, answer, leaked, wild>>
  BY <1>1 DEF DestroyLoader, UnloadLibrary
<1>3. \A m \in Libraries : /\ refs[m] \in Nat /\ mapping[m] \in Nat
                           /\ leaked[m] \in Nat /\ Cardinality(Holders(m)) \in Nat
                           /\ refs[m] = Cardinality(Holders(m)) + leaked[m]
  BY <1>0, HoldersAreCounted DEF PluginTypes, RefsCounted
<1>4. handle[d] => refs[l] >= 1
  <2>1. handle[d] => d \in Holders(l)
    BY <1>1 DEF Holders
  <2>2. handle[d] => Cardinality(Holders(l)) >= 1
    BY <2>1, HoldersAreCounted
  <2> QED BY <1>3, <2>2
<1>5. /\ refs' \in [Libraries -> Nat] /\ refs'[l] = IF handle[d] THEN refs[l] - 1 ELSE refs[l]
      /\ \A m \in Libraries \ {l} : refs'[m] = refs[m]
  BY <1>0, <1>2, <1>3, <1>4 DEF PluginTypes
<1>6. PluginTypes'
  BY <1>0, <1>2, <1>5 DEF PluginTypes
<1>7. RefsCounted'
  <2>1. ASSUME NEW m \in Libraries PROVE refs'[m] = Cardinality(Holders(m)') + leaked'[m]
    <3>1. Cardinality(Holders(m)') = IF m = l /\ handle[d] THEN Cardinality(Holders(m)) - 1
                                     ELSE Cardinality(Holders(m))
      BY <1>0, <1>1, <1>2, HolderRemoved
    <3>2. CASE m = l
      BY <1>2, <1>3, <1>5, <3>1, <3>2
    <3>3. CASE m # l
      BY <1>2, <1>3, <1>5, <3>1, <3>3
    <3> QED BY <3>2, <3>3
  <2> QED BY <2>1 DEF RefsCounted
<1>8. \A m \in Libraries : (refs'[m] > 0 => refs[m] > 0) /\ (refs[m] = 0 => refs'[m] = 0)
  BY <1>3, <1>4, <1>5
<1>9. Registered'
  BY <1>0, <1>2, <1>8 DEF Registered
<1>10. CodeWasMapped'
  BY <1>2 DEF PluginInv, CodeWasMapped, WasMapped
<1>11. wild' => SomeGone'
  BY <1>2, <1>8 DEF PluginInv, SomeGone
<1> QED BY <1>2, <1>6, <1>7, <1>9, <1>10, <1>11 DEF PluginInv

\* Code that was mapped and is not mapped any more belongs to a library that has gone.
LEMMA UnmappedHasGone ==
    ASSUME PluginTypes, NEW code \in Codes, WasMapped(code), ~Mapped(code)
    PROVE  SomeGone
<1>1. code[1] \in Libraries /\ code[2] \in Nat
  BY DEF Codes
<1>2. refs[code[1]] \in Nat /\ mapping[code[1]] \in Nat
  BY <1>1 DEF PluginTypes
<1>3. mapping[code[1]] > 1 \/ (mapping[code[1]] = 1 /\ refs[code[1]] = 0)
  BY <1>1, <1>2 DEF WasMapped, Mapped
<1> QED BY <1>1, <1>3 DEF SomeGone

\* createUniqueInstance
LEMMA CreateKeeps ==
    ASSUME PluginInv, NEW d \in Loaders, NEW c \in Classes, CreateUniqueInstance(d, c)
    PROVE  PluginInv'
<1>0. PluginTypes /\ RefsCounted /\ Registered /\ CodeWasMapped
  BY DEF PluginInv
<1>1. /\ registry[c] # NoFactory
      /\ instances' = IF Mapped(registry[c])
                    THEN instances \cup {[id |-> Cardinality(instances), code |-> registry[c], ready |-> FALSE]}
                    ELSE instances
      /\ wild' = (wild \/ ~Mapped(registry[c]))
      /\ UNCHANGED <<loader, handle, refs, mapping, registry, answer, leaked>>
  BY DEF CreateUniqueInstance
<1>2. registry[c] \in Codes /\ WasMapped(registry[c])
  BY <1>0, <1>1 DEF PluginTypes, CodeWasMapped
<1>3. PICK i : i = [id |-> Cardinality(instances), code |-> registry[c], ready |-> FALSE]
  OBVIOUS
<1>4. i \in [id : Nat, code : Codes, ready : BOOLEAN] /\ i.code = registry[c]
  BY <1>0, <1>2, <1>3, FS_CardinalityType DEF PluginTypes
<1>5. instances \subseteq instances' /\ instances' \subseteq instances \cup {i} /\ IsFiniteSet(instances')
  BY <1>0, <1>1, <1>3, FS_AddElement DEF PluginTypes
<1>6. PluginTypes'
  BY <1>0, <1>1, <1>4, <1>5 DEF PluginTypes
<1>7. RefsCounted' /\ Registered'
  BY <1>0, <1>1 DEF RefsCounted, Registered, Holders
<1>8. CodeWasMapped'
  BY <1>0, <1>1, <1>2, <1>4, <1>5 DEF CodeWasMapped, WasMapped
<1>9. wild' => SomeGone'
  <2>1. wild' => SomeGone
    BY <1>0, <1>1, <1>2, UnmappedHasGone DEF PluginInv
  <2> QED BY <1>1, <2>1 DEF SomeGone
<1>10. answer' = "OK" => \E j \in instances' : j.ready
  BY <1>1, <1>5 DEF PluginInv
<1> QED BY <1>6, <1>7, <1>8, <1>9, <1>10 DEF PluginInv

\* setMDH
LEMMA SetMDHKeeps == ASSUME PluginInv, NEW i \in instances, SetMDH(i) PROVE PluginInv'
<1>0. /\ PluginTypes /\ RefsCounted /\ Registered /\ CodeWasMapped
      /\ i \in [id : Nat, code : Codes, ready : BOOLEAN] /\ WasMapped(i.code)
  BY DEF PluginInv, PluginTypes, CodeWasMapped
<1>1. PICK j : j = [i EXCEPT !.ready = TRUE]
  OBVIOUS
<1>2. j \in [id : Nat, code : Codes, ready : BOOLEAN] /\ j.code = i.code /\ j.ready
  BY <1>0, <1>1
<1>3. /\ instances' = IF Mapped(i.code) THEN (instances \ {i}) \cup {j} ELSE instances
      /\ wild' = (wild \/ ~Mapped(i.code))
      /\ UNCHANGED <<loader, handle, refs, mapping, registry, answer, leaked>>
  BY <1>1 DEF SetMDH
<1>4. IsFiniteSet(instances') /\ instances' \subseteq instances \cup {j}
  BY <1>0, <1>3, FS_AddElement, FS_RemoveElement DEF PluginTypes
<1>5. PluginTypes'
  BY <1>0, <1>2, <1>3, <1>4 DEF PluginTypes
<1>6. RefsCounted' /\ Registered'
  BY <1>0, <1>3 DEF RefsCounted, Registered, Holders
<1>7. CodeWasMapped'
  BY <1>0, <1>2, <1>3, <1>4 DEF CodeWasMapped, WasMapped
<1>8. wild' => SomeGone'
  <2>1. i.code \in Codes
    BY <1>0
  <2>2. wild' => SomeGone
    BY <1>0, <1>3, <2>1, UnmappedHasGone DEF PluginInv
  <2> QED BY <1>3, <2>2 DEF SomeGone
<1>9. answer' = "OK" => \E k \in instances' : k.ready
  BY <1>2, <1>3 DEF PluginInv
<1> QED BY <1>5, <1>6, <1>7, <1>8, <1>9 DEF PluginInv

\* getPositionFK and getPositionIK
LEMMA GetPositionKeeps == ASSUME PluginInv, NEW i \in instances, GetPosition(i) PROVE PluginInv'
<1>0. PluginTypes /\ RefsCounted /\ Registered /\ CodeWasMapped /\ i.code \in Codes /\ WasMapped(i.code)
  BY DEF PluginInv, PluginTypes, CodeWasMapped
<1>1. UNCHANGED <<loader, handle, refs, mapping, registry, instances, leaked>>
  BY DEF GetPosition
<1>2. PluginTypes' /\ RefsCounted' /\ Registered' /\ CodeWasMapped'
  BY <1>0, <1>1 DEF PluginTypes, RefsCounted, Registered, Holders, CodeWasMapped, WasMapped
<1>3. wild' => SomeGone'
  <2>1. wild' => wild \/ ~Mapped(i.code)
    BY DEF GetPosition
  <2>2. wild' => SomeGone
    BY <1>0, <2>1, UnmappedHasGone DEF PluginInv
  <2> QED BY <1>1, <2>2 DEF SomeGone
<1>4. answer' = "OK" => \E k \in instances' : k.ready
  <2>1. answer' = "OK" => answer = "OK" \/ i.ready
    BY DEF GetPosition, GetPositionFK, GetPositionIK
  <2> QED BY <1>1, <2>1 DEF PluginInv
<1> QED BY <1>2, <1>3, <1>4 DEF PluginInv

\* For any number of loaders and libraries: the library of a loader that has loaded it
\* stays mapped with a factory for each of its classes, references are accounted for,
\* code is missing only after a library has gone, and a plugin solves nothing before
\* setMDH.
THEOREM LibrariesStay == PluginSpec => []LoadedStaysMapped
<1>1. PluginInit => PluginInv
  <2> SUFFICES ASSUME PluginInit PROVE PluginInv
    OBVIOUS
  <2>1. PluginTypes
    BY FS_EmptySet DEF PluginInit, PluginTypes
  <2>2. ASSUME NEW l \in Libraries PROVE Holders(l) = {} /\ refs[l] = 0 /\ leaked[l] = 0
    BY DEF PluginInit, Holders
  <2>3. RefsCounted
    BY <2>2, FS_EmptySet DEF RefsCounted
  <2>4. Registered /\ CodeWasMapped
    BY DEF PluginInit, Registered, CodeWasMapped
  <2> QED BY <2>1, <2>3, <2>4 DEF PluginInit, PluginInv
<1>2. PluginInv /\ [PluginNext]_pluginVars => PluginInv'
  <2> SUFFICES ASSUME PluginInv, [PluginNext]_pluginVars PROVE PluginInv'
    OBVIOUS
  <2>1. CASE UNCHANGED pluginVars
    BY <2>1 DEF pluginVars, PluginInv, PluginTypes, RefsCounted, Registered, Holders,
                CodeWasMapped, WasMapped, SomeGone
  <2>2. CASE PluginNext
    BY <2>2, LoadLibKeeps, DestroyLoaderKeeps, CreateKeeps, SetMDHKeeps, GetPositionKeeps
       DEF PluginNext
  <2> QED BY <2>1, <2>2
<1>3. PluginInv => LoadedStaysMapped
  <2> SUFFICES ASSUME PluginInv PROVE LoadedStaysMapped
    OBVIOUS
  <2>1. ASSUME NEW d \in Loaders, loader[d] = "loaded"
        PROVE  refs[LibOf[d]] > 0 /\ \A c \in ClassesOf[LibOf[d]] : registry[c] # NoFactory
    <3>1. PICK l \in Libraries : l = LibOf[d]
      BY PluginFiles
    <3>2. d \in Holders(l)
      BY <2>1, <3>1 DEF PluginInv, PluginTypes, Holders
    <3>3. refs[l] \in Nat /\ leaked[l] \in Nat /\ refs[l] = Cardinality(Holders(l)) + leaked[l]
      BY DEF PluginInv, PluginTypes, RefsCounted
    <3>4. refs[l] > 0
      BY <3>2, <3>3, HoldersAreCounted
    <3> QED BY <3>1, <3>4 DEF PluginInv, Registered
  <2> QED BY <2>1 DEF PluginInv, RefsCounted, SomeGone, LoadedStaysMapped
<1> QED BY <1>1, <1>2, <1>3, PTL DEF PluginSpec

---------------------------------------------------------------------------
(* The pose algebra: both plugins against the laws of rigid motions.        *)

\* What the entries of a rotation by quarter turns are.
Units == {-1, 0, 1}

\* The columns are perpendicular unit vectors and right-handed.
RightHanded(a, b, c, d, e, f, g, h, i) ==
    /\ a * a + d * d + g * g = 1 /\ b * b + e * e + h * h = 1 /\ c * c + f * f + i * i = 1
    /\ a * b + d * e + g * h = 0 /\ a * c + d * f + g * i = 0 /\ b * c + e * f + h * i = 0
    /\ a * (e * i - f * h) - b * (d * i - f * g) + c * (d * h - e * g) = 1

\* Matrices of finite numbers.
IntMatrices == [Rows -> [Rows -> Int]]

\* The matrix of a rotation and of a translation.
Isometry(m) ==
    /\ m \in IntMatrices
    /\ m[4][1] = 0 /\ m[4][2] = 0 /\ m[4][3] = 0 /\ m[4][4] = 1
    /\ RightHanded(m[1][1], m[1][2], m[1][3], m[2][1], m[2][2], m[2][3], m[3][1], m[3][2], m[3][3])

\* Integers whose squares add up to 1 are a unit vector along an axis.
LEMMA UnitVector ==
    ASSUME NEW x \in Int, NEW y \in Int, NEW z \in Int, x * x + y * y + z * z = 1
    PROVE  x \in Units /\ y \in Units /\ z \in Units
<1>1. \A n \in Int : n * n >= 0 /\ (n > 1 \/ n < -1 => n * n > 1)
  OBVIOUS
<1> QED BY <1>1 DEF Units

\* The entries of a matrix of integers, one by one.
LEMMA IntEntries ==
    ASSUME NEW m \in IntMatrices
    PROVE  /\ m[1][1] \in Int /\ m[1][2] \in Int /\ m[1][3] \in Int /\ m[1][4] \in Int
           /\ m[2][1] \in Int /\ m[2][2] \in Int /\ m[2][3] \in Int /\ m[2][4] \in Int
           /\ m[3][1] \in Int /\ m[3][2] \in Int /\ m[3][3] \in Int /\ m[3][4] \in Int
           /\ m[4][1] \in Int /\ m[4][2] \in Int /\ m[4][3] \in Int /\ m[4][4] \in Int
  BY DEF IntMatrices, Rows

\* The rotation of an isometry has no entries but -1, 0 and 1.
LEMMA UnitEntries ==
    ASSUME NEW m, Isometry(m)
    PROVE  /\ m[1][1] \in Units /\ m[1][2] \in Units /\ m[1][3] \in Units
           /\ m[2][1] \in Units /\ m[2][2] \in Units /\ m[2][3] \in Units
           /\ m[3][1] \in Units /\ m[3][2] \in Units /\ m[3][3] \in Units
<1>1. m \in IntMatrices
  BY DEF Isometry
<1>2. RightHanded(m[1][1], m[1][2], m[1][3], m[2][1], m[2][2], m[2][3], m[3][1], m[3][2], m[3][3])
  BY DEF Isometry
<1>3. m[1][1] \in Units /\ m[2][1] \in Units /\ m[3][1] \in Units
  BY <1>1, <1>2, IntEntries, UnitVector DEF RightHanded
<1>4. m[1][2] \in Units /\ m[2][2] \in Units /\ m[3][2] \in Units
  BY <1>1, <1>2, IntEntries, UnitVector DEF RightHanded
<1>5. m[1][3] \in Units /\ m[2][3] \in Units /\ m[3][3] \in Units
  BY <1>1, <1>2, IntEntries, UnitVector DEF RightHanded
<1> QED BY <1>3, <1>4, <1>5

\* The rows of a rotation are perpendicular unit vectors like its columns.
LEMMA RowsToo ==
    ASSUME NEW a \in Units, NEW b \in Units, NEW c \in Units, NEW d \in Units, NEW e \in Units,
           NEW f \in Units, NEW g \in Units, NEW h \in Units, NEW i \in Units,
           RightHanded(a, b, c, d, e, f, g, h, i)
    PROVE  RightHanded(a, d, g, b, e, h, c, f, i)
  BY DEF RightHanded, Units

\* Matrices are equal when their entries are.
LEMMA MatrixEqual ==
    ASSUME NEW S, NEW m \in [Rows -> [Rows -> S]], NEW n \in [Rows -> [Rows -> S]],
           \A i, j \in Rows : m[i][j] = n[i][j]
    PROVE  m = n
<1>1. \A i \in Rows : m[i] = n[i]
  OBVIOUS
<1> QED BY <1>1

\* The last row of a homogeneous matrix, entry by entry.
LEMMA LastRow ==
    ASSUME NEW m \in IntMatrices
    PROVE  m[4] = <<0, 0, 0, 1>> <=> m[4][1] = 0 /\ m[4][2] = 0 /\ m[4][3] = 0 /\ m[4][4] = 1
<1>1. m[4] \in [1 .. 4 -> Int] /\ <<0, 0, 0, 1>> \in [1 .. 4 -> Int]
  BY DEF IntMatrices, Rows
<1>2. 1 .. 4 = {1, 2, 3, 4}
  OBVIOUS
<1> QED BY <1>1, <1>2

\* The identity is the same in both plugins, and an isometry.
LEMMA EliteIdentity ==
    /\ Elite!Identity = Identity /\ Eigen!Identity = Identity
    /\ \A i, j \in Rows : Identity[i][j] = IF i = j THEN 1 ELSE 0
    /\ Isometry(Identity)
<1>1. Elite!Identity = Identity /\ Eigen!Identity = Identity
  BY DEF Elite!Identity, Identity, Elite!Matrix, Matrix, Elite!Rows, Rows, Eigen!Identity, Eigen!Matrix, Eigen!Rows
<1>2. Identity \in IntMatrices /\ \A i, j \in Rows : Identity[i][j] = IF i = j THEN 1 ELSE 0
  BY DEF Identity, Matrix, IntMatrices
<1>3. Isometry(Identity)
  BY <1>2 DEF Isometry, Rows, RightHanded
<1> QED BY <1>1, <1>2, <1>3

\* The check of a matrix of finite numbers (validateMatrix) accepts the isometries only.
LEMMA ValidIsIsometry ==
    ASSUME NEW m \in IntMatrices
    PROVE  Elite!Validate(m) = "SUCCESS" <=> Isometry(m)
<1>1. Elite!MatrixFinite(m)
  BY NonFiniteAssumption DEF Elite!MatrixFinite, Elite!Rows, Rows, IntMatrices
<1>2. (\A i, j \in 1 .. 3 : Elite!ColumnDot(m, i, m, j) = Identity[i][j]) <=>
      /\ m[1][1] * m[1][1] + m[2][1] * m[2][1] + m[3][1] * m[3][1] = 1
      /\ m[1][2] * m[1][2] + m[2][2] * m[2][2] + m[3][2] * m[3][2] = 1
      /\ m[1][3] * m[1][3] + m[2][3] * m[2][3] + m[3][3] * m[3][3] = 1
      /\ m[1][1] * m[1][2] + m[2][1] * m[2][2] + m[3][1] * m[3][2] = 0
      /\ m[1][1] * m[1][3] + m[2][1] * m[2][3] + m[3][1] * m[3][3] = 0
      /\ m[1][2] * m[1][3] + m[2][2] * m[2][3] + m[3][2] * m[3][3] = 0
  <2>1. 1 .. 3 = {1, 2, 3}
    OBVIOUS
  <2>2. \A i, j \in {1, 2, 3} : Identity[i][j] = IF i = j THEN 1 ELSE 0
    BY EliteIdentity DEF Rows
  <2> QED BY <2>1, <2>2, IntEntries DEF Elite!ColumnDot
<1>3. m[4] = <<0, 0, 0, 1>> <=> m[4][1] = 0 /\ m[4][2] = 0 /\ m[4][3] = 0 /\ m[4][4] = 1
  BY LastRow
<1>4. Elite!Validate(m) = "SUCCESS" <=>
      /\ m[4] = <<0, 0, 0, 1>>
      /\ \A i, j \in 1 .. 3 : Elite!ColumnDot(m, i, m, j) = Identity[i][j]
      /\ Elite!Determinant3x3(m) = 1
  BY <1>1, EliteIdentity DEF Elite!Validate, Elite!Axes
<1>5. Elite!Determinant3x3(m) =
        m[1][1] * (m[2][2] * m[3][3] - m[2][3] * m[3][2])
        - m[1][2] * (m[2][1] * m[3][3] - m[2][3] * m[3][1])
        + m[1][3] * (m[2][1] * m[3][2] - m[2][2] * m[3][1])
  BY DEF Elite!Determinant3x3
<1> QED BY <1>2, <1>3, <1>4, <1>5, Zenon DEF Isometry, RightHanded

\* Cosine and sine of quarter turns.
LEMMA QuarterTurn ==
    ASSUME NEW q \in Int
    PROVE  \/ Elite!Cos(q) = 1 /\ Elite!Sin(q) = 0
           \/ Elite!Cos(q) = 0 /\ Elite!Sin(q) = 1
           \/ Elite!Cos(q) = -1 /\ Elite!Sin(q) = 0
           \/ Elite!Cos(q) = 0 /\ Elite!Sin(q) = -1
<1>1. q % 4 \in 0 .. 3
  OBVIOUS
<1>2. CASE q % 4 = 0
  <2>1. (q - 1) % 4 = 3
    BY <1>2
  <2> QED BY <1>2, <2>1 DEF Elite!Cos, Elite!Sin
<1>3. CASE q % 4 = 1
  <2>1. (q - 1) % 4 = 0
    BY <1>3
  <2> QED BY <1>3, <2>1 DEF Elite!Cos, Elite!Sin
<1>4. CASE q % 4 = 2
  <2>1. (q - 1) % 4 = 1
    BY <1>4
  <2> QED BY <1>4, <2>1 DEF Elite!Cos, Elite!Sin
<1>5. CASE q % 4 = 3
  <2>1. (q - 1) % 4 = 2
    BY <1>5
  <2> QED BY <1>5, <2>1 DEF Elite!Cos, Elite!Sin
<1> QED BY <1>1, <1>2, <1>3, <1>4, <1>5

\* Of an angle, its cosine and its sine.
Turn(c, s) ==
    \/ c = 1 /\ s = 0
    \/ c = 0 /\ s = 1
    \/ c = -1 /\ s = 0
    \/ c = 0 /\ s = -1

\* The product of the rotations about the three axes is a rotation.
LEMMA RpyRightHanded ==
    ASSUME NEW cr, NEW sr, NEW cp, NEW sp, NEW cy, NEW sy, Turn(cr, sr), Turn(cp, sp), Turn(cy, sy)
    PROVE  RightHanded(cy * cp, cy * sp * sr - sy * cr, cy * sp * cr + sy * sr,
                       sy * cp, sy * sp * sr + cy * cr, sy * sp * cr - cy * sr,
                       -sp, cp * sr, cp * cr)
<1>1. cr \in Units /\ sr \in Units /\ cp \in Units /\ sp \in Units /\ cy \in Units /\ sy \in Units
  BY DEF Turn, Units
<1>2. cr * cr + sr * sr = 1 /\ cp * cp + sp * sp = 1 /\ cy * cy + sy * sy = 1
  BY DEF Turn
<1> QED BY <1>1, <1>2 DEF RightHanded, Units

\* The rotation of roll, pitch and yaw, given by their cosines and sines, and the last row.
Rpy(m, cr, sr, cp, sp, cy, sy) ==
    /\ m[1][1] = cy * cp /\ m[1][2] = cy * sp * sr - sy * cr /\ m[1][3] = cy * sp * cr + sy * sr
    /\ m[2][1] = sy * cp /\ m[2][2] = sy * sp * sr + cy * cr /\ m[2][3] = sy * sp * cr - cy * sr
    /\ m[3][1] = -sp /\ m[3][2] = cp * sr /\ m[3][3] = cp * cr
    /\ m[4][1] = 0 /\ m[4][2] = 0 /\ m[4][3] = 0 /\ m[4][4] = 1

\* The matrix of a vector, entry by entry.
LEMMA ToMatrixEntries ==
    ASSUME NEW v
    PROVE  LET m == Elite!ToMatrix(v)
           IN  /\ Rpy(m, Elite!Cos(v[4]), Elite!Sin(v[4]), Elite!Cos(v[5]), Elite!Sin(v[5]),
                         Elite!Cos(v[6]), Elite!Sin(v[6]))
               /\ m[1][4] = v[1] /\ m[2][4] = v[2] /\ m[3][4] = v[3]
               /\ m = [i \in Rows |-> [j \in Rows |-> m[i][j]]]
<1> PICK cr, sr : cr = Elite!Cos(v[4]) /\ sr = Elite!Sin(v[4])
  OBVIOUS
<1> PICK cp, sp : cp = Elite!Cos(v[5]) /\ sp = Elite!Sin(v[5])
  OBVIOUS
<1> PICK cy, sy : cy = Elite!Cos(v[6]) /\ sy = Elite!Sin(v[6])
  OBVIOUS
<1> DEFINE R == Elite!FillRotationFromRpy(v[4], v[5], v[6])
<1>1. R = << <<cy * cp, cy * sp * sr - sy * cr, cy * sp * cr + sy * sr>>,
             <<sy * cp, sy * sp * sr + cy * cr, sy * sp * cr - cy * sr>>,
             <<-sp, cp * sr, cp * cr>> >>
  BY DEF Elite!FillRotationFromRpy
<1>2. Elite!ToMatrix(v) = [i \in Rows |-> [j \in Rows |->
          IF i = 4 THEN Identity[i][j] ELSE IF j = 4 THEN v[i] ELSE R[i][j]]]
  BY EliteIdentity DEF Elite!ToMatrix, Elite!Matrix, Elite!Rows, Rows
<1> HIDE DEF R
<1>3. Identity[4][1] = 0 /\ Identity[4][2] = 0 /\ Identity[4][3] = 0 /\ Identity[4][4] = 1
  BY EliteIdentity DEF Rows
<1>4. /\ R[1][1] = cy * cp /\ R[1][2] = cy * sp * sr - sy * cr /\ R[1][3] = cy * sp * cr + sy * sr
      /\ R[2][1] = sy * cp /\ R[2][2] = sy * sp * sr + cy * cr /\ R[2][3] = sy * sp * cr - cy * sr
      /\ R[3][1] = -sp /\ R[3][2] = cp * sr /\ R[3][3] = cp * cr
  BY <1>1
<1> QED BY <1>2, <1>3, <1>4 DEF Rows, Rpy

\* Vectors of finite numbers.
Vectors == [1 .. 6 -> Int]

\* The matrix of a vector is an isometry with the translation of the vector.
LEMMA VectorIsIsometry ==
    ASSUME NEW v \in Vectors
    PROVE  /\ Isometry(Elite!ToMatrix(v))
           /\ Elite!ToMatrix(v)[1][4] = v[1] /\ Elite!ToMatrix(v)[2][4] = v[2]
           /\ Elite!ToMatrix(v)[3][4] = v[3]
<1> DEFINE m  == Elite!ToMatrix(v)
           cr == Elite!Cos(v[4])  sr == Elite!Sin(v[4])
           cp == Elite!Cos(v[5])  sp == Elite!Sin(v[5])
           cy == Elite!Cos(v[6])  sy == Elite!Sin(v[6])
<1>1. v[1] \in Int /\ v[2] \in Int /\ v[3] \in Int /\ v[4] \in Int /\ v[5] \in Int /\ v[6] \in Int
  BY DEF Vectors
<1>2. Turn(cr, sr) /\ Turn(cp, sp) /\ Turn(cy, sy)
  BY <1>1, QuarterTurn DEF Turn
<1>3. /\ Rpy(m, cr, sr, cp, sp, cy, sy)
      /\ m[1][4] = v[1] /\ m[2][4] = v[2] /\ m[3][4] = v[3]
      /\ m = [i \in Rows |-> [j \in Rows |-> m[i][j]]]
  BY ToMatrixEntries
<1> HIDE DEF m, cr, sr, cp, sp, cy, sy
<1>4. cr \in Int /\ sr \in Int /\ cp \in Int /\ sp \in Int /\ cy \in Int /\ sy \in Int
  BY <1>2 DEF Turn
<1>5. m \in IntMatrices
  <2>1. /\ \A j \in {1, 2, 3, 4} : m[1][j] \in Int
        /\ \A j \in {1, 2, 3, 4} : m[2][j] \in Int
        /\ \A j \in {1, 2, 3, 4} : m[3][j] \in Int
        /\ \A j \in {1, 2, 3, 4} : m[4][j] \in Int
    BY <1>1, <1>3, <1>4 DEF Rpy
  <2>2. Rows = {1, 2, 3, 4}
    BY DEF Rows
  <2> QED BY <1>3, <2>1, <2>2 DEF IntMatrices
<1>6. RightHanded(m[1][1], m[1][2], m[1][3], m[2][1], m[2][2], m[2][3], m[3][1], m[3][2], m[3][3])
  BY <1>2, <1>3, RpyRightHanded DEF Rpy
<1> QED BY <1>3, <1>5, <1>6 DEF Isometry, Rpy, m

\* The remainder by which quarter turns are counted.
LEMMA Remainder ==
    ASSUME NEW q \in Int
    PROVE  /\ q + 4 \in 0 .. 3 => q % 4 = q + 4
           /\ q \in 0 .. 3 => q % 4 = q
  OBVIOUS

\* The cosines of the angles that atan2 and asin return.
LEMMA CosTable ==
    ASSUME NEW q \in Int
    PROVE  /\ q + 3 = 0 => Elite!Cos(q) = 0
           /\ q + 2 = 0 => Elite!Cos(q) = -1
           /\ q + 1 = 0 => Elite!Cos(q) = 0
           /\ q = 0 => Elite!Cos(q) = 1
           /\ q = 1 => Elite!Cos(q) = 0
           /\ q = 2 => Elite!Cos(q) = -1
<1>1. /\ q + 3 = 0 => q % 4 = 1
      /\ q + 2 = 0 => q % 4 = 2
      /\ q + 1 = 0 => q % 4 = 3
      /\ q = 0 => q % 4 = 0
      /\ q = 1 => q % 4 = 1
      /\ q = 2 => q % 4 = 2
  BY Remainder
<1> QED BY <1>1 DEF Elite!Cos

\* Their sines.
LEMMA SinTable ==
    ASSUME NEW q \in Int
    PROVE  /\ q + 1 = 0 => Elite!Sin(q) = -1
           /\ q = 0 => Elite!Sin(q) = 0
           /\ q = 1 => Elite!Sin(q) = 1
           /\ q = 2 => Elite!Sin(q) = 0
<1>1. PICK p \in Int : p = q - 1
  OBVIOUS
<1>2. Elite!Sin(q) = Elite!Cos(p)
  BY <1>1 DEF Elite!Sin
<1> QED BY <1>1, <1>2, CosTable

\* Cosine and sine of the opposite angle.
LEMMA OppositeAngle ==
    ASSUME NEW q \in Int, NEW p \in Int, p + q = 0
    PROVE  Elite!Cos(p) = Elite!Cos(q) /\ Elite!Sin(p) = -Elite!Sin(q)
<1>1. q % 4 \in 0 .. 3
  OBVIOUS
<1>2. CASE q % 4 = 0
  <2>1. p % 4 = 0 /\ (p - 1) % 4 = 3 /\ (q - 1) % 4 = 3
    BY <1>2
  <2> QED BY <1>2, <2>1 DEF Elite!Cos, Elite!Sin
<1>3. CASE q % 4 = 1
  <2>1. p % 4 = 3 /\ (p - 1) % 4 = 2 /\ (q - 1) % 4 = 0
    BY <1>3
  <2> QED BY <1>3, <2>1 DEF Elite!Cos, Elite!Sin
<1>4. CASE q % 4 = 2
  <2>1. p % 4 = 2 /\ (p - 1) % 4 = 1 /\ (q - 1) % 4 = 1
    BY <1>4
  <2> QED BY <1>4, <2>1 DEF Elite!Cos, Elite!Sin
<1>5. CASE q % 4 = 3
  <2>1. p % 4 = 1 /\ (p - 1) % 4 = 0 /\ (q - 1) % 4 = 2
    BY <1>5
  <2> QED BY <1>5, <2>1 DEF Elite!Cos, Elite!Sin
<1> QED BY <1>1, <1>2, <1>3, <1>4, <1>5

\* atan2 gives back the angle of a cosine and a sine.
LEMMA Atan2Turn ==
    ASSUME NEW c, NEW s, Turn(c, s)
    PROVE  LET q == Elite!Atan2(s, c)
           IN  q \in -1 .. 2 /\ Elite!Cos(q) = c /\ Elite!Sin(q) = s
<1> DEFINE q == Elite!Atan2(s, c)
<1>1. CASE c = 1 /\ s = 0
  <2>1. q = 0
    BY <1>1 DEF Elite!Atan2
  <2> QED BY <1>1, <2>1, CosTable, SinTable
<1>2. CASE c = 0 /\ s = 1
  <2>1. q = 1
    BY <1>2 DEF Elite!Atan2
  <2> QED BY <1>2, <2>1, CosTable, SinTable
<1>3. CASE c = -1 /\ s = 0
  <2>1. q = 2
    BY <1>3 DEF Elite!Atan2
  <2> QED BY <1>3, <2>1, CosTable, SinTable
<1>4. CASE c = 0 /\ s = -1
  <2>1. q = -1
    BY <1>4 DEF Elite!Atan2
  <2>2. q \in Int /\ q + 1 = 0
    BY <2>1
  <2> HIDE DEF q
  <2>3. Elite!Cos(q) = 0 /\ Elite!Sin(q) = -1 /\ q \in -1 .. 2
    BY <2>2, CosTable, SinTable
  <2> QED BY <1>4, <2>3 DEF q
<1> QED BY <1>1, <1>2, <1>3, <1>4 DEF Turn

\* A vector with the translation of an isometry and with angles that stand for its
\* rotation has that isometry as its matrix.
LEMMA AnglesOf ==
    ASSUME NEW m, Isometry(m), NEW w, w[1] = m[1][4], w[2] = m[2][4], w[3] = m[3][4],
           Rpy(m, Elite!Cos(w[4]), Elite!Sin(w[4]), Elite!Cos(w[5]), Elite!Sin(w[5]),
                  Elite!Cos(w[6]), Elite!Sin(w[6]))
    PROVE  Elite!ToMatrix(w) = m
<1> DEFINE n  == Elite!ToMatrix(w)
           cr == Elite!Cos(w[4])  sr == Elite!Sin(w[4])
           cp == Elite!Cos(w[5])  sp == Elite!Sin(w[5])
           cy == Elite!Cos(w[6])  sy == Elite!Sin(w[6])
<1>1. /\ Rpy(n, cr, sr, cp, sp, cy, sy)
      /\ n[1][4] = m[1][4] /\ n[2][4] = m[2][4] /\ n[3][4] = m[3][4]
      /\ n = [i \in Rows |-> [j \in Rows |-> n[i][j]]]
  BY ToMatrixEntries
<1>2. Rpy(m, cr, sr, cp, sp, cy, sy) /\ m \in [Rows -> [Rows -> Int]]
  BY DEF Isometry, IntMatrices
<1> HIDE DEF n, cr, sr, cp, sp, cy, sy
<1>3. Rows = {1, 2, 3, 4}
  BY DEF Rows
<1>4. \A i, j \in Rows : n[i][j] = m[i][j]
  <2>1. /\ n[1][1] = m[1][1] /\ n[1][2] = m[1][2] /\ n[1][3] = m[1][3]
        /\ n[2][1] = m[2][1] /\ n[2][2] = m[2][2] /\ n[2][3] = m[2][3]
        /\ n[3][1] = m[3][1] /\ n[3][2] = m[3][2] /\ n[3][3] = m[3][3]
        /\ n[4][1] = m[4][1] /\ n[4][2] = m[4][2] /\ n[4][3] = m[4][3] /\ n[4][4] = m[4][4]
    BY <1>1, <1>2 DEF Rpy
  <2> QED BY <1>1, <1>3, <2>1
<1>5. n = [i \in Rows |-> [j \in Rows |-> m[i][j]]]
  BY <1>1, <1>4
<1>6. m = [i \in Rows |-> [j \in Rows |-> m[i][j]]]
  BY <1>2
<1> QED BY <1>5, <1>6 DEF n

\* The last row of an isometry.
LEMMA Isometry4 ==
    ASSUME NEW m, Isometry(m)
    PROVE  m[4][1] = 0 /\ m[4][2] = 0 /\ m[4][3] = 0 /\ m[4][4] = 1
  BY DEF Isometry

\* The vector that the elite plugin makes of an isometry has that isometry as its
\* matrix, in gimbal lock too.
LEMMA RoundTripElite ==
    ASSUME NEW m, Isometry(m)
    PROVE  /\ Elite!ToMatrix(Elite!ToVector(m)) = m
           /\ LET w == Elite!ToVector(m)
              IN  /\ w[1] = m[1][4] /\ w[2] = m[2][4] /\ w[3] = m[3][4]
                  /\ w[4] \in -2 .. 2 /\ w[5] \in -1 .. 2 /\ w[6] \in -1 .. 2
                  /\ w = <<w[1], w[2], w[3], w[4], w[5], w[6]>>
<1> DEFINE w == Elite!ToVector(m)
           a == m[1][1]  b == m[1][2]  c == m[1][3]
           d == m[2][1]  e == m[2][2]  f == m[2][3]
           g == m[3][1]  h == m[3][2]  i == m[3][3]
           pitch == Elite!Atan2(-g, Elite!Norm2(a, d))
           twist == Elite!Atan2(b, e)
<1>1. /\ a \in Units /\ b \in Units /\ c \in Units /\ d \in Units /\ e \in Units /\ f \in Units
      /\ g \in Units /\ h \in Units /\ i \in Units
  BY UnitEntries
<1>2. RightHanded(a, b, c, d, e, f, g, h, i)
  BY DEF Isometry
<1>3. w = IF Elite!Cos(pitch) # 0
          THEN <<m[1][4], m[2][4], m[3][4], Elite!Atan2(h, i), pitch, Elite!Atan2(d, a)>>
          ELSE <<m[1][4], m[2][4], m[3][4], IF pitch > 0 THEN twist ELSE -twist, pitch, 0>>
  BY DEF Elite!ToVector
<1> HIDE DEF w, a, b, c, d, e, f, g, h, i, pitch, twist
<1>4. CASE g = 0
  <2>1. /\ Turn(i, h) /\ Turn(a, d) /\ Turn(1, 0)
        /\ b = -(d * i) /\ c = d * h /\ e = a * i /\ f = -(a * h)
    BY <1>1, <1>2, <1>4 DEF RightHanded, Units, Turn
  <2>2. pitch = Elite!Atan2(0, 1) /\ pitch = 0
    <3>1. Elite!Norm2(a, d) = 1
      BY <1>1, <2>1 DEF Turn, Elite!Norm2
    <3>2. Elite!Atan2(0, 1) = 0
      BY DEF Elite!Atan2
    <3> QED BY <1>4, <3>1, <3>2 DEF pitch
  <2>3. Elite!Cos(pitch) = 1 /\ Elite!Sin(pitch) = 0
    BY <2>1, <2>2, Atan2Turn
  <2>4. w = <<m[1][4], m[2][4], m[3][4], Elite!Atan2(h, i), pitch, Elite!Atan2(d, a)>>
    BY <1>3, <2>3
  <2>5. /\ Elite!Cos(Elite!Atan2(h, i)) = i /\ Elite!Sin(Elite!Atan2(h, i)) = h
        /\ Elite!Cos(Elite!Atan2(d, a)) = a /\ Elite!Sin(Elite!Atan2(d, a)) = d
        /\ Elite!Atan2(h, i) \in -1 .. 2 /\ Elite!Atan2(d, a) \in -1 .. 2
    BY <2>1, Atan2Turn
  <2>6. /\ w[1] = m[1][4] /\ w[2] = m[2][4] /\ w[3] = m[3][4]
        /\ w[4] = Elite!Atan2(h, i) /\ w[5] = pitch /\ w[6] = Elite!Atan2(d, a)
    BY <2>4
  <2> DEFINE cp == Elite!Cos(pitch)
             sp == Elite!Sin(pitch)
  <2> HIDE DEF cp, sp
  <2>7. /\ a = a * cp /\ b = a * sp * h - d * i /\ c = a * sp * i + d * h
        /\ d = d * cp /\ e = d * sp * h + a * i /\ f = d * sp * i - a * h
        /\ g = -sp /\ h = cp * h /\ i = cp * i
    <3>1. cp = 1 /\ sp = 0
      BY <2>3 DEF cp, sp
    <3>2. g + sp = 0 /\ g \in Int /\ sp \in Int
      BY <1>4, <3>1
    <3>3. g = -sp
      BY <3>2
    <3> QED BY <1>1, <2>1, <3>1, <3>3 DEF Units
  <2>8. Rpy(m, i, h, cp, sp, a, d)
    BY <2>7, Isometry4 DEF Rpy, a, b, c, d, e, f, g, h, i
  <2>9. Rpy(m, Elite!Cos(w[4]), Elite!Sin(w[4]), Elite!Cos(w[5]), Elite!Sin(w[5]),
               Elite!Cos(w[6]), Elite!Sin(w[6]))
    BY <2>5, <2>6, <2>8 DEF cp, sp
  <2>10. Elite!ToMatrix(w) = m
    BY <2>6, <2>9, AnglesOf
  <2> QED BY <2>2, <2>4, <2>5, <2>6, <2>10 DEF w
<1>5. CASE g # 0
  <2>1. /\ a = 0 /\ d = 0 /\ h = 0 /\ i = 0 /\ Turn(0, -g) /\ Turn(e, b)
        /\ c = -(g * e) /\ f = g * b
    BY <1>1, <1>2, <1>5 DEF RightHanded, Units, Turn
  <2>2. pitch = Elite!Atan2(-g, 0)
    BY <2>1 DEF pitch, Elite!Norm2
  <2>3. Elite!Cos(pitch) = 0 /\ Elite!Sin(pitch) = -g /\ pitch \in -1 .. 2
    BY <2>1, <2>2, Atan2Turn
  <2>4. w = <<m[1][4], m[2][4], m[3][4], IF pitch > 0 THEN twist ELSE -twist, pitch, 0>>
    BY <1>3, <2>3
  <2>5. pitch > 0 <=> -g > 0
    <3>1. CASE -g = 1
      BY <2>2, <3>1 DEF Elite!Atan2
    <3>2. CASE -g = -1
      BY <2>2, <3>2 DEF Elite!Atan2
    <3> QED BY <1>1, <1>5, <3>1, <3>2 DEF Units
  <2>6. /\ Elite!Cos(twist) = e /\ Elite!Sin(twist) = b /\ twist \in -1 .. 2
        /\ Elite!Cos(-twist) = e /\ Elite!Sin(-twist) = -b
    <3>1. Elite!Cos(twist) = e /\ Elite!Sin(twist) = b /\ twist \in -1 .. 2
      BY <2>1, Atan2Turn DEF twist
    <3>2. twist \in Int /\ -twist \in Int /\ -twist + twist = 0
      BY <3>1
    <3> QED BY <3>1, <3>2, OppositeAngle
  <2>7. Elite!Cos(0) = 1 /\ Elite!Sin(0) = 0
    BY CosTable, SinTable
  <2>8. /\ w[1] = m[1][4] /\ w[2] = m[2][4] /\ w[3] = m[3][4]
        /\ w[4] = (IF pitch > 0 THEN twist ELSE -twist) /\ w[5] = pitch /\ w[6] = 0
    BY <2>4
  <2> DEFINE sr == Elite!Sin(w[4])
  <2>9. Elite!Cos(w[4]) = e /\ sr = -(g * b) /\ w[4] \in -2 .. 2
    BY <1>1, <1>5, <2>5, <2>6, <2>8 DEF Units
  <2> HIDE DEF sr
  <2>10. /\ a = 1 * 0 /\ b = 1 * (-g) * sr - 0 * e /\ c = 1 * (-g) * e + 0 * sr
         /\ d = 0 * 0 /\ e = 0 * (-g) * sr + 1 * e /\ f = 0 * (-g) * e - 1 * sr
         /\ g = -(-g) /\ h = 0 * sr /\ i = 0 * e
    BY <1>1, <1>5, <2>1, <2>9 DEF Units
  <2>11. Rpy(m, e, sr, 0, -g, 1, 0)
    BY <2>10, Isometry4 DEF Rpy, a, b, c, d, e, f, g, h, i
  <2>12. Rpy(m, Elite!Cos(w[4]), Elite!Sin(w[4]), Elite!Cos(w[5]), Elite!Sin(w[5]),
                Elite!Cos(w[6]), Elite!Sin(w[6]))
    BY <2>3, <2>7, <2>8, <2>9, <2>11 DEF sr
  <2>13. Elite!ToMatrix(w) = m
    BY <2>8, <2>12, AnglesOf
  <2> QED BY <2>3, <2>4, <2>8, <2>9, <2>13 DEF w
<1> QED BY <1>4, <1>5

\* The two plugins use the same trigonometry.
LEMMA SameTrigonometry ==
    /\ \A q : Eigen!Cos(q) = Elite!Cos(q) /\ Eigen!Sin(q) = Elite!Sin(q)
    /\ \A x, y : Eigen!Atan2(y, x) = Elite!Atan2(y, x) /\ Eigen!Norm2(x, y) = Elite!Norm2(x, y)
<1>1. \A q : Eigen!Cos(q) = Elite!Cos(q)
  BY DEF Eigen!Cos, Elite!Cos
<1>2. \A q : Eigen!Sin(q) = Elite!Sin(q)
  BY <1>1 DEF Eigen!Sin, Elite!Sin
<1>3. \A x, y : Eigen!Atan2(y, x) = Elite!Atan2(y, x) /\ Eigen!Norm2(x, y) = Elite!Norm2(x, y)
  BY DEF Eigen!Atan2, Elite!Atan2, Eigen!Norm2, Elite!Norm2
<1> QED BY <1>1, <1>2, <1>3

\* The vector that the eigen plugin makes of an isometry has that isometry as its
\* matrix.
LEMMA RoundTripEigen ==
    ASSUME NEW m, Isometry(m)
    PROVE  /\ Elite!ToMatrix(Eigen!ToVector(m)) = m
           /\ LET w == Eigen!ToVector(m)
              IN  /\ w[1] = m[1][4] /\ w[2] = m[2][4] /\ w[3] = m[3][4]
                  /\ w[4] \in -1 .. 2 /\ w[5] \in -1 .. 2 /\ w[6] \in 0 .. 2
                  /\ w = <<w[1], w[2], w[3], w[4], w[5], w[6]>>
<1> DEFINE w == Eigen!ToVector(m)
           a == m[1][1]  b == m[1][2]  c == m[1][3]
           d == m[2][1]  e == m[2][2]  f == m[2][3]
           g == m[3][1]  h == m[3][2]  i == m[3][3]
           first == Elite!Atan2(d, a)
           cosY  == Elite!Norm2(i, h)
           z == IF first < 0 THEN first + 2 ELSE first
           y == Elite!Atan2(-g, IF first < 0 THEN -cosY ELSE cosY)
           cy == Elite!Cos(z)  sy == Elite!Sin(z)
           cp == Elite!Cos(y)  sp == Elite!Sin(y)
           x == Elite!Atan2(sy * c - cy * f, cy * e - sy * b)
           cr == Elite!Cos(x)  sr == Elite!Sin(x)
<1>1. /\ a \in Units /\ b \in Units /\ c \in Units /\ d \in Units /\ e \in Units /\ f \in Units
      /\ g \in Units /\ h \in Units /\ i \in Units
  BY UnitEntries
<1>2. RightHanded(a, b, c, d, e, f, g, h, i)
  BY DEF Isometry
<1>3. w = <<m[1][4], m[2][4], m[3][4], x, y, z>>
  BY SameTrigonometry DEF Eigen!ToVector, Eigen!EulerAngles210
<1> HIDE DEF w, a, b, c, d, e, f, g, h, i, first, cosY, z, y, x, cy, sy, cp, sp, cr, sr
<1>4. /\ w[1] = m[1][4] /\ w[2] = m[2][4] /\ w[3] = m[3][4]
      /\ w[4] = x /\ w[5] = y /\ w[6] = z
  BY <1>3
<1> DEFINE InRange ==
      /\ x \in -1 .. 2 /\ y \in -1 .. 2 /\ z \in 0 .. 2
      /\ a = cy * cp /\ b = cy * sp * sr - sy * cr /\ c = cy * sp * cr + sy * sr
      /\ d = sy * cp /\ e = sy * sp * sr + cy * cr /\ f = sy * sp * cr - cy * sr
      /\ g = -sp /\ h = cp * sr /\ i = cp * cr
<1>5. ASSUME Turn(cy * e - sy * b, sy * c - cy * f)
      PROVE  cr = cy * e - sy * b /\ sr = sy * c - cy * f /\ x \in -1 .. 2
  BY <1>5, Atan2Turn DEF x, cr, sr
<1>6. ASSUME g = 0 /\ d >= 0
      PROVE  InRange
  <2>1. Turn(a, d) /\ (i # 0 \/ h # 0)
    BY <1>1, <1>2, <1>6 DEF RightHanded, Units, Turn
  <2>2. first \in -1 .. 2 /\ Elite!Cos(first) = a /\ Elite!Sin(first) = d
    BY <2>1, Atan2Turn DEF first
  <2>3. ~(first < 0)
    BY <1>1, <1>6 DEF first, Elite!Atan2, Units
  <2>4. z = first /\ cosY = 1
    BY <1>1, <2>1, <2>3 DEF z, cosY, Elite!Norm2
  <2>5. y = Elite!Atan2(0, 1) /\ Turn(1, 0)
    BY <1>6, <2>3, <2>4 DEF y, Turn
  <2>6. cp = 1 /\ sp = 0 /\ y \in -1 .. 2
    BY <2>5, Atan2Turn DEF cp, sp
  <2>7. cy = a /\ sy = d /\ z \in 0 .. 2
    BY <2>2, <2>3, <2>4 DEF cy, sy
  <2>8. Turn(a * e - d * b, d * c - a * f)
    BY <1>1, <1>2, <1>6, <2>1 DEF RightHanded, Units, Turn
  <2>9. cr = a * e - d * b /\ sr = d * c - a * f /\ x \in -1 .. 2
    BY <1>5, <2>7, <2>8
  <2>10. g = -sp
    <3>1. g + sp = 0 /\ g \in Int /\ sp \in Int
      BY <1>6, <2>6
    <3> QED BY <3>1
  <2>11. /\ a = cy * cp /\ b = cy * sp * sr - sy * cr /\ c = cy * sp * cr + sy * sr
         /\ d = sy * cp /\ e = sy * sp * sr + cy * cr /\ f = sy * sp * cr - cy * sr
         /\ h = cp * sr /\ i = cp * cr
    BY <1>1, <1>2, <1>6, <2>6, <2>7, <2>9 DEF RightHanded, Units
  <2> QED BY <2>6, <2>7, <2>9, <2>10, <2>11, Zenon
<1>7. ASSUME g = 0 /\ d < 0
      PROVE  InRange
  <2>1. d = -1 /\ a = 0 /\ (i # 0 \/ h # 0) /\ Turn(0, -1)
    BY <1>1, <1>2, <1>7 DEF RightHanded, Units, Turn
  <2>2. first = -1
    BY <2>1 DEF first, Elite!Atan2
  <2>3. z = 1 /\ cosY = 1
    BY <1>1, <2>1, <2>2 DEF z, cosY, Elite!Norm2
  <2>4. y = Elite!Atan2(0, -1) /\ Turn(-1, 0)
    BY <1>7, <2>2, <2>3 DEF y, Turn
  <2>5. cp = -1 /\ sp = 0 /\ y \in -1 .. 2
    BY <2>4, Atan2Turn DEF cp, sp
  <2>6. cy = 0 /\ sy = 1
    BY <2>3, CosTable, SinTable DEF cy, sy
  <2>7. Turn(-b, c)
    BY <1>1, <1>2, <1>7, <2>1 DEF RightHanded, Units, Turn
  <2>8. cy * e - sy * b = -b /\ sy * c - cy * f = c
    BY <1>1, <2>6 DEF Units
  <2>9. cr = -b /\ sr = c /\ x \in -1 .. 2
    BY <1>5, <2>7, <2>8
  <2>10. g = -sp
    <3>1. g + sp = 0 /\ g \in Int /\ sp \in Int
      BY <1>7, <2>5
    <3> QED BY <3>1
  <2>11. /\ a = cy * cp /\ b = cy * sp * sr - sy * cr /\ c = cy * sp * cr + sy * sr
         /\ d = sy * cp /\ e = sy * sp * sr + cy * cr /\ f = sy * sp * cr - cy * sr
         /\ h = cp * sr /\ i = cp * cr
    BY <1>1, <1>2, <1>7, <2>1, <2>5, <2>6, <2>9 DEF RightHanded, Units
  <2>12. z \in 0 .. 2
    BY <2>3
  <2> QED BY <2>5, <2>9, <2>10, <2>11, <2>12, Zenon
<1>8. ASSUME g # 0
      PROVE  InRange
  <2>1. /\ a = 0 /\ d = 0 /\ h = 0 /\ i = 0 /\ Turn(0, -g) /\ Turn(e, -f)
        /\ b = f * g /\ c = -(g * e)
    BY <1>1, <1>2, <1>8 DEF RightHanded, Units, Turn
  <2>2. first = 0
    BY <2>1 DEF first, Elite!Atan2
  <2>3. z = 0 /\ cosY = 0
    BY <2>1, <2>2 DEF z, cosY, Elite!Norm2
  <2>4. y = Elite!Atan2(-g, 0)
    BY <2>2, <2>3 DEF y
  <2>5. cp = 0 /\ sp = -g /\ y \in -1 .. 2
    BY <2>1, <2>4, Atan2Turn DEF cp, sp
  <2>6. cy = 1 /\ sy = 0
    BY <2>3, CosTable, SinTable DEF cy, sy
  <2>7. cy * e - sy * b = e /\ sy * c - cy * f = -f
    BY <1>1, <2>6 DEF Units
  <2>8. cr = e /\ sr = -f /\ x \in -1 .. 2
    BY <1>5, <2>1, <2>7
  <2>9. g = -sp
    BY <1>1, <2>5 DEF Units
  <2>10. /\ a = cy * cp /\ b = cy * sp * sr - sy * cr /\ c = cy * sp * cr + sy * sr
         /\ d = sy * cp /\ e = sy * sp * sr + cy * cr /\ f = sy * sp * cr - cy * sr
         /\ h = cp * sr /\ i = cp * cr
    BY <1>1, <2>1, <2>5, <2>6, <2>8 DEF Units
  <2>11. z \in 0 .. 2
    BY <2>3
  <2> QED BY <2>5, <2>8, <2>9, <2>10, <2>11, Zenon
<1>9. InRange
  <2>1. (g = 0 /\ d >= 0) \/ (g = 0 /\ d < 0) \/ g # 0
    BY <1>1 DEF Units
  <2> HIDE DEF InRange
  <2> QED BY <1>6, <1>7, <1>8, <2>1, Zenon
<1>10. Rpy(m, cr, sr, cp, sp, cy, sy)
  BY <1>9, Isometry4 DEF Rpy, a, b, c, d, e, f, g, h, i
<1>11. Elite!ToMatrix(w) = m
  BY <1>4, <1>10, AnglesOf DEF cr, sr, cp, sp, cy, sy
<1> QED BY <1>3, <1>4, <1>9, <1>11 DEF w

\* Matrices are multiplied alike in both plugins.
LEMMA Products ==
    /\ \A l, r : Eigen!EigenProduct(l, r) = Elite!Product(l, r)
    /\ \A l, r : Elite!Product(l, r) = [i \in Rows |-> [j \in Rows |-> Elite!Times(l, r, i, j)]]
<1>1. \A l, r, i, j : Eigen!Times(l, r, i, j) = Elite!Times(l, r, i, j)
  BY DEF Eigen!Times, Elite!Times, Eigen!Double, Elite!Double, Eigen!Rows, Elite!Rows
<1>2. \A l, r : Elite!Product(l, r) = [i \in Rows |-> [j \in Rows |-> Elite!Times(l, r, i, j)]]
  BY DEF Elite!Product, Elite!Matrix, Elite!Rows, Rows
<1>3. \A l, r : Eigen!EigenProduct(l, r) = [i \in Rows |-> [j \in Rows |-> Eigen!Times(l, r, i, j)]]
  BY DEF Eigen!EigenProduct, Eigen!Matrix, Eigen!Rows, Rows
<1> QED BY <1>1, <1>2, <1>3

\* The sum that an entry of a product is.
Sum(l, r, i, j) == l[i][1] * r[1][j] + l[i][2] * r[2][j] + l[i][3] * r[3][j] + l[i][4] * r[4][j]

\* An entry of a product is its sum, unless that overflows.
LEMMA ProductEntries ==
    ASSUME NEW l \in IntMatrices, NEW r \in IntMatrices, NEW i \in Rows, NEW j \in Rows
    PROVE  /\ Sum(l, r, i, j) \in Int
           /\ Elite!Product(l, r)[i][j] = IF Sum(l, r, i, j) \in Doubles THEN Sum(l, r, i, j) ELSE NonFinite
<1>1. Elite!Product(l, r)[i][j] = Elite!Times(l, r, i, j)
  BY Products
<1>2. \A k \in Rows : l[i][k] \in Int /\ r[k][j] \in Int
  BY DEF IntMatrices
<1>3. NonFinite \notin {l[i][k] : k \in Rows} \cup {r[k][j] : k \in Rows}
  BY <1>2, NonFiniteAssumption
<1>4. Sum(l, r, i, j) \in Int
  BY <1>2 DEF Rows, Sum
<1>5. Elite!Times(l, r, i, j) = Elite!Double(Sum(l, r, i, j))
  BY <1>3 DEF Elite!Times, Elite!Rows, Rows, Sum
<1> QED BY <1>1, <1>4, <1>5 DEF Elite!Double, Doubles

\* The entries of a rotation are doubles.
LEMMA SmallDoubles == Units \subseteq Doubles
  BY HugeAssumption DEF Units, Doubles

\* The rotations about one axis, by the cosine and sine of the angle.
AboutX(m, c, s) ==
    /\ m \in IntMatrices
    /\ m[1][1] = 1 /\ m[1][2] = 0 /\ m[1][3] = 0 /\ m[1][4] = 0
    /\ m[2][1] = 0 /\ m[2][2] = c /\ m[2][3] = -s /\ m[2][4] = 0
    /\ m[3][1] = 0 /\ m[3][2] = s /\ m[3][3] = c /\ m[3][4] = 0
    /\ m[4][1] = 0 /\ m[4][2] = 0 /\ m[4][3] = 0 /\ m[4][4] = 1

AboutY(m, c, s) ==
    /\ m \in IntMatrices
    /\ m[1][1] = c /\ m[1][2] = 0 /\ m[1][3] = s /\ m[1][4] = 0
    /\ m[2][1] = 0 /\ m[2][2] = 1 /\ m[2][3] = 0 /\ m[2][4] = 0
    /\ m[3][1] = -s /\ m[3][2] = 0 /\ m[3][3] = c /\ m[3][4] = 0
    /\ m[4][1] = 0 /\ m[4][2] = 0 /\ m[4][3] = 0 /\ m[4][4] = 1

AboutZ(m, c, s) ==
    /\ m \in IntMatrices
    /\ m[1][1] = c /\ m[1][2] = -s /\ m[1][3] = 0 /\ m[1][4] = 0
    /\ m[2][1] = s /\ m[2][2] = c /\ m[2][3] = 0 /\ m[2][4] = 0
    /\ m[3][1] = 0 /\ m[3][2] = 0 /\ m[3][3] = 1 /\ m[3][4] = 0
    /\ m[4][1] = 0 /\ m[4][2] = 0 /\ m[4][3] = 0 /\ m[4][4] = 1

\* The rotations about one axis that the eigen plugin multiplies.
LEMMA AngleAxisEntries ==
    ASSUME NEW q \in Int, NEW axis \in 1 .. 3
    PROVE  LET m == Eigen!AngleAxis(q, axis)
           IN  /\ axis = 1 => AboutX(m, Elite!Cos(q), Elite!Sin(q))
               /\ axis = 2 => AboutY(m, Elite!Cos(q), Elite!Sin(q))
               /\ axis = 3 => AboutZ(m, Elite!Cos(q), Elite!Sin(q))
<1> DEFINE m == Eigen!AngleAxis(q, axis)
           c == Elite!Cos(q)
           s == Elite!Sin(q)
           E(i, j) == IF i = axis \/ j = axis \/ i = 4 \/ j = 4 THEN Identity[i][j]
                      ELSE IF i = j THEN c ELSE IF (j - i) % 3 = 1 THEN -s ELSE s
<1>1. m = [i \in Rows |-> [j \in Rows |->
            IF {i, j} \cap {axis, 4} # {} THEN Identity[i][j]
            ELSE IF i = j THEN c ELSE IF (j - i) % 3 = 1 THEN -s ELSE s]]
  BY EliteIdentity, SameTrigonometry DEF Eigen!AngleAxis, Eigen!Matrix, Eigen!Rows, Rows
<1>2. \A i, j \in Rows : m[i][j] = E(i, j)
  <2>1. \A i, j : ({i, j} \cap {axis, 4} # {}) <=> (i = axis \/ j = axis \/ i = 4 \/ j = 4)
    OBVIOUS
  <2> QED BY <1>1, <2>1
<1>3. c \in Int /\ s \in Int /\ -s \in Int
  BY QuarterTurn
<1>4. \A i, j \in Rows : Identity[i][j] = IF i = j THEN 1 ELSE 0
  BY EliteIdentity
<1>5. m \in IntMatrices
  <2>1. m = [i \in Rows |-> [j \in Rows |-> m[i][j]]]
    BY <1>1
  <2> HIDE DEF m, c, s
  <2>2. \A i, j \in Rows : m[i][j] \in Int
    BY <1>2, <1>3, <1>4
  <2> QED BY <2>1, <2>2 DEF IntMatrices
<1>6. /\ (2 - 1) % 3 = 1 /\ (3 - 2) % 3 = 1 /\ (1 - 3) % 3 = 1
      /\ (1 - 2) % 3 = 2 /\ (2 - 3) % 3 = 2 /\ (3 - 1) % 3 = 2
  <2>1. \A i, j \in 1 .. 3 : /\ j - i = 1 => (j - i) % 3 = 1
                             /\ j - i = 2 => (j - i) % 3 = 2
                             /\ i - j = 1 => (j - i) % 3 = 2
                             /\ i - j = 2 => (j - i) % 3 = 1
    OBVIOUS
  <2>2. 1 \in 1 .. 3 /\ 2 \in 1 .. 3 /\ 3 \in 1 .. 3 /\ 2 - 1 = 1 /\ 3 - 2 = 1 /\ 3 - 1 = 2
    OBVIOUS
  <2> QED BY <2>1, <2>2, Zenon
<1> HIDE DEF m, c, s
<1>7. 1 \in Rows /\ 2 \in Rows /\ 3 \in Rows /\ 4 \in Rows
  BY DEF Rows
<1>8. /\ m[4][1] = 0 /\ m[4][2] = 0 /\ m[4][3] = 0 /\ m[4][4] = 1
      /\ m[1][4] = 0 /\ m[2][4] = 0 /\ m[3][4] = 0
  BY <1>2, <1>4, <1>7
<1>9. axis = 1 => /\ m[1][1] = 1 /\ m[1][2] = 0 /\ m[1][3] = 0
                  /\ m[2][1] = 0 /\ m[2][2] = c /\ m[2][3] = -s
                  /\ m[3][1] = 0 /\ m[3][2] = s /\ m[3][3] = c
  BY <1>2, <1>4, <1>6, <1>7
<1>10. axis = 2 => /\ m[1][1] = c /\ m[1][2] = 0 /\ m[1][3] = s
                   /\ m[2][1] = 0 /\ m[2][2] = 1 /\ m[2][3] = 0
                   /\ m[3][1] = -s /\ m[3][2] = 0 /\ m[3][3] = c
  BY <1>2, <1>4, <1>6, <1>7
<1>11. axis = 3 => /\ m[1][1] = c /\ m[1][2] = -s /\ m[1][3] = 0
                   /\ m[2][1] = s /\ m[2][2] = c /\ m[2][3] = 0
                   /\ m[3][1] = 0 /\ m[3][2] = 0 /\ m[3][3] = 1
  BY <1>2, <1>4, <1>6, <1>7
<1>12. /\ axis = 1 => AboutX(m, c, s)
       /\ axis = 2 => AboutY(m, c, s)
       /\ axis = 3 => AboutZ(m, c, s)
  BY <1>5, <1>8, <1>9, <1>10, <1>11, Zenon DEF AboutX, AboutY, AboutZ
<1> QED BY <1>12 DEF m, c, s

\* Their product is the rotation of roll, pitch and yaw.
LEMMA RotationsMultiply ==
    ASSUME NEW cr, NEW sr, NEW cp, NEW sp, NEW cy, NEW sy, Turn(cr, sr), Turn(cp, sp), Turn(cy, sy),
           NEW X, NEW Y, NEW Z, AboutX(X, cr, sr), AboutY(Y, cp, sp), AboutZ(Z, cy, sy)
    PROVE  Rpy(Elite!Product(Z, Elite!Product(Y, X)), cr, sr, cp, sp, cy, sy)
<1> DEFINE P == Elite!Product(Y, X)
           R == Elite!Product(Z, P)
<1>1. cr \in Units /\ sr \in Units /\ cp \in Units /\ sp \in Units /\ cy \in Units /\ sy \in Units
  BY DEF Turn, Units
<1>a. X \in IntMatrices /\ Y \in IntMatrices /\ Z \in IntMatrices
  BY DEF AboutX, AboutY, AboutZ
<1>2. \A i, j \in Rows : Sum(Y, X, i, j) \in Units => P[i][j] = Sum(Y, X, i, j)
  BY <1>a, ProductEntries, SmallDoubles
<1>3. P = [i \in Rows |-> [j \in Rows |-> P[i][j]]]
  BY Products
<1> HIDE DEF P
<1> USE DEF AboutX, AboutY, AboutZ
<1>4. 1 \in Rows /\ 2 \in Rows /\ 3 \in Rows /\ 4 \in Rows
  BY DEF Rows
<1>5. P[1][1] = cp /\ P[1][2] = sp * sr /\ P[1][3] = sp * cr /\ P[1][4] = 0
  <2>1. /\ Sum(Y, X, 1, 1) = cp /\ Sum(Y, X, 1, 2) = sp * sr
        /\ Sum(Y, X, 1, 3) = sp * cr /\ Sum(Y, X, 1, 4) = 0
    BY <1>1 DEF Sum, Units
  <2>2. cp \in Units /\ sp * sr \in Units /\ sp * cr \in Units /\ 0 \in Units
    BY <1>1 DEF Units
  <2> QED BY <1>2, <1>4, <2>1, <2>2
<1>6. P[2][1] = 0 /\ P[2][2] = cr /\ P[2][3] = -sr /\ P[2][4] = 0
  <2>1. /\ Sum(Y, X, 2, 1) = 0 /\ Sum(Y, X, 2, 2) = cr
        /\ Sum(Y, X, 2, 3) = -sr /\ Sum(Y, X, 2, 4) = 0
    BY <1>1 DEF Sum, Units
  <2>2. cr \in Units /\ -sr \in Units /\ 0 \in Units
    BY <1>1 DEF Units
  <2> QED BY <1>2, <1>4, <2>1, <2>2
<1>7. P[3][1] = -sp /\ P[3][2] = cp * sr /\ P[3][3] = cp * cr /\ P[3][4] = 0
  <2>1. /\ Sum(Y, X, 3, 1) = -sp /\ Sum(Y, X, 3, 2) = cp * sr
        /\ Sum(Y, X, 3, 3) = cp * cr /\ Sum(Y, X, 3, 4) = 0
    BY <1>1 DEF Sum, Units
  <2>2. -sp \in Units /\ cp * sr \in Units /\ cp * cr \in Units /\ 0 \in Units
    BY <1>1 DEF Units
  <2> QED BY <1>2, <1>4, <2>1, <2>2
<1>8. P[4][1] = 0 /\ P[4][2] = 0 /\ P[4][3] = 0 /\ P[4][4] = 1
  <2>1. /\ Sum(Y, X, 4, 1) = 0 /\ Sum(Y, X, 4, 2) = 0
        /\ Sum(Y, X, 4, 3) = 0 /\ Sum(Y, X, 4, 4) = 1
    BY <1>1 DEF Sum, Units
  <2>2. 0 \in Units /\ 1 \in Units
    BY DEF Units
  <2> QED BY <1>2, <1>4, <2>1, <2>2
<1>9. P \in IntMatrices
  <2>1. /\ \A j \in {1, 2, 3, 4} : P[1][j] \in Int
        /\ \A j \in {1, 2, 3, 4} : P[2][j] \in Int
        /\ \A j \in {1, 2, 3, 4} : P[3][j] \in Int
        /\ \A j \in {1, 2, 3, 4} : P[4][j] \in Int
    BY <1>1, <1>5, <1>6, <1>7, <1>8 DEF Units
  <2>2. Rows = {1, 2, 3, 4}
    BY DEF Rows
  <2> QED BY <1>3, <2>1, <2>2 DEF IntMatrices
<1>10. \A i, j \in Rows : Sum(Z, P, i, j) \in Units => R[i][j] = Sum(Z, P, i, j)
  BY <1>a, <1>9, ProductEntries, SmallDoubles
<1> HIDE DEF R
<1>11. R[1][1] = cy * cp /\ R[1][2] = cy * sp * sr - sy * cr /\ R[1][3] = cy * sp * cr + sy * sr
  <2>1. /\ Sum(Z, P, 1, 1) = cy * cp /\ Sum(Z, P, 1, 2) = cy * sp * sr - sy * cr
        /\ Sum(Z, P, 1, 3) = cy * sp * cr + sy * sr
    BY <1>1, <1>5, <1>6, <1>7, <1>8 DEF Sum, Units
  <2>2. /\ cy * cp \in Units /\ cy * sp * sr - sy * cr \in Units
        /\ cy * sp * cr + sy * sr \in Units
    BY <1>1 DEF Units, Turn
  <2> QED BY <1>4, <1>10, <2>1, <2>2
<1>12. R[2][1] = sy * cp /\ R[2][2] = sy * sp * sr + cy * cr /\ R[2][3] = sy * sp * cr - cy * sr
  <2>1. /\ Sum(Z, P, 2, 1) = sy * cp /\ Sum(Z, P, 2, 2) = sy * sp * sr + cy * cr
        /\ Sum(Z, P, 2, 3) = sy * sp * cr - cy * sr
    BY <1>1, <1>5, <1>6, <1>7, <1>8 DEF Sum, Units
  <2>2. /\ sy * cp \in Units /\ sy * sp * sr + cy * cr \in Units
        /\ sy * sp * cr - cy * sr \in Units
    BY <1>1 DEF Units, Turn
  <2> QED BY <1>4, <1>10, <2>1, <2>2
<1>13. R[3][1] = -sp /\ R[3][2] = cp * sr /\ R[3][3] = cp * cr
  <2>1. Sum(Z, P, 3, 1) = -sp /\ Sum(Z, P, 3, 2) = cp * sr /\ Sum(Z, P, 3, 3) = cp * cr
    BY <1>1, <1>5, <1>6, <1>7, <1>8 DEF Sum, Units
  <2>2. -sp \in Units /\ cp * sr \in Units /\ cp * cr \in Units
    BY <1>1 DEF Units
  <2> QED BY <1>4, <1>10, <2>1, <2>2
<1>14. R[4][1] = 0 /\ R[4][2] = 0 /\ R[4][3] = 0 /\ R[4][4] = 1
  <2>1. Sum(Z, P, 4, 1) = 0 /\ Sum(Z, P, 4, 2) = 0 /\ Sum(Z, P, 4, 3) = 0 /\ Sum(Z, P, 4, 4) = 1
    BY <1>1, <1>5, <1>6, <1>7, <1>8 DEF Sum, Units
  <2>2. 0 \in Units /\ 1 \in Units
    BY DEF Units
  <2> QED BY <1>4, <1>10, <2>1, <2>2
<1> QED BY <1>11, <1>12, <1>13, <1>14 DEF R, P, Rpy

\* A vector of finite numbers has the same matrix in both plugins.
LEMMA SameMatrix ==
    ASSUME NEW v, v[4] \in Int, v[5] \in Int, v[6] \in Int
    PROVE  Eigen!IsometryOf(v) = Elite!ToMatrix(v)
<1> DEFINE cr == Elite!Cos(v[4])  sr == Elite!Sin(v[4])
           cp == Elite!Cos(v[5])  sp == Elite!Sin(v[5])
           cy == Elite!Cos(v[6])  sy == Elite!Sin(v[6])
           X == Eigen!AngleAxis(v[4], 1)
           Y == Eigen!AngleAxis(v[5], 2)
           Z == Eigen!AngleAxis(v[6], 3)
           R == Elite!Product(Z, Elite!Product(Y, X))
           m == Elite!ToMatrix(v)
           n == [i \in Rows |-> [j \in Rows |-> IF i # 4 /\ j = 4 THEN v[i] ELSE R[i][j]]]
<1>1. Eigen!IsometryOf(v) = n
  BY Products DEF Eigen!IsometryOf, Eigen!Matrix, Eigen!Rows, Rows
<1>2. Turn(cr, sr) /\ Turn(cp, sp) /\ Turn(cy, sy)
  BY QuarterTurn DEF Turn
<1>3. 1 \in 1 .. 3 /\ 2 \in 1 .. 3 /\ 3 \in 1 .. 3
  OBVIOUS
<1>4. AboutX(X, cr, sr)
  BY <1>3, AngleAxisEntries
<1>5. AboutY(Y, cp, sp)
  BY <1>3, AngleAxisEntries
<1>6. AboutZ(Z, cy, sy)
  BY <1>3, AngleAxisEntries
<1>7. /\ Rpy(m, cr, sr, cp, sp, cy, sy)
      /\ m[1][4] = v[1] /\ m[2][4] = v[2] /\ m[3][4] = v[3]
      /\ m = [i \in Rows |-> [j \in Rows |-> m[i][j]]]
  BY ToMatrixEntries
<1> HIDE DEF cr, sr, cp, sp, cy, sy, X, Y, Z, m
<1>8. Rpy(R, cr, sr, cp, sp, cy, sy)
  BY <1>2, <1>4, <1>5, <1>6, RotationsMultiply
<1> HIDE DEF R
<1>9. Rows = {1, 2, 3, 4}
  BY DEF Rows
<1>10. \A i, j \in Rows : m[i][j] = IF i # 4 /\ j = 4 THEN v[i] ELSE R[i][j]
  <2>1. /\ m[1][1] = R[1][1] /\ m[1][2] = R[1][2] /\ m[1][3] = R[1][3]
        /\ m[2][1] = R[2][1] /\ m[2][2] = R[2][2] /\ m[2][3] = R[2][3]
        /\ m[3][1] = R[3][1] /\ m[3][2] = R[3][2] /\ m[3][3] = R[3][3]
        /\ m[4][1] = R[4][1] /\ m[4][2] = R[4][2] /\ m[4][3] = R[4][3] /\ m[4][4] = R[4][4]
    BY <1>7, <1>8 DEF Rpy
  <2> QED BY <1>7, <1>9, <2>1
<1>11. m = n
  BY <1>7, <1>10
<1> QED BY <1>1, <1>11 DEF m

\* The length of a translation along an axis is one of its lengths.
LEMMA UnitDot ==
    ASSUME NEW a \in Units, NEW d \in Units, NEW g \in Units, a * a + d * d + g * g = 1,
           NEW x \in Doubles, NEW y \in Doubles, NEW z \in Doubles
    PROVE  -(a * x + d * y + g * z) \in Doubles
  BY HugeAssumption DEF Units, Doubles

\* A pose: an isometry whose translation is finite.
PoseMatrix(m) ==
    Isometry(m) /\ m[1][4] \in Doubles /\ m[2][4] \in Doubles /\ m[3][4] \in Doubles

\* The numbers of rows and columns.
LEMMA RowsAre == Rows = {1, 2, 3, 4}
  BY DEF Rows

\* The inverse of a pose as both plugins compute it, entry by entry.
LEMMA TransposedEntries ==
    ASSUME NEW m
    PROVE  LET t == Elite!Transposed(m)
           IN  /\ t[1][1] = m[1][1] /\ t[1][2] = m[2][1] /\ t[1][3] = m[3][1]
               /\ t[2][1] = m[1][2] /\ t[2][2] = m[2][2] /\ t[2][3] = m[3][2]
               /\ t[3][1] = m[1][3] /\ t[3][2] = m[2][3] /\ t[3][3] = m[3][3]
               /\ t[1][4] = -(m[1][1] * m[1][4] + m[2][1] * m[2][4] + m[3][1] * m[3][4])
               /\ t[2][4] = -(m[1][2] * m[1][4] + m[2][2] * m[2][4] + m[3][2] * m[3][4])
               /\ t[3][4] = -(m[1][3] * m[1][4] + m[2][3] * m[2][4] + m[3][3] * m[3][4])
               /\ t[4][1] = 0 /\ t[4][2] = 0 /\ t[4][3] = 0 /\ t[4][4] = 1
               /\ t = [i \in Rows |-> [j \in Rows |-> t[i][j]]]
<1>1. Elite!Transposed(m) = [i \in Rows |-> [j \in Rows |->
          IF i = 4 THEN Identity[i][j] ELSE IF j = 4 THEN -Elite!ColumnDot(m, i, m, 4) ELSE m[j][i]]]
  BY EliteIdentity DEF Elite!Transposed, Elite!Matrix, Elite!Rows, Rows
<1>2. Identity[4][1] = 0 /\ Identity[4][2] = 0 /\ Identity[4][3] = 0 /\ Identity[4][4] = 1
  BY EliteIdentity DEF Rows
<1> QED BY <1>1, <1>2, RowsAre DEF Elite!ColumnDot

\* The inverse of a pose is a pose.
LEMMA TransposedPose ==
    ASSUME NEW m, PoseMatrix(m)
    PROVE  PoseMatrix(Elite!Transposed(m))
<1> DEFINE t == Elite!Transposed(m)
<1>1. /\ t[1][1] = m[1][1] /\ t[1][2] = m[2][1] /\ t[1][3] = m[3][1]
      /\ t[2][1] = m[1][2] /\ t[2][2] = m[2][2] /\ t[2][3] = m[3][2]
      /\ t[3][1] = m[1][3] /\ t[3][2] = m[2][3] /\ t[3][3] = m[3][3]
      /\ t[1][4] = -(m[1][1] * m[1][4] + m[2][1] * m[2][4] + m[3][1] * m[3][4])
      /\ t[2][4] = -(m[1][2] * m[1][4] + m[2][2] * m[2][4] + m[3][2] * m[3][4])
      /\ t[3][4] = -(m[1][3] * m[1][4] + m[2][3] * m[2][4] + m[3][3] * m[3][4])
      /\ t[4][1] = 0 /\ t[4][2] = 0 /\ t[4][3] = 0 /\ t[4][4] = 1
      /\ t = [i \in Rows |-> [j \in Rows |-> t[i][j]]]
  BY TransposedEntries
<1> HIDE DEF t
<1>2. /\ m[1][1] \in Units /\ m[1][2] \in Units /\ m[1][3] \in Units
      /\ m[2][1] \in Units /\ m[2][2] \in Units /\ m[2][3] \in Units
      /\ m[3][1] \in Units /\ m[3][2] \in Units /\ m[3][3] \in Units
  BY UnitEntries DEF PoseMatrix
<1>3. RightHanded(m[1][1], m[1][2], m[1][3], m[2][1], m[2][2], m[2][3], m[3][1], m[3][2], m[3][3])
  BY DEF PoseMatrix, Isometry
<1>4. RightHanded(t[1][1], t[1][2], t[1][3], t[2][1], t[2][2], t[2][3], t[3][1], t[3][2], t[3][3])
  BY <1>1, <1>2, <1>3, RowsToo
<1>5. t[1][4] \in Doubles /\ t[2][4] \in Doubles /\ t[3][4] \in Doubles
  <2>1. /\ m[1][1] * m[1][1] + m[2][1] * m[2][1] + m[3][1] * m[3][1] = 1
        /\ m[1][2] * m[1][2] + m[2][2] * m[2][2] + m[3][2] * m[3][2] = 1
        /\ m[1][3] * m[1][3] + m[2][3] * m[2][3] + m[3][3] * m[3][3] = 1
    BY <1>3 DEF RightHanded
  <2>2. m[1][4] \in Doubles /\ m[2][4] \in Doubles /\ m[3][4] \in Doubles
    BY DEF PoseMatrix
  <2>3. -(m[1][1] * m[1][4] + m[2][1] * m[2][4] + m[3][1] * m[3][4]) \in Doubles
    BY <1>2, <2>1, <2>2, UnitDot
  <2>4. -(m[1][2] * m[1][4] + m[2][2] * m[2][4] + m[3][2] * m[3][4]) \in Doubles
    BY <1>2, <2>1, <2>2, UnitDot
  <2>5. -(m[1][3] * m[1][4] + m[2][3] * m[2][4] + m[3][3] * m[3][4]) \in Doubles
    BY <1>2, <2>1, <2>2, UnitDot
  <2> QED BY <1>1, <2>3, <2>4, <2>5
<1>6. Doubles \subseteq Int /\ Units \subseteq Int /\ 0 \in Int /\ 1 \in Int
  BY HugeAssumption DEF Doubles, Units
<1>7. t \in IntMatrices
  <2>1. /\ \A j \in {1, 2, 3, 4} : t[1][j] \in Int
        /\ \A j \in {1, 2, 3, 4} : t[2][j] \in Int
        /\ \A j \in {1, 2, 3, 4} : t[3][j] \in Int
        /\ \A j \in {1, 2, 3, 4} : t[4][j] \in Int
    BY <1>1, <1>2, <1>5, <1>6
  <2> QED BY <1>1, <2>1, RowsAre DEF IntMatrices
<1> QED BY <1>1, <1>4, <1>5, <1>7 DEF t, PoseMatrix, Isometry

\* What a column comes to in the frame of m: u is 0 for a direction and 1 for a place.
Back(m, k, x, y, z, u) ==
    (m[1][k] * x + m[2][k] * y + m[3][k] * z)
    - u * (m[1][k] * m[1][4] + m[2][k] * m[2][4] + m[3][k] * m[3][4])

\* The arithmetic of a change of frame.
LEMMA Distribute ==
    ASSUME NEW a \in Int, NEW d \in Int, NEW g \in Int, NEW x \in Int, NEW y \in Int, NEW z \in Int,
           NEW x4 \in Int, NEW y4 \in Int, NEW z4 \in Int, NEW u \in Int
    PROVE  (a * x + d * y + g * z) - u * (a * x4 + d * y4 + g * z4)
           = a * (x - u * x4) + d * (y - u * y4) + g * (z - u * z4)
<1>1. \A p, q, r \in Int : p * (q - u * r) = p * q - u * (p * r)
  OBVIOUS
<1>2. \A p, q, r \in Int : u * (p + q + r) = u * p + u * q + u * r
  OBVIOUS
<1>3. a * x4 \in Int /\ d * y4 \in Int /\ g * z4 \in Int /\ a * x \in Int /\ d * y \in Int /\ g * z \in Int
  OBVIOUS
<1>4. u * (a * x4) \in Int /\ u * (d * y4) \in Int /\ u * (g * z4) \in Int
  BY <1>3
<1>5. u * (a * x4 + d * y4 + g * z4) = u * (a * x4) + u * (d * y4) + u * (g * z4)
  BY <1>2, <1>3
<1>6. /\ a * (x - u * x4) = a * x - u * (a * x4)
      /\ d * (y - u * y4) = d * y - u * (d * y4)
      /\ g * (z - u * z4) = g * z - u * (g * z4)
  BY <1>1
<1> QED BY <1>3, <1>4, <1>5, <1>6

\* A change of frame turns the difference of the place and the origin.
LEMMA BackDistributes ==
    ASSUME NEW m \in IntMatrices, NEW k \in 1 .. 3, NEW x \in Int, NEW y \in Int, NEW z \in Int, NEW u \in Int
    PROVE  /\ Back(m, k, x, y, z, u) \in Int
           /\ Back(m, k, x, y, z, u)
              = m[1][k] * (x - u * m[1][4]) + m[2][k] * (y - u * m[2][4]) + m[3][k] * (z - u * m[3][4])
<1>1. /\ m[1][k] \in Int /\ m[2][k] \in Int /\ m[3][k] \in Int
      /\ m[1][4] \in Int /\ m[2][4] \in Int /\ m[3][4] \in Int
  BY DEF IntMatrices, Rows
<1>2. Back(m, k, x, y, z, u) \in Int
  BY <1>1 DEF Back
<1> QED BY <1>1, <1>2, Distribute DEF Back

\* p, q, r is x, y, z turned by the transposed of the rotation of m.
Turned(m, x, y, z, p, q, r) ==
    /\ p = m[1][1] * x + m[2][1] * y + m[3][1] * z
    /\ q = m[1][2] * x + m[2][2] * y + m[3][2] * z
    /\ r = m[1][3] * x + m[2][3] * y + m[3][3] * z

\* x, y, z is p, q, r turned by the rotation of m.
TurnedBack(m, x, y, z, p, q, r) ==
    /\ m[1][1] * p + m[1][2] * q + m[1][3] * r = x
    /\ m[2][1] * p + m[2][2] * q + m[2][3] * r = y
    /\ m[3][1] * p + m[3][2] * q + m[3][3] * r = z

\* A rotation undoes its transposed.
LEMMA UndoMatrix ==
    ASSUME NEW m, Isometry(m), NEW x \in Int, NEW y \in Int, NEW z \in Int,
           NEW p, NEW q, NEW r, Turned(m, x, y, z, p, q, r)
    PROVE  TurnedBack(m, x, y, z, p, q, r)
<1> DEFINE a == m[1][1]  b == m[1][2]  c == m[1][3]
           d == m[2][1]  e == m[2][2]  f == m[2][3]
           g == m[3][1]  h == m[3][2]  i == m[3][3]
<1>1. /\ a \in Units /\ b \in Units /\ c \in Units /\ d \in Units /\ e \in Units /\ f \in Units
      /\ g \in Units /\ h \in Units /\ i \in Units
  BY UnitEntries
<1>2. RightHanded(a, b, c, d, e, f, g, h, i)
  BY DEF Isometry
<1>3. p = a * x + d * y + g * z /\ q = b * x + e * y + h * z /\ r = c * x + f * y + i * z
  BY Zenon DEF Turned
<1> HIDE DEF a, b, c, d, e, f, g, h, i
<1>4. /\ a * p + b * q + c * r = x
      /\ d * p + e * q + f * r = y
      /\ g * p + h * q + i * r = z
  BY ONLY <1>1, <1>2, <1>3, x \in Int, y \in Int, z \in Int DEF Units, RightHanded
<1> QED BY <1>4, Zenon DEF TurnedBack, a, b, c, d, e, f, g, h, i

\* A translation undoes its opposite.
LEMMA MoveOver ==
    ASSUME NEW s, NEW x \in Int, NEW x4 \in Int, NEW u \in Int, s = x - u * x4
    PROVE  s + x4 * u = x
  OBVIOUS

\* A change of frame is undone, column by column.
LEMMA UndoColumn ==
    ASSUME NEW m, Isometry(m), NEW x \in Int, NEW y \in Int, NEW z \in Int, NEW u \in Int
    PROVE  LET p == Back(m, 1, x, y, z, u)
               q == Back(m, 2, x, y, z, u)
               r == Back(m, 3, x, y, z, u)
           IN  /\ m[1][1] * p + m[1][2] * q + m[1][3] * r + m[1][4] * u = x
               /\ m[2][1] * p + m[2][2] * q + m[2][3] * r + m[2][4] * u = y
               /\ m[3][1] * p + m[3][2] * q + m[3][3] * r + m[3][4] * u = z
<1> DEFINE p == Back(m, 1, x, y, z, u)
           q == Back(m, 2, x, y, z, u)
           r == Back(m, 3, x, y, z, u)
           x1 == x - u * m[1][4]
           y1 == y - u * m[2][4]
           z1 == z - u * m[3][4]
<1>1. m \in IntMatrices
  BY DEF Isometry
<1>2. m[1][4] \in Int /\ m[2][4] \in Int /\ m[3][4] \in Int
  BY <1>1, IntEntries
<1>3. x1 \in Int /\ y1 \in Int /\ z1 \in Int
  BY <1>2
<1>4. 1 \in 1 .. 3 /\ 2 \in 1 .. 3 /\ 3 \in 1 .. 3
  OBVIOUS
<1>5. ASSUME NEW k \in 1 .. 3
      PROVE  Back(m, k, x, y, z, u) = m[1][k] * x1 + m[2][k] * y1 + m[3][k] * z1
  <2>1. Back(m, k, x, y, z, u)
        = m[1][k] * (x - u * m[1][4]) + m[2][k] * (y - u * m[2][4]) + m[3][k] * (z - u * m[3][4])
    BY <1>1, BackDistributes
  <2> QED BY <2>1
<1> HIDE DEF x1, y1, z1
<1>6. p = m[1][1] * x1 + m[2][1] * y1 + m[3][1] * z1
  BY <1>4, <1>5, Zenon
<1>7. /\ q = m[1][2] * x1 + m[2][2] * y1 + m[3][2] * z1
      /\ r = m[1][3] * x1 + m[2][3] * y1 + m[3][3] * z1
  BY <1>4, <1>5, Zenon
<1> HIDE DEF p, q, r
<1>8. /\ m[1][1] * p + m[1][2] * q + m[1][3] * r = x1
      /\ m[2][1] * p + m[2][2] * q + m[2][3] * r = y1
      /\ m[3][1] * p + m[3][2] * q + m[3][3] * r = z1
  <2>1. Turned(m, x1, y1, z1, p, q, r)
    BY <1>5, <1>6, <1>7 DEF Turned
  <2>2. TurnedBack(m, x1, y1, z1, p, q, r)
    BY <1>3, <2>1, UndoMatrix
  <2> QED BY <2>2, Zenon DEF TurnedBack
<1>9. m[1][1] * p + m[1][2] * q + m[1][3] * r + m[1][4] * u = x
  <2> DEFINE s == m[1][1] * p + m[1][2] * q + m[1][3] * r
             w == m[1][4]
  <2>1. s = x - u * w /\ w \in Int
    BY <1>2, <1>8 DEF x1
  <2> HIDE DEF s, w
  <2>2. s + w * u = x
    BY <2>1, MoveOver
  <2> QED BY <2>2 DEF s, w
<1>10. m[2][1] * p + m[2][2] * q + m[2][3] * r + m[2][4] * u = y
  <2> DEFINE s == m[2][1] * p + m[2][2] * q + m[2][3] * r
             w == m[2][4]
  <2>1. s = y - u * w /\ w \in Int
    BY <1>2, <1>8 DEF y1
  <2> HIDE DEF s, w
  <2>2. s + w * u = y
    BY <2>1, MoveOver
  <2> QED BY <2>2 DEF s, w
<1>11. m[3][1] * p + m[3][2] * q + m[3][3] * r + m[3][4] * u = z
  <2> DEFINE s == m[3][1] * p + m[3][2] * q + m[3][3] * r
             w == m[3][4]
  <2>1. s = z - u * w /\ w \in Int
    BY <1>2, <1>8 DEF z1
  <2> HIDE DEF s, w
  <2>2. s + w * u = z
    BY <2>1, MoveOver
  <2> QED BY <2>2 DEF s, w
<1> QED BY <1>9, <1>10, <1>11 DEF p, q, r

\* The sets of numbers that matrices hold.
LEMMA IntsInDoubles == Doubles \subseteq Int /\ Units \subseteq Int /\ 0 \in Units /\ 1 \in Units
  BY HugeAssumption DEF Doubles, Units

\* The rotation of a product.
LEMMA ProductRotation ==
    ASSUME NEW l, PoseMatrix(l), NEW r, PoseMatrix(r)
    PROVE  LET P == Elite!Product(l, r)
           IN  /\ \A i, j \in 1 .. 3 : P[i][j] = Sum(l, r, i, j) /\ P[i][j] \in Units
               /\ P[4][1] = 0 /\ P[4][2] = 0 /\ P[4][3] = 0 /\ P[4][4] = 1
               /\ RightHanded(P[1][1], P[1][2], P[1][3], P[2][1], P[2][2], P[2][3], P[3][1], P[3][2], P[3][3])
<1> DEFINE P == Elite!Product(l, r)
           S(i, j) == l[i][1] * r[1][j] + l[i][2] * r[2][j] + l[i][3] * r[3][j]
<1>1. l \in IntMatrices /\ r \in IntMatrices
  BY DEF PoseMatrix, Isometry
<1>2. /\ l[4][1] = 0 /\ l[4][2] = 0 /\ l[4][3] = 0 /\ l[4][4] = 1
      /\ r[4][1] = 0 /\ r[4][2] = 0 /\ r[4][3] = 0 /\ r[4][4] = 1
  BY Isometry4 DEF PoseMatrix
<1>3. \A i \in 1 .. 3 : \A j \in 1 .. 3 : Sum(l, r, i, j) = S(i, j) /\ S(i, j) \in Int
  <2> TAKE i \in 1 .. 3
  <2> TAKE j \in 1 .. 3
  <2>1. /\ l[i][1] \in Int /\ l[i][2] \in Int /\ l[i][3] \in Int /\ l[i][4] \in Int
        /\ r[1][j] \in Int /\ r[2][j] \in Int /\ r[3][j] \in Int /\ r[4][j] = 0
    BY <1>1, <1>2 DEF IntMatrices, Rows
  <2> QED BY <2>1 DEF Sum
<1>4. RightHanded(S(1, 1), S(1, 2), S(1, 3), S(2, 1), S(2, 2), S(2, 3), S(3, 1), S(3, 2), S(3, 3))
  <2>1. /\ l[1][1] \in Units /\ l[1][2] \in Units /\ l[1][3] \in Units
        /\ l[2][1] \in Units /\ l[2][2] \in Units /\ l[2][3] \in Units
        /\ l[3][1] \in Units /\ l[3][2] \in Units /\ l[3][3] \in Units
    BY UnitEntries DEF PoseMatrix
  <2>2. /\ r[1][1] \in Units /\ r[1][2] \in Units /\ r[1][3] \in Units
        /\ r[2][1] \in Units /\ r[2][2] \in Units /\ r[2][3] \in Units
        /\ r[3][1] \in Units /\ r[3][2] \in Units /\ r[3][3] \in Units
    BY UnitEntries DEF PoseMatrix
  <2>3. /\ RightHanded(l[1][1], l[1][2], l[1][3], l[2][1], l[2][2], l[2][3], l[3][1], l[3][2], l[3][3])
        /\ RightHanded(r[1][1], r[1][2], r[1][3], r[2][1], r[2][2], r[2][3], r[3][1], r[3][2], r[3][3])
    BY DEF PoseMatrix, Isometry
  <2> DEFINE a == l[1][1]  b == l[1][2]  c == l[1][3]  a2 == r[1][1]  b2 == r[1][2]  c2 == r[1][3]
             d == l[2][1]  e == l[2][2]  f == l[2][3]  d2 == r[2][1]  e2 == r[2][2]  f2 == r[2][3]
             g == l[3][1]  h == l[3][2]  i == l[3][3]  g2 == r[3][1]  h2 == r[3][2]  i2 == r[3][3]
  <2>4. RightHanded(a * a2 + b * d2 + c * g2, a * b2 + b * e2 + c * h2, a * c2 + b * f2 + c * i2,
                    d * a2 + e * d2 + f * g2, d * b2 + e * e2 + f * h2, d * c2 + e * f2 + f * i2,
                    g * a2 + h * d2 + i * g2, g * b2 + h * e2 + i * h2, g * c2 + h * f2 + i * i2)
    <3> HIDE DEF a, b, c, d, e, f, g, h, i, a2, b2, c2, d2, e2, f2, g2, h2, i2
    <3>1. /\ a \in Units /\ b \in Units /\ c \in Units /\ d \in Units /\ e \in Units /\ f \in Units
          /\ g \in Units /\ h \in Units /\ i \in Units
      BY <2>1 DEF a, b, c, d, e, f, g, h, i
    <3>2. /\ a2 \in Units /\ b2 \in Units /\ c2 \in Units /\ d2 \in Units /\ e2 \in Units /\ f2 \in Units
          /\ g2 \in Units /\ h2 \in Units /\ i2 \in Units
      BY <2>2 DEF a2, b2, c2, d2, e2, f2, g2, h2, i2
    <3>3. RightHanded(a, b, c, d, e, f, g, h, i) /\ RightHanded(a2, b2, c2, d2, e2, f2, g2, h2, i2)
      BY <2>3 DEF a, b, c, d, e, f, g, h, i, a2, b2, c2, d2, e2, f2, g2, h2, i2
    <3> QED BY ONLY <3>1, <3>2, <3>3, SMTT(60) DEF Units, RightHanded
  <2> QED BY <2>4
<1>5. \A i \in 1 .. 3 : \A j \in 1 .. 3 : S(i, j) \in Units
  <2>1. /\ S(1, 1) \in Int /\ S(1, 2) \in Int /\ S(1, 3) \in Int
        /\ S(2, 1) \in Int /\ S(2, 2) \in Int /\ S(2, 3) \in Int
        /\ S(3, 1) \in Int /\ S(3, 2) \in Int /\ S(3, 3) \in Int
    BY <1>3
  <2> HIDE DEF S
  <2>2. /\ S(1, 1) * S(1, 1) + S(2, 1) * S(2, 1) + S(3, 1) * S(3, 1) = 1
        /\ S(1, 2) * S(1, 2) + S(2, 2) * S(2, 2) + S(3, 2) * S(3, 2) = 1
        /\ S(1, 3) * S(1, 3) + S(2, 3) * S(2, 3) + S(3, 3) * S(3, 3) = 1
    BY <1>4 DEF RightHanded
  <2>3. S(1, 1) \in Units /\ S(2, 1) \in Units /\ S(3, 1) \in Units
    BY <2>1, <2>2, UnitVector
  <2>4. S(1, 2) \in Units /\ S(2, 2) \in Units /\ S(3, 2) \in Units
    BY <2>1, <2>2, UnitVector
  <2>5. S(1, 3) \in Units /\ S(2, 3) \in Units /\ S(3, 3) \in Units
    BY <2>1, <2>2, UnitVector
  <2>6. 1 .. 3 = {1, 2, 3}
    OBVIOUS
  <2> QED BY <2>3, <2>4, <2>5, <2>6
<1>6. \A i, j \in Rows : Sum(l, r, i, j) \in Doubles => P[i][j] = Sum(l, r, i, j)
  BY <1>1, ProductEntries
<1> HIDE DEF P, S
<1>7. \A i, j \in 1 .. 3 : P[i][j] = Sum(l, r, i, j) /\ P[i][j] = S(i, j) /\ P[i][j] \in Units
  <2>1. 1 .. 3 \subseteq Rows
    BY DEF Rows
  <2> QED BY <1>3, <1>5, <1>6, <2>1, SmallDoubles
<1>8. P[4][1] = 0 /\ P[4][2] = 0 /\ P[4][3] = 0 /\ P[4][4] = 1
  <2>1. /\ r[1][1] \in Int /\ r[1][2] \in Int /\ r[1][3] \in Int /\ r[1][4] \in Int
        /\ r[2][1] \in Int /\ r[2][2] \in Int /\ r[2][3] \in Int /\ r[2][4] \in Int
        /\ r[3][1] \in Int /\ r[3][2] \in Int /\ r[3][3] \in Int /\ r[3][4] \in Int
    BY <1>1, IntEntries
  <2>2. Sum(l, r, 4, 1) = 0 /\ Sum(l, r, 4, 2) = 0 /\ Sum(l, r, 4, 3) = 0 /\ Sum(l, r, 4, 4) = 1
    BY <1>2, <2>1 DEF Sum
  <2>3. 0 \in Doubles /\ 1 \in Doubles
    BY SmallDoubles, IntsInDoubles
  <2> QED BY <1>6, <2>2, <2>3, RowsAre
<1>9. RightHanded(P[1][1], P[1][2], P[1][3], P[2][1], P[2][2], P[2][3], P[3][1], P[3][2], P[3][3])
  <2>1. 1 \in 1 .. 3 /\ 2 \in 1 .. 3 /\ 3 \in 1 .. 3
    OBVIOUS
  <2>2. /\ P[1][1] = S(1, 1) /\ P[1][2] = S(1, 2) /\ P[1][3] = S(1, 3)
        /\ P[2][1] = S(2, 1) /\ P[2][2] = S(2, 2) /\ P[2][3] = S(2, 3)
        /\ P[3][1] = S(3, 1) /\ P[3][2] = S(3, 2) /\ P[3][3] = S(3, 3)
    BY <1>7, <2>1
  <2> QED BY <1>4, <2>2
<1> QED BY <1>7, <1>8, <1>9 DEF P

\* A product of poses is one, unless a length overflows.
LEMMA ProductPose ==
    ASSUME NEW l, PoseMatrix(l), NEW r, PoseMatrix(r)
    PROVE  LET P == Elite!Product(l, r)
           IN  /\ P = [i \in Rows |-> [j \in Rows |-> P[i][j]]]
               /\ \A i \in 1 .. 3 : P[i][4] = IF Sum(l, r, i, 4) \in Doubles THEN Sum(l, r, i, 4) ELSE NonFinite
               /\ P[1][4] # NonFinite /\ P[2][4] # NonFinite /\ P[3][4] # NonFinite => PoseMatrix(P)
               /\ Elite!MatrixFinite(P) <=> P[1][4] # NonFinite /\ P[2][4] # NonFinite /\ P[3][4] # NonFinite
<1> DEFINE P == Elite!Product(l, r)
<1>1. P = [i \in Rows |-> [j \in Rows |-> P[i][j]]]
  BY Products
<1>2. \A i \in 1 .. 3 : P[i][4] = IF Sum(l, r, i, 4) \in Doubles THEN Sum(l, r, i, 4) ELSE NonFinite
  <2>1. 1 .. 3 \subseteq Rows /\ 4 \in Rows
    BY DEF Rows
  <2> QED BY <2>1, ProductEntries DEF PoseMatrix, Isometry
<1>3. /\ \A i, j \in 1 .. 3 : P[i][j] \in Units
      /\ P[4][1] = 0 /\ P[4][2] = 0 /\ P[4][3] = 0 /\ P[4][4] = 1
      /\ RightHanded(P[1][1], P[1][2], P[1][3], P[2][1], P[2][2], P[2][3], P[3][1], P[3][2], P[3][3])
  BY ProductRotation
<1> HIDE DEF P
<1>4. /\ P[1][1] \in Units /\ P[1][2] \in Units /\ P[1][3] \in Units
      /\ P[2][1] \in Units /\ P[2][2] \in Units /\ P[2][3] \in Units
      /\ P[3][1] \in Units /\ P[3][2] \in Units /\ P[3][3] \in Units
  BY <1>3
<1>5. ASSUME P[1][4] # NonFinite, P[2][4] # NonFinite, P[3][4] # NonFinite
      PROVE  PoseMatrix(P)
  <2>1. P[1][4] \in Doubles /\ P[2][4] \in Doubles /\ P[3][4] \in Doubles
    BY <1>2, <1>5
  <2>2. /\ \A j \in {1, 2, 3, 4} : P[1][j] \in Int
        /\ \A j \in {1, 2, 3, 4} : P[2][j] \in Int
        /\ \A j \in {1, 2, 3, 4} : P[3][j] \in Int
        /\ \A j \in {1, 2, 3, 4} : P[4][j] \in Int
    BY <1>3, <1>4, <2>1, IntsInDoubles
  <2>3. P \in IntMatrices
    BY <1>1, <2>2, RowsAre DEF IntMatrices
  <2> QED BY <1>3, <2>1, <2>3 DEF PoseMatrix, Isometry
<1>6. Elite!MatrixFinite(P) <=> P[1][4] # NonFinite /\ P[2][4] # NonFinite /\ P[3][4] # NonFinite
  <2>1. /\ \A j \in {1, 2, 3} : P[1][j] # NonFinite
        /\ \A j \in {1, 2, 3} : P[2][j] # NonFinite
        /\ \A j \in {1, 2, 3} : P[3][j] # NonFinite
        /\ \A j \in {1, 2, 3, 4} : P[4][j] # NonFinite
    BY <1>3, <1>4, IntsInDoubles, NonFiniteAssumption
  <2>2. Elite!MatrixFinite(P) <=> \A i, j \in {1, 2, 3, 4} : P[i][j] # NonFinite
    BY RowsAre DEF Elite!MatrixFinite, Elite!Rows, Rows
  <2> QED BY <2>1, <2>2
<1> QED BY <1>1, <1>2, <1>5, <1>6 DEF P

\* The entries of a pose are finite.
LEMMA FiniteEntries ==
    ASSUME NEW m, PoseMatrix(m), NEW i \in Rows, NEW j \in Rows
    PROVE  m[i][j] \in Doubles
<1>1. /\ m[1][1] \in Doubles /\ m[1][2] \in Doubles /\ m[1][3] \in Doubles
      /\ m[2][1] \in Doubles /\ m[2][2] \in Doubles /\ m[2][3] \in Doubles
      /\ m[3][1] \in Doubles /\ m[3][2] \in Doubles /\ m[3][3] \in Doubles
  BY UnitEntries, SmallDoubles DEF PoseMatrix
<1>2. m[4][1] \in Doubles /\ m[4][2] \in Doubles /\ m[4][3] \in Doubles /\ m[4][4] \in Doubles
  BY Isometry4, IntsInDoubles, SmallDoubles DEF PoseMatrix
<1>3. m[1][4] \in Doubles /\ m[2][4] \in Doubles /\ m[3][4] \in Doubles
  BY DEF PoseMatrix
<1> QED BY <1>1, <1>2, <1>3, RowsAre

\* A matrix W whose columns are those of the pose b in the frame of m gives b back.
LEMMA UndoProduct ==
    ASSUME NEW m, PoseMatrix(m), NEW b, PoseMatrix(b), NEW W \in IntMatrices,
           \A j \in Rows : W[4][j] = b[4][j],
           \A j \in Rows : /\ W[1][j] = Back(m, 1, b[1][j], b[2][j], b[3][j], b[4][j])
                           /\ W[2][j] = Back(m, 2, b[1][j], b[2][j], b[3][j], b[4][j])
                           /\ W[3][j] = Back(m, 3, b[1][j], b[2][j], b[3][j], b[4][j])
    PROVE  Elite!Product(m, W) = b
<1> DEFINE P == Elite!Product(m, W)
<1>1. Isometry(m) /\ m \in IntMatrices /\ b \in IntMatrices
  BY DEF PoseMatrix, Isometry
<1>2. m[4][1] = 0 /\ m[4][2] = 0 /\ m[4][3] = 0 /\ m[4][4] = 1
  BY <1>1, Isometry4
<1>3. ASSUME NEW j \in Rows
      PROVE  /\ Sum(m, W, 1, j) = b[1][j] /\ Sum(m, W, 2, j) = b[2][j]
             /\ Sum(m, W, 3, j) = b[3][j] /\ Sum(m, W, 4, j) = b[4][j]
  <2>1. b[1][j] \in Int /\ b[2][j] \in Int /\ b[3][j] \in Int /\ b[4][j] \in Int
    BY <1>1, RowsAre DEF IntMatrices
  <2>2. W[1][j] \in Int /\ W[2][j] \in Int /\ W[3][j] \in Int /\ W[4][j] \in Int
    BY RowsAre DEF IntMatrices
  <2>3. /\ m[1][1] * W[1][j] + m[1][2] * W[2][j] + m[1][3] * W[3][j] + m[1][4] * W[4][j] = b[1][j]
        /\ m[2][1] * W[1][j] + m[2][2] * W[2][j] + m[2][3] * W[3][j] + m[2][4] * W[4][j] = b[2][j]
        /\ m[3][1] * W[1][j] + m[3][2] * W[2][j] + m[3][3] * W[3][j] + m[3][4] * W[4][j] = b[3][j]
    <3> DEFINE p == Back(m, 1, b[1][j], b[2][j], b[3][j], b[4][j])
               q == Back(m, 2, b[1][j], b[2][j], b[3][j], b[4][j])
               r == Back(m, 3, b[1][j], b[2][j], b[3][j], b[4][j])
    <3>1. /\ m[1][1] * p + m[1][2] * q + m[1][3] * r + m[1][4] * b[4][j] = b[1][j]
          /\ m[2][1] * p + m[2][2] * q + m[2][3] * r + m[2][4] * b[4][j] = b[2][j]
          /\ m[3][1] * p + m[3][2] * q + m[3][3] * r + m[3][4] * b[4][j] = b[3][j]
      BY <1>1, <2>1, UndoColumn
    <3>2. W[1][j] = p /\ W[2][j] = q /\ W[3][j] = r /\ W[4][j] = b[4][j]
      OBVIOUS
    <3> HIDE DEF p, q, r
    <3> QED BY <3>1, <3>2, Zenon
  <2>4. Sum(m, W, 4, j) = b[4][j]
    <3>1. Sum(m, W, 4, j) = W[4][j]
      BY <1>2, <2>2 DEF Sum
    <3> QED BY <3>1
  <2> QED BY <2>3, <2>4, Zenon DEF Sum
<1>4. \A i, j \in Rows : Sum(m, W, i, j) = b[i][j]
  BY <1>3, RowsAre
<1>5. \A i, j \in Rows : P[i][j] = b[i][j]
  BY <1>1, <1>4, ProductEntries, FiniteEntries
<1>6. P = [i \in Rows |-> [j \in Rows |-> P[i][j]]]
  BY Products
<1> HIDE DEF P
<1>7. b = [i \in Rows |-> [j \in Rows |-> b[i][j]]]
  BY <1>1 DEF IntMatrices
<1>8. P = b
  BY <1>5, <1>6, <1>7
<1> QED BY <1>8 DEF P

\* The inverse of a pose is one, and undoes it.
LEMMA InverseUndoes ==
    ASSUME NEW m, PoseMatrix(m)
    PROVE  Elite!Product(m, Elite!Transposed(m)) = Identity
<1> DEFINE t == Elite!Transposed(m)
           D(i, j) == Identity[i][j]
<1>1. PoseMatrix(t)
  BY TransposedPose
<1>2. t \in IntMatrices
  BY <1>1 DEF PoseMatrix, Isometry
<1>3. Isometry(Identity)
  BY EliteIdentity
<1>4. /\ D(1, 1) = 1 /\ D(1, 2) = 0 /\ D(1, 3) = 0 /\ D(1, 4) = 0
      /\ D(2, 1) = 0 /\ D(2, 2) = 1 /\ D(2, 3) = 0 /\ D(2, 4) = 0
      /\ D(3, 1) = 0 /\ D(3, 2) = 0 /\ D(3, 3) = 1 /\ D(3, 4) = 0
      /\ D(4, 1) = 0 /\ D(4, 2) = 0 /\ D(4, 3) = 0 /\ D(4, 4) = 1
  BY EliteIdentity, RowsAre
<1>5. PoseMatrix(Identity)
  BY <1>3, <1>4, SmallDoubles, IntsInDoubles DEF PoseMatrix
<1>6. \A j \in Rows : t[4][j] = Identity[4][j]
  BY <1>4, TransposedEntries, RowsAre
<1>7. \A j \in Rows :
        /\ t[1][j] = Back(m, 1, D(1, j), D(2, j), D(3, j), D(4, j))
        /\ t[2][j] = Back(m, 2, D(1, j), D(2, j), D(3, j), D(4, j))
        /\ t[3][j] = Back(m, 3, D(1, j), D(2, j), D(3, j), D(4, j))
  <2>1. /\ t[1][1] = m[1][1] /\ t[1][2] = m[2][1] /\ t[1][3] = m[3][1]
        /\ t[2][1] = m[1][2] /\ t[2][2] = m[2][2] /\ t[2][3] = m[3][2]
        /\ t[3][1] = m[1][3] /\ t[3][2] = m[2][3] /\ t[3][3] = m[3][3]
        /\ t[1][4] = -(m[1][1] * m[1][4] + m[2][1] * m[2][4] + m[3][1] * m[3][4])
        /\ t[2][4] = -(m[1][2] * m[1][4] + m[2][2] * m[2][4] + m[3][2] * m[3][4])
        /\ t[3][4] = -(m[1][3] * m[1][4] + m[2][3] * m[2][4] + m[3][3] * m[3][4])
    BY TransposedEntries
  <2>2. \A k \in 1 .. 3 : m[1][k] \in Int /\ m[2][k] \in Int /\ m[3][k] \in Int
    BY DEF PoseMatrix, Isometry, IntMatrices, Rows
  <2>3. m[1][4] \in Int /\ m[2][4] \in Int /\ m[3][4] \in Int
    BY IntEntries DEF PoseMatrix, Isometry
  <2>4. \A k \in 1 .. 3 : /\ Back(m, k, 1, 0, 0, 0) = m[1][k]
                          /\ Back(m, k, 0, 1, 0, 0) = m[2][k]
                          /\ Back(m, k, 0, 0, 1, 0) = m[3][k]
    BY <2>2, <2>3 DEF Back
  <2>5. \A k \in 1 .. 3 :
          Back(m, k, 0, 0, 0, 1) = -(m[1][k] * m[1][4] + m[2][k] * m[2][4] + m[3][k] * m[3][4])
    BY <2>2, <2>3 DEF Back
  <2>6. 1 \in 1 .. 3 /\ 2 \in 1 .. 3 /\ 3 \in 1 .. 3
    OBVIOUS
  <2> HIDE DEF D, t
  <2>7. /\ t[1][1] = Back(m, 1, 1, 0, 0, 0) /\ t[1][2] = Back(m, 1, 0, 1, 0, 0)
        /\ t[1][3] = Back(m, 1, 0, 0, 1, 0) /\ t[1][4] = Back(m, 1, 0, 0, 0, 1)
    BY <2>1, <2>4, <2>5, <2>6
  <2>8. /\ t[2][1] = Back(m, 2, 1, 0, 0, 0) /\ t[2][2] = Back(m, 2, 0, 1, 0, 0)
        /\ t[2][3] = Back(m, 2, 0, 0, 1, 0) /\ t[2][4] = Back(m, 2, 0, 0, 0, 1)
    BY <2>1, <2>4, <2>5, <2>6
  <2>9. /\ t[3][1] = Back(m, 3, 1, 0, 0, 0) /\ t[3][2] = Back(m, 3, 0, 1, 0, 0)
        /\ t[3][3] = Back(m, 3, 0, 0, 1, 0) /\ t[3][4] = Back(m, 3, 0, 0, 0, 1)
    BY <2>1, <2>4, <2>5, <2>6
  <2> QED BY <1>4, <2>7, <2>8, <2>9, RowsAre
<1> QED BY <1>2, <1>5, <1>6, <1>7, UndoProduct

\* The inverse of the inverse of a pose is the pose.
LEMMA TransposedTwice ==
    ASSUME NEW m, PoseMatrix(m)
    PROVE  Elite!Transposed(Elite!Transposed(m)) = m
<1> DEFINE t == Elite!Transposed(m)
           n == Elite!Transposed(t)
           p == Back(m, 1, 0, 0, 0, 1)
           q == Back(m, 2, 0, 0, 0, 1)
           r == Back(m, 3, 0, 0, 0, 1)
<1>1. m \in IntMatrices /\ Isometry(m)
  BY DEF PoseMatrix, Isometry
<1>2. /\ t[1][1] = m[1][1] /\ t[1][2] = m[2][1] /\ t[1][3] = m[3][1]
      /\ t[2][1] = m[1][2] /\ t[2][2] = m[2][2] /\ t[2][3] = m[3][2]
      /\ t[3][1] = m[1][3] /\ t[3][2] = m[2][3] /\ t[3][3] = m[3][3]
      /\ t[1][4] = -(m[1][1] * m[1][4] + m[2][1] * m[2][4] + m[3][1] * m[3][4])
      /\ t[2][4] = -(m[1][2] * m[1][4] + m[2][2] * m[2][4] + m[3][2] * m[3][4])
      /\ t[3][4] = -(m[1][3] * m[1][4] + m[2][3] * m[2][4] + m[3][3] * m[3][4])
  BY TransposedEntries
<1>3. /\ n[1][1] = t[1][1] /\ n[1][2] = t[2][1] /\ n[1][3] = t[3][1]
      /\ n[2][1] = t[1][2] /\ n[2][2] = t[2][2] /\ n[2][3] = t[3][2]
      /\ n[3][1] = t[1][3] /\ n[3][2] = t[2][3] /\ n[3][3] = t[3][3]
      /\ n[1][4] = -(t[1][1] * t[1][4] + t[2][1] * t[2][4] + t[3][1] * t[3][4])
      /\ n[2][4] = -(t[1][2] * t[1][4] + t[2][2] * t[2][4] + t[3][2] * t[3][4])
      /\ n[3][4] = -(t[1][3] * t[1][4] + t[2][3] * t[2][4] + t[3][3] * t[3][4])
      /\ n[4][1] = 0 /\ n[4][2] = 0 /\ n[4][3] = 0 /\ n[4][4] = 1
      /\ n = [i \in Rows |-> [j \in Rows |-> n[i][j]]]
  BY TransposedEntries
<1>4. /\ m[1][1] \in Int /\ m[1][2] \in Int /\ m[1][3] \in Int /\ m[1][4] \in Int
      /\ m[2][1] \in Int /\ m[2][2] \in Int /\ m[2][3] \in Int /\ m[2][4] \in Int
      /\ m[3][1] \in Int /\ m[3][2] \in Int /\ m[3][3] \in Int /\ m[3][4] \in Int
  BY <1>1, IntEntries
<1>5. /\ m[1][1] * p + m[1][2] * q + m[1][3] * r + m[1][4] * 1 = 0
      /\ m[2][1] * p + m[2][2] * q + m[2][3] * r + m[2][4] * 1 = 0
      /\ m[3][1] * p + m[3][2] * q + m[3][3] * r + m[3][4] * 1 = 0
  BY <1>1, UndoColumn
<1>6. p = t[1][4] /\ q = t[2][4] /\ r = t[3][4]
  BY <1>2, <1>4 DEF Back
<1>7. p \in Int /\ q \in Int /\ r \in Int
  BY <1>4 DEF Back
<1> HIDE DEF p, q, r, t, n
<1>8. /\ n[1][4] = -(m[1][1] * p + m[1][2] * q + m[1][3] * r)
      /\ n[2][4] = -(m[2][1] * p + m[2][2] * q + m[2][3] * r)
      /\ n[3][4] = -(m[3][1] * p + m[3][2] * q + m[3][3] * r)
  BY <1>2, <1>3, <1>6, Zenon
<1>9. \A s, c \in Int : s + c * 1 = 0 => -s = c
  OBVIOUS
<1>10. n[1][4] = m[1][4]
  <2> DEFINE s == m[1][1] * p + m[1][2] * q + m[1][3] * r
  <2>1. s \in Int
    BY <1>4, <1>7
  <2>2. s + m[1][4] * 1 = 0 /\ n[1][4] = -s
    BY <1>5, <1>8, Zenon
  <2> HIDE DEF s
  <2> QED BY <1>4, <1>9, <2>1, <2>2, Zenon
<1>11. n[2][4] = m[2][4]
  <2> DEFINE s == m[2][1] * p + m[2][2] * q + m[2][3] * r
  <2>1. s \in Int
    BY <1>4, <1>7
  <2>2. s + m[2][4] * 1 = 0 /\ n[2][4] = -s
    BY <1>5, <1>8, Zenon
  <2> HIDE DEF s
  <2> QED BY <1>4, <1>9, <2>1, <2>2, Zenon
<1>12. n[3][4] = m[3][4]
  <2> DEFINE s == m[3][1] * p + m[3][2] * q + m[3][3] * r
  <2>1. s \in Int
    BY <1>4, <1>7
  <2>2. s + m[3][4] * 1 = 0 /\ n[3][4] = -s
    BY <1>5, <1>8, Zenon
  <2> HIDE DEF s
  <2> QED BY <1>4, <1>9, <2>1, <2>2, Zenon
<1>13. m = [i \in Rows |-> [j \in Rows |-> m[i][j]]]
  BY <1>1 DEF IntMatrices
<1>14. \A i, j \in Rows : n[i][j] = m[i][j]
  <2>1. m[4][1] = 0 /\ m[4][2] = 0 /\ m[4][3] = 0 /\ m[4][4] = 1
    BY <1>1, Isometry4
  <2> QED BY <1>2, <1>3, <1>10, <1>11, <1>12, <2>1, RowsAre
<1>15. n = m
  BY <1>3, <1>13, <1>14
<1> QED BY <1>15 DEF n, t

\* The changes of frame undo each other: a pose that comes from the world into
\* the frame of m, and back.
LEMMA FrameUndoes ==
    ASSUME NEW m, PoseMatrix(m), NEW b, PoseMatrix(b),
           PoseMatrix(Elite!Product(Elite!Transposed(m), b))
    PROVE  Elite!Product(m, Elite!Product(Elite!Transposed(m), b)) = b
<1> DEFINE t == Elite!Transposed(m)
           W == Elite!Product(t, b)
<1>1. PoseMatrix(t) /\ t \in IntMatrices /\ b \in IntMatrices /\ W \in IntMatrices
  BY TransposedPose DEF PoseMatrix, Isometry
<1>2. \A i, j \in Rows : W[i][j] = Sum(t, b, i, j)
  <2> TAKE i, j \in Rows
  <2>1. W[i][j] \in Doubles
    BY FiniteEntries
  <2>2. W[i][j] # NonFinite
    BY <2>1, IntsInDoubles, NonFiniteAssumption
  <2> QED BY <1>1, <2>2, ProductEntries
<1>3. /\ t[1][1] = m[1][1] /\ t[1][2] = m[2][1] /\ t[1][3] = m[3][1]
      /\ t[2][1] = m[1][2] /\ t[2][2] = m[2][2] /\ t[2][3] = m[3][2]
      /\ t[3][1] = m[1][3] /\ t[3][2] = m[2][3] /\ t[3][3] = m[3][3]
      /\ t[1][4] = -(m[1][1] * m[1][4] + m[2][1] * m[2][4] + m[3][1] * m[3][4])
      /\ t[2][4] = -(m[1][2] * m[1][4] + m[2][2] * m[2][4] + m[3][2] * m[3][4])
      /\ t[3][4] = -(m[1][3] * m[1][4] + m[2][3] * m[2][4] + m[3][3] * m[3][4])
      /\ t[4][1] = 0 /\ t[4][2] = 0 /\ t[4][3] = 0 /\ t[4][4] = 1
  BY TransposedEntries
<1> HIDE DEF t, W
<1>4. ASSUME NEW j \in Rows
      PROVE  /\ W[1][j] = Back(m, 1, b[1][j], b[2][j], b[3][j], b[4][j])
             /\ W[2][j] = Back(m, 2, b[1][j], b[2][j], b[3][j], b[4][j])
             /\ W[3][j] = Back(m, 3, b[1][j], b[2][j], b[3][j], b[4][j])
             /\ W[4][j] = b[4][j]
  <2>1. b[1][j] \in Int /\ b[2][j] \in Int /\ b[3][j] \in Int /\ b[4][j] \in Int
    BY <1>1, RowsAre DEF IntMatrices
  <2>2. \A h, f, g, u \in Int : f = -g => h + f * u = h - u * g
    OBVIOUS
  <2>3. /\ m[1][1] \in Int /\ m[1][2] \in Int /\ m[1][3] \in Int /\ m[1][4] \in Int
        /\ m[2][1] \in Int /\ m[2][2] \in Int /\ m[2][3] \in Int /\ m[2][4] \in Int
        /\ m[3][1] \in Int /\ m[3][2] \in Int /\ m[3][3] \in Int /\ m[3][4] \in Int
    BY IntEntries DEF PoseMatrix, Isometry
  <2>4. W[1][j] = Back(m, 1, b[1][j], b[2][j], b[3][j], b[4][j])
    <3> DEFINE g == m[1][1] * m[1][4] + m[2][1] * m[2][4] + m[3][1] * m[3][4]
               h == m[1][1] * b[1][j] + m[2][1] * b[2][j] + m[3][1] * b[3][j]
    <3>1. g \in Int /\ h \in Int /\ t[1][4] = -g /\ t[1][4] \in Int
      BY <1>3, <2>1, <2>3
    <3>2. W[1][j] = h + t[1][4] * b[4][j]
      BY <1>2, <1>3, RowsAre DEF Sum
    <3>3. Back(m, 1, b[1][j], b[2][j], b[3][j], b[4][j]) = h - b[4][j] * g
      BY Zenon DEF Back
    <3> HIDE DEF g, h
    <3>4. \A f \in Int : f = -g => h + f * b[4][j] = h - b[4][j] * g
      BY <2>1, <2>2, <3>1
    <3> QED BY <3>1, <3>2, <3>3, <3>4, Zenon
  <2>5. W[2][j] = Back(m, 2, b[1][j], b[2][j], b[3][j], b[4][j])
    <3> DEFINE g == m[1][2] * m[1][4] + m[2][2] * m[2][4] + m[3][2] * m[3][4]
               h == m[1][2] * b[1][j] + m[2][2] * b[2][j] + m[3][2] * b[3][j]
    <3>1. g \in Int /\ h \in Int /\ t[2][4] = -g /\ t[2][4] \in Int
      BY <1>3, <2>1, <2>3
    <3>2. W[2][j] = h + t[2][4] * b[4][j]
      BY <1>2, <1>3, RowsAre DEF Sum
    <3>3. Back(m, 2, b[1][j], b[2][j], b[3][j], b[4][j]) = h - b[4][j] * g
      BY Zenon DEF Back
    <3> HIDE DEF g, h
    <3>4. \A f \in Int : f = -g => h + f * b[4][j] = h - b[4][j] * g
      BY <2>1, <2>2, <3>1
    <3> QED BY <3>1, <3>2, <3>3, <3>4, Zenon
  <2>6. W[3][j] = Back(m, 3, b[1][j], b[2][j], b[3][j], b[4][j])
    <3> DEFINE g == m[1][3] * m[1][4] + m[2][3] * m[2][4] + m[3][3] * m[3][4]
               h == m[1][3] * b[1][j] + m[2][3] * b[2][j] + m[3][3] * b[3][j]
    <3>1. g \in Int /\ h \in Int /\ t[3][4] = -g /\ t[3][4] \in Int
      BY <1>3, <2>1, <2>3
    <3>2. W[3][j] = h + t[3][4] * b[4][j]
      BY <1>2, <1>3, RowsAre DEF Sum
    <3>3. Back(m, 3, b[1][j], b[2][j], b[3][j], b[4][j]) = h - b[4][j] * g
      BY Zenon DEF Back
    <3> HIDE DEF g, h
    <3>4. \A f \in Int : f = -g => h + f * b[4][j] = h - b[4][j] * g
      BY <2>1, <2>2, <3>1
    <3> QED BY <3>1, <3>2, <3>3, <3>4, Zenon
  <2>7. W[4][j] = b[4][j]
    <3>1. W[4][j] = Sum(t, b, 4, j)
      BY <1>2, RowsAre
    <3>2. Sum(t, b, 4, j) = b[4][j]
      BY <1>3, <2>1 DEF Sum
    <3> QED BY <3>1, <3>2
  <2> QED BY <2>4, <2>5, <2>6, <2>7
<1>5. Elite!Product(m, W) = b
  BY <1>1, <1>4, UndoProduct
<1> QED BY <1>5 DEF W, t

\* What an operation returns: an error and no output, or what f is for.
Reply(error, out) == [error |-> error, out |-> out]

\* The fields of a reply.
LEMMA ReplyFields ==
    ASSUME NEW e, NEW o
    PROVE  /\ Reply(e, o).error = e /\ Reply(e, o).out = o
           /\ Ok(Reply(e, o)) <=> e = "SUCCESS"
  BY DEF Reply, Ok

\* The checks of the two plugins on their arguments are the same.
LEMMA SameChecks ==
    ASSUME NEW m
    PROVE  /\ Elite!Valid(m) = Reply(Elite!Validate(m), m)
           /\ Eigen!Valid(m) = Reply(Elite!Validate(m), m)
           /\ Eigen!MatrixFinite(m) <=> Elite!MatrixFinite(m)
           /\ Eigen!VectorFinite(m) <=> Elite!VectorFinite(m)
           /\ Elite!FiniteM(m) = Reply(IF Elite!MatrixFinite(m) THEN "SUCCESS" ELSE "INVALID_INPUT", m)
           /\ Eigen!FiniteM(m) = Reply(IF Elite!MatrixFinite(m) THEN "SUCCESS" ELSE "INVALID_INPUT", m)
           /\ Elite!FiniteV(m) = Reply(IF Elite!VectorFinite(m) THEN "SUCCESS" ELSE "INVALID_INPUT", m)
           /\ Eigen!FiniteV(m) = Reply(IF Elite!VectorFinite(m) THEN "SUCCESS" ELSE "INVALID_INPUT", m)
<1>1. Eigen!MatrixFinite(m) <=> Elite!MatrixFinite(m)
  BY DEF Eigen!MatrixFinite, Elite!MatrixFinite, Eigen!Rows, Elite!Rows
<1>2. Eigen!VectorFinite(m) <=> Elite!VectorFinite(m)
  BY DEF Eigen!VectorFinite, Elite!VectorFinite
<1>3. Elite!Valid(m) = Reply(Elite!Validate(m), m)
  BY DEF Elite!Valid, Elite!Failure, Reply
<1>4. Eigen!Valid(m) = Reply(Elite!Validate(m), m)
  <2>1. Eigen!Axes = Elite!Axes
    BY DEF Eigen!Axes, Elite!Axes
  <2>2. \A i, j : Eigen!ColumnDot(m, i, m, j) = Elite!ColumnDot(m, i, m, j)
    BY DEF Eigen!ColumnDot, Elite!ColumnDot
  <2>3. Eigen!Determinant3x3(m) = Elite!Determinant3x3(m)
    BY DEF Eigen!Determinant3x3, Elite!Determinant3x3
  <2>4. Eigen!ValidateRotation(m) =
          IF \E i, j \in Elite!Axes : Elite!ColumnDot(m, i, m, j) # Elite!Identity[i][j]
          THEN "INVALID_ROTATION_MATRIX"
          ELSE IF Elite!Determinant3x3(m) = 0 THEN "SINGULAR_MATRIX"
          ELSE IF Elite!Determinant3x3(m) # 1 THEN "INVALID_ROTATION_MATRIX"
          ELSE "SUCCESS"
    BY <2>1, <2>2, <2>3, EliteIdentity DEF Eigen!ValidateRotation
  <2> QED BY <1>1, <2>4 DEF Eigen!Valid, Eigen!Failure, Elite!Validate, Reply
<1> QED BY <1>1, <1>2, <1>3, <1>4 DEF Elite!FiniteM, Eigen!FiniteM, Elite!FiniteV, Eigen!FiniteV,
                                     Elite!Failure, Eigen!Failure, Reply

\* The chains of operations, written out.
LEMMA EliteInverse ==
    ASSUME NEW m
    PROVE  Elite!Inverse(m) = IF Elite!Validate(m) = "SUCCESS"
                              THEN Reply(Elite!Validate(Elite!Transposed(m)), Elite!Transposed(m))
                              ELSE Reply(Elite!Validate(m), <<>>)
  BY SameChecks, ReplyFields DEF Elite!Inverse, Elite!Then, Elite!Ok, Elite!Failure, Reply

\* The inverses of the two plugins are the same.
LEMMA EigenInverse ==
    ASSUME NEW m
    PROVE  /\ Eigen!Inverse(m) = Elite!Inverse(m)
           /\ Eigen!IsometryInverse(m) = Elite!Transposed(m)
<1>1. Eigen!IsometryInverse(m) = Elite!Transposed(m)
  BY EliteIdentity DEF Eigen!IsometryInverse, Elite!Transposed, Eigen!Matrix, Elite!Matrix,
                       Eigen!Rows, Elite!Rows, Eigen!ColumnDot, Elite!ColumnDot
<1> QED BY <1>1, EliteInverse, SameChecks DEF Eigen!Inverse, Eigen!Then, Eigen!Ok, Eigen!Failure, Reply

\* Multiply checks its first argument, its second and the product.
LEMMA EliteMultiply ==
    ASSUME NEW l, NEW r
    PROVE  Elite!Multiply(l, r) =
             IF Elite!Validate(l) # "SUCCESS" THEN Reply(Elite!Validate(l), <<>>)
             ELSE IF Elite!Validate(r) # "SUCCESS" THEN Reply(Elite!Validate(r), <<>>)
             ELSE Reply(Elite!Validate(Elite!Product(l, r)), Elite!Product(l, r))
  BY SameChecks DEF Elite!Multiply, Elite!Then, Elite!Ok, Elite!Failure, Reply

\* Multiply is the same in both plugins.
LEMMA EigenMultiply ==
    ASSUME NEW l, NEW r
    PROVE  Eigen!Multiply(l, r) = Elite!Multiply(l, r)
  BY EliteMultiply, SameChecks, Products DEF Eigen!Multiply, Eigen!Then, Eigen!Ok, Eigen!Failure, Reply

\* Sums and differences of doubles are the same in both plugins.
LEMMA SameArithmetic ==
    \A x, y : /\ Eigen!Plus(x, y) = Elite!Plus(x, y)
              /\ Eigen!Minus(x, y) = Elite!Minus(x, y)
  BY DEF Eigen!Plus, Elite!Plus, Eigen!Minus, Elite!Minus, Eigen!Double, Elite!Double

\* Sums and differences, entry by entry.
SumM(l, r) == [i \in Rows |-> [j \in Rows |-> Elite!Plus(l[i][j], r[i][j])]]

DifferenceM(l, r) == [i \in Rows |-> [j \in Rows |-> Elite!Minus(l[i][j], r[i][j])]]

SumV(l, r) == [i \in 1 .. 6 |-> Elite!Plus(l[i], r[i])]

DifferenceV(l, r) == [i \in 1 .. 6 |-> Elite!Minus(l[i], r[i])]

\* The reply of an operation on two arguments that have to be finite.
Entrywise(first, second, isFinite, out) ==
    IF ~first \/ ~second THEN Reply("INVALID_INPUT", <<>>)
    ELSE Reply(IF isFinite THEN "SUCCESS" ELSE "NUMERICAL_ERROR", out)

\* Add and Subtract of matrices and vectors, written out.
LEMMA EliteSums ==
    ASSUME NEW l, NEW r
    PROVE  /\ Elite!Add(l, r) = Entrywise(Elite!MatrixFinite(l), Elite!MatrixFinite(r),
                                          Elite!MatrixFinite(SumM(l, r)), SumM(l, r))
           /\ Elite!Subtract(l, r) = Entrywise(Elite!MatrixFinite(l), Elite!MatrixFinite(r),
                                               Elite!MatrixFinite(DifferenceM(l, r)), DifferenceM(l, r))
           /\ Elite!AddV(l, r) = Entrywise(Elite!VectorFinite(l), Elite!VectorFinite(r),
                                           Elite!VectorFinite(SumV(l, r)), SumV(l, r))
           /\ Elite!SubtractV(l, r) = Entrywise(Elite!VectorFinite(l), Elite!VectorFinite(r),
                                                Elite!VectorFinite(DifferenceV(l, r)), DifferenceV(l, r))
<1>1. Elite!Add(l, r) = Entrywise(Elite!MatrixFinite(l), Elite!MatrixFinite(r), Elite!MatrixFinite(SumM(l, r)), SumM(l, r))
  <2> DEFINE out == [i \in Rows |-> [j \in Rows |-> Elite!Plus(l[i][j], r[i][j])]]
  <2>1. out = SumM(l, r)
    BY DEF SumM
  <2>2. /\ Elite!FiniteM(l).error = (IF Elite!MatrixFinite(l) THEN "SUCCESS" ELSE "INVALID_INPUT") /\ Elite!FiniteM(l).out = l
        /\ Elite!FiniteM(r).error = (IF Elite!MatrixFinite(r) THEN "SUCCESS" ELSE "INVALID_INPUT") /\ Elite!FiniteM(r).out = r
    BY SameChecks, ReplyFields
  <2>3. CASE ~Elite!MatrixFinite(l)
    BY <2>2, <2>3 DEF Elite!Add, Elite!Then, Elite!Ok, Elite!Failure, Reply, Entrywise
  <2>4. CASE Elite!MatrixFinite(l) /\ ~Elite!MatrixFinite(r)
    BY <2>2, <2>4 DEF Elite!Add, Elite!Then, Elite!Ok, Elite!Failure, Reply, Entrywise
  <2>5. CASE Elite!MatrixFinite(l) /\ Elite!MatrixFinite(r)
    <3>1. Elite!Add(l, r) = Elite!Examined(Elite!MatrixFinite(out), out)
      BY <2>2, <2>5 DEF Elite!Add, Elite!Then, Elite!Ok, Elite!Matrix, Elite!Rows, Rows
    <3> HIDE DEF out
    <3>2. Elite!Examined(Elite!MatrixFinite(out), out) = Reply(IF Elite!MatrixFinite(out) THEN "SUCCESS" ELSE "NUMERICAL_ERROR", out)
      BY SameChecks DEF Elite!Examined, Elite!Success, Elite!Failure, Reply
    <3> QED BY <2>1, <2>5, <3>1, <3>2 DEF Entrywise
  <2> QED BY <2>3, <2>4, <2>5
<1>2. Elite!Subtract(l, r) = Entrywise(Elite!MatrixFinite(l), Elite!MatrixFinite(r), Elite!MatrixFinite(DifferenceM(l, r)), DifferenceM(l, r))
  <2> DEFINE out == [i \in Rows |-> [j \in Rows |-> Elite!Minus(l[i][j], r[i][j])]]
  <2>1. out = DifferenceM(l, r)
    BY DEF DifferenceM
  <2>2. /\ Elite!FiniteM(l).error = (IF Elite!MatrixFinite(l) THEN "SUCCESS" ELSE "INVALID_INPUT") /\ Elite!FiniteM(l).out = l
        /\ Elite!FiniteM(r).error = (IF Elite!MatrixFinite(r) THEN "SUCCESS" ELSE "INVALID_INPUT") /\ Elite!FiniteM(r).out = r
    BY SameChecks, ReplyFields
  <2>3. CASE ~Elite!MatrixFinite(l)
    BY <2>2, <2>3 DEF Elite!Subtract, Elite!Then, Elite!Ok, Elite!Failure, Reply, Entrywise
  <2>4. CASE Elite!MatrixFinite(l) /\ ~Elite!MatrixFinite(r)
    BY <2>2, <2>4 DEF Elite!Subtract, Elite!Then, Elite!Ok, Elite!Failure, Reply, Entrywise
  <2>5. CASE Elite!MatrixFinite(l) /\ Elite!MatrixFinite(r)
    <3>1. Elite!Subtract(l, r) = Elite!Examined(Elite!MatrixFinite(out), out)
      BY <2>2, <2>5 DEF Elite!Subtract, Elite!Then, Elite!Ok, Elite!Matrix, Elite!Rows, Rows
    <3> HIDE DEF out
    <3>2. Elite!Examined(Elite!MatrixFinite(out), out) = Reply(IF Elite!MatrixFinite(out) THEN "SUCCESS" ELSE "NUMERICAL_ERROR", out)
      BY SameChecks DEF Elite!Examined, Elite!Success, Elite!Failure, Reply
    <3> QED BY <2>1, <2>5, <3>1, <3>2 DEF Entrywise
  <2> QED BY <2>3, <2>4, <2>5
<1>3. Elite!AddV(l, r) = Entrywise(Elite!VectorFinite(l), Elite!VectorFinite(r), Elite!VectorFinite(SumV(l, r)), SumV(l, r))
  <2> DEFINE out == [i \in 1 .. 6 |-> Elite!Plus(l[i], r[i])]
  <2>1. out = SumV(l, r)
    BY DEF SumV
  <2>2. /\ Elite!FiniteV(l).error = (IF Elite!VectorFinite(l) THEN "SUCCESS" ELSE "INVALID_INPUT") /\ Elite!FiniteV(l).out = l
        /\ Elite!FiniteV(r).error = (IF Elite!VectorFinite(r) THEN "SUCCESS" ELSE "INVALID_INPUT") /\ Elite!FiniteV(r).out = r
    BY SameChecks, ReplyFields
  <2>3. CASE ~Elite!VectorFinite(l)
    BY <2>2, <2>3 DEF Elite!AddV, Elite!Then, Elite!Ok, Elite!Failure, Reply, Entrywise
  <2>4. CASE Elite!VectorFinite(l) /\ ~Elite!VectorFinite(r)
    BY <2>2, <2>4 DEF Elite!AddV, Elite!Then, Elite!Ok, Elite!Failure, Reply, Entrywise
  <2>5. CASE Elite!VectorFinite(l) /\ Elite!VectorFinite(r)
    <3>1. Elite!AddV(l, r) = Elite!Examined(Elite!VectorFinite(out), out)
      BY <2>2, <2>5 DEF Elite!AddV, Elite!Then, Elite!Ok
    <3> HIDE DEF out
    <3>2. Elite!Examined(Elite!VectorFinite(out), out) = Reply(IF Elite!VectorFinite(out) THEN "SUCCESS" ELSE "NUMERICAL_ERROR", out)
      BY SameChecks DEF Elite!Examined, Elite!Success, Elite!Failure, Reply
    <3> QED BY <2>1, <2>5, <3>1, <3>2 DEF Entrywise
  <2> QED BY <2>3, <2>4, <2>5
<1>4. Elite!SubtractV(l, r) = Entrywise(Elite!VectorFinite(l), Elite!VectorFinite(r), Elite!VectorFinite(DifferenceV(l, r)), DifferenceV(l, r))
  <2> DEFINE out == [i \in 1 .. 6 |-> Elite!Minus(l[i], r[i])]
  <2>1. out = DifferenceV(l, r)
    BY DEF DifferenceV
  <2>2. /\ Elite!FiniteV(l).error = (IF Elite!VectorFinite(l) THEN "SUCCESS" ELSE "INVALID_INPUT") /\ Elite!FiniteV(l).out = l
        /\ Elite!FiniteV(r).error = (IF Elite!VectorFinite(r) THEN "SUCCESS" ELSE "INVALID_INPUT") /\ Elite!FiniteV(r).out = r
    BY SameChecks, ReplyFields
  <2>3. CASE ~Elite!VectorFinite(l)
    BY <2>2, <2>3 DEF Elite!SubtractV, Elite!Then, Elite!Ok, Elite!Failure, Reply, Entrywise
  <2>4. CASE Elite!VectorFinite(l) /\ ~Elite!VectorFinite(r)
    BY <2>2, <2>4 DEF Elite!SubtractV, Elite!Then, Elite!Ok, Elite!Failure, Reply, Entrywise
  <2>5. CASE Elite!VectorFinite(l) /\ Elite!VectorFinite(r)
    <3>1. Elite!SubtractV(l, r) = Elite!Examined(Elite!VectorFinite(out), out)
      BY <2>2, <2>5 DEF Elite!SubtractV, Elite!Then, Elite!Ok
    <3> HIDE DEF out
    <3>2. Elite!Examined(Elite!VectorFinite(out), out) = Reply(IF Elite!VectorFinite(out) THEN "SUCCESS" ELSE "NUMERICAL_ERROR", out)
      BY SameChecks DEF Elite!Examined, Elite!Success, Elite!Failure, Reply
    <3> QED BY <2>1, <2>5, <3>1, <3>2 DEF Entrywise
  <2> QED BY <2>3, <2>4, <2>5
<1> QED BY <1>1, <1>2, <1>3, <1>4

\* Add and Subtract are the same in both plugins.
LEMMA EigenSums ==
    ASSUME NEW l, NEW r
    PROVE  /\ Eigen!Add(l, r) = Elite!Add(l, r)
           /\ Eigen!Subtract(l, r) = Elite!Subtract(l, r)
           /\ Eigen!AddV(l, r) = Elite!AddV(l, r)
           /\ Eigen!SubtractV(l, r) = Elite!SubtractV(l, r)
<1>1. Eigen!Add(l, r) = Entrywise(Elite!MatrixFinite(l), Elite!MatrixFinite(r), Elite!MatrixFinite(SumM(l, r)), SumM(l, r))
  <2> DEFINE out == [i \in Rows |-> [j \in Rows |-> Eigen!Plus(l[i][j], r[i][j])]]
  <2>1. out = SumM(l, r)
    BY SameArithmetic DEF SumM
  <2>2. /\ Eigen!FiniteM(l).error = (IF Elite!MatrixFinite(l) THEN "SUCCESS" ELSE "INVALID_INPUT") /\ Eigen!FiniteM(l).out = l
        /\ Eigen!FiniteM(r).error = (IF Elite!MatrixFinite(r) THEN "SUCCESS" ELSE "INVALID_INPUT") /\ Eigen!FiniteM(r).out = r
    BY SameChecks, ReplyFields
  <2>3. CASE ~Elite!MatrixFinite(l)
    BY <2>2, <2>3 DEF Eigen!Add, Eigen!Then, Eigen!Ok, Eigen!Failure, Reply, Entrywise
  <2>4. CASE Elite!MatrixFinite(l) /\ ~Elite!MatrixFinite(r)
    BY <2>2, <2>4 DEF Eigen!Add, Eigen!Then, Eigen!Ok, Eigen!Failure, Reply, Entrywise
  <2>5. CASE Elite!MatrixFinite(l) /\ Elite!MatrixFinite(r)
    <3>1. Eigen!Add(l, r) = Eigen!Examined(Eigen!MatrixFinite(out), out)
      BY <2>2, <2>5 DEF Eigen!Add, Eigen!Then, Eigen!Ok, Eigen!Matrix, Eigen!Rows, Rows
    <3> HIDE DEF out
    <3>2. Eigen!Examined(Eigen!MatrixFinite(out), out) = Reply(IF Elite!MatrixFinite(out) THEN "SUCCESS" ELSE "NUMERICAL_ERROR", out)
      BY SameChecks DEF Eigen!Examined, Eigen!Success, Eigen!Failure, Reply
    <3> QED BY <2>1, <2>5, <3>1, <3>2 DEF Entrywise
  <2> QED BY <2>3, <2>4, <2>5
<1>2. Eigen!Subtract(l, r) = Entrywise(Elite!MatrixFinite(l), Elite!MatrixFinite(r), Elite!MatrixFinite(DifferenceM(l, r)), DifferenceM(l, r))
  <2> DEFINE out == [i \in Rows |-> [j \in Rows |-> Eigen!Minus(l[i][j], r[i][j])]]
  <2>1. out = DifferenceM(l, r)
    BY SameArithmetic DEF DifferenceM
  <2>2. /\ Eigen!FiniteM(l).error = (IF Elite!MatrixFinite(l) THEN "SUCCESS" ELSE "INVALID_INPUT") /\ Eigen!FiniteM(l).out = l
        /\ Eigen!FiniteM(r).error = (IF Elite!MatrixFinite(r) THEN "SUCCESS" ELSE "INVALID_INPUT") /\ Eigen!FiniteM(r).out = r
    BY SameChecks, ReplyFields
  <2>3. CASE ~Elite!MatrixFinite(l)
    BY <2>2, <2>3 DEF Eigen!Subtract, Eigen!Then, Eigen!Ok, Eigen!Failure, Reply, Entrywise
  <2>4. CASE Elite!MatrixFinite(l) /\ ~Elite!MatrixFinite(r)
    BY <2>2, <2>4 DEF Eigen!Subtract, Eigen!Then, Eigen!Ok, Eigen!Failure, Reply, Entrywise
  <2>5. CASE Elite!MatrixFinite(l) /\ Elite!MatrixFinite(r)
    <3>1. Eigen!Subtract(l, r) = Eigen!Examined(Eigen!MatrixFinite(out), out)
      BY <2>2, <2>5 DEF Eigen!Subtract, Eigen!Then, Eigen!Ok, Eigen!Matrix, Eigen!Rows, Rows
    <3> HIDE DEF out
    <3>2. Eigen!Examined(Eigen!MatrixFinite(out), out) = Reply(IF Elite!MatrixFinite(out) THEN "SUCCESS" ELSE "NUMERICAL_ERROR", out)
      BY SameChecks DEF Eigen!Examined, Eigen!Success, Eigen!Failure, Reply
    <3> QED BY <2>1, <2>5, <3>1, <3>2 DEF Entrywise
  <2> QED BY <2>3, <2>4, <2>5
<1>3. Eigen!AddV(l, r) = Entrywise(Elite!VectorFinite(l), Elite!VectorFinite(r), Elite!VectorFinite(SumV(l, r)), SumV(l, r))
  <2> DEFINE out == [i \in 1 .. 6 |-> Eigen!Plus(l[i], r[i])]
  <2>1. out = SumV(l, r)
    BY SameArithmetic DEF SumV
  <2>2. /\ Eigen!FiniteV(l).error = (IF Elite!VectorFinite(l) THEN "SUCCESS" ELSE "INVALID_INPUT") /\ Eigen!FiniteV(l).out = l
        /\ Eigen!FiniteV(r).error = (IF Elite!VectorFinite(r) THEN "SUCCESS" ELSE "INVALID_INPUT") /\ Eigen!FiniteV(r).out = r
    BY SameChecks, ReplyFields
  <2>3. CASE ~Elite!VectorFinite(l)
    BY <2>2, <2>3 DEF Eigen!AddV, Eigen!Then, Eigen!Ok, Eigen!Failure, Reply, Entrywise
  <2>4. CASE Elite!VectorFinite(l) /\ ~Elite!VectorFinite(r)
    BY <2>2, <2>4 DEF Eigen!AddV, Eigen!Then, Eigen!Ok, Eigen!Failure, Reply, Entrywise
  <2>5. CASE Elite!VectorFinite(l) /\ Elite!VectorFinite(r)
    <3>1. Eigen!AddV(l, r) = Eigen!Examined(Eigen!VectorFinite(out), out)
      BY <2>2, <2>5 DEF Eigen!AddV, Eigen!Then, Eigen!Ok
    <3> HIDE DEF out
    <3>2. Eigen!Examined(Eigen!VectorFinite(out), out) = Reply(IF Elite!VectorFinite(out) THEN "SUCCESS" ELSE "NUMERICAL_ERROR", out)
      BY SameChecks DEF Eigen!Examined, Eigen!Success, Eigen!Failure, Reply
    <3> QED BY <2>1, <2>5, <3>1, <3>2 DEF Entrywise
  <2> QED BY <2>3, <2>4, <2>5
<1>4. Eigen!SubtractV(l, r) = Entrywise(Elite!VectorFinite(l), Elite!VectorFinite(r), Elite!VectorFinite(DifferenceV(l, r)), DifferenceV(l, r))
  <2> DEFINE out == [i \in 1 .. 6 |-> Eigen!Minus(l[i], r[i])]
  <2>1. out = DifferenceV(l, r)
    BY SameArithmetic DEF DifferenceV
  <2>2. /\ Eigen!FiniteV(l).error = (IF Elite!VectorFinite(l) THEN "SUCCESS" ELSE "INVALID_INPUT") /\ Eigen!FiniteV(l).out = l
        /\ Eigen!FiniteV(r).error = (IF Elite!VectorFinite(r) THEN "SUCCESS" ELSE "INVALID_INPUT") /\ Eigen!FiniteV(r).out = r
    BY SameChecks, ReplyFields
  <2>3. CASE ~Elite!VectorFinite(l)
    BY <2>2, <2>3 DEF Eigen!SubtractV, Eigen!Then, Eigen!Ok, Eigen!Failure, Reply, Entrywise
  <2>4. CASE Elite!VectorFinite(l) /\ ~Elite!VectorFinite(r)
    BY <2>2, <2>4 DEF Eigen!SubtractV, Eigen!Then, Eigen!Ok, Eigen!Failure, Reply, Entrywise
  <2>5. CASE Elite!VectorFinite(l) /\ Elite!VectorFinite(r)
    <3>1. Eigen!SubtractV(l, r) = Eigen!Examined(Eigen!VectorFinite(out), out)
      BY <2>2, <2>5 DEF Eigen!SubtractV, Eigen!Then, Eigen!Ok
    <3> HIDE DEF out
    <3>2. Eigen!Examined(Eigen!VectorFinite(out), out) = Reply(IF Elite!VectorFinite(out) THEN "SUCCESS" ELSE "NUMERICAL_ERROR", out)
      BY SameChecks DEF Eigen!Examined, Eigen!Success, Eigen!Failure, Reply
    <3> QED BY <2>1, <2>5, <3>1, <3>2 DEF Entrywise
  <2> QED BY <2>3, <2>4, <2>5
<1> QED BY <1>1, <1>2, <1>3, <1>4, EliteSums

\* The changes of frame, written out, are the same in both plugins.
LEMMA EigenFrames ==
    ASSUME NEW l, NEW r
    PROVE  /\ Elite!WorldToLocal(l, r) = IF Elite!Inverse(l).error = "SUCCESS"
                                         THEN Elite!Multiply(Elite!Inverse(l).out, r)
                                         ELSE Reply(Elite!Inverse(l).error, <<>>)
           /\ Eigen!WorldToLocal(l, r) = Elite!WorldToLocal(l, r)
           /\ Elite!LocalToWorld(l, r) = Elite!Multiply(l, r)
           /\ Eigen!LocalToWorld(l, r) = Elite!Multiply(l, r)
<1>1. Elite!WorldToLocal(l, r) = IF Elite!Inverse(l).error = "SUCCESS"
                                 THEN Elite!Multiply(Elite!Inverse(l).out, r)
                                 ELSE Reply(Elite!Inverse(l).error, <<>>)
  BY DEF Elite!WorldToLocal, Elite!Then, Elite!Ok, Elite!Failure, Reply
<1>2. Eigen!WorldToLocal(l, r) = IF Elite!Inverse(l).error = "SUCCESS"
                                 THEN Elite!Multiply(Elite!Inverse(l).out, r)
                                 ELSE Reply(Elite!Inverse(l).error, <<>>)
  BY EigenInverse, EigenMultiply DEF Eigen!WorldToLocal, Eigen!Then, Eigen!Ok, Eigen!Failure, Reply
<1> QED BY <1>1, <1>2, EigenMultiply DEF Elite!LocalToWorld, Eigen!LocalToWorld

\* A pose vector: its angles are finite, its translation need not be.
PoseVectors ==
    {v \in [1 .. 6 -> Doubles \cup {NonFinite}] : v[4] \in Doubles /\ v[5] \in Doubles /\ v[6] \in Doubles}

\* A pose passes the checks.
LEMMA PoseIsValid ==
    ASSUME NEW m, PoseMatrix(m)
    PROVE  m \in IntMatrices /\ Isometry(m) /\ Elite!Validate(m) = "SUCCESS"
<1>1. m \in IntMatrices /\ Isometry(m)
  BY DEF PoseMatrix, Isometry
<1> QED BY <1>1, ValidIsIsometry

\* A vector of finite numbers has a pose as its matrix.
LEMMA FiniteVector ==
    ASSUME NEW v \in PoseVectors, Elite!VectorFinite(v)
    PROVE  v \in [1 .. 6 -> Doubles] /\ v \in Vectors /\ PoseMatrix(Elite!ToMatrix(v))
<1>1. v \in [1 .. 6 -> Doubles]
  BY DEF PoseVectors, Elite!VectorFinite
<1>2. v \in Vectors
  BY <1>1, IntsInDoubles DEF Vectors
<1>3. /\ Isometry(Elite!ToMatrix(v))
      /\ Elite!ToMatrix(v)[1][4] = v[1] /\ Elite!ToMatrix(v)[2][4] = v[2] /\ Elite!ToMatrix(v)[3][4] = v[3]
  BY <1>2, VectorIsIsometry
<1>4. v[1] \in Doubles /\ v[2] \in Doubles /\ v[3] \in Doubles
  BY <1>1
<1> QED BY <1>1, <1>2, <1>3, <1>4 DEF PoseMatrix

\* A vector with a length that is not finite has no valid matrix.
LEMMA OtherVector ==
    ASSUME NEW v \in PoseVectors, ~Elite!VectorFinite(v)
    PROVE  ~Elite!MatrixFinite(Elite!ToMatrix(v)) /\ Elite!Validate(Elite!ToMatrix(v)) = "INVALID_INPUT"
<1> DEFINE m == Elite!ToMatrix(v)
<1>1. DOMAIN v = 1 .. 6 /\ v[4] \in Doubles /\ v[5] \in Doubles /\ v[6] \in Doubles
  BY DEF PoseVectors
<1>2. v[4] # NonFinite /\ v[5] # NonFinite /\ v[6] # NonFinite
  BY <1>1, IntsInDoubles, NonFiniteAssumption
<1>3. PICK i \in 1 .. 6 : v[i] = NonFinite
  BY <1>1 DEF Elite!VectorFinite
<1>4. i \in {1, 2, 3}
  BY <1>2, <1>3
<1>5. m[1][4] = v[1] /\ m[2][4] = v[2] /\ m[3][4] = v[3]
  BY ToMatrixEntries
<1> HIDE DEF m
<1>6. m[i][4] = NonFinite /\ i \in Rows /\ 4 \in Rows
  BY <1>3, <1>4, <1>5, RowsAre
<1>7. ~Elite!MatrixFinite(m)
  BY <1>6 DEF Elite!MatrixFinite, Elite!Rows, Rows
<1>8. Elite!Validate(m) = "INVALID_INPUT"
  BY <1>7 DEF Elite!Validate
<1> QED BY <1>7, <1>8 DEF m

\* Finiteness, in the words of either plugin.
LEMMA UnsummableIs ==
    ASSUME NEW v
    PROVE  /\ VectorFinite(v) <=> Elite!VectorFinite(v)
           /\ Unsummable(v) <=> Elite!VectorFinite(v) /\ Eigen!EntriesSum(v) = NonFinite
<1>1. VectorFinite(v) <=> Elite!VectorFinite(v)
  BY DEF VectorFinite, Elite!VectorFinite
<1> QED BY <1>1 DEF Unsummable

\* A vector becomes a matrix in both plugins alike, unless its translation overflows when
\* it is summed up.
LEMMA VectorConverts ==
    ASSUME NEW v \in PoseVectors
    PROVE  /\ Elite!VectorToMatrix(v) = IF Elite!VectorFinite(v) THEN Reply("SUCCESS", Elite!ToMatrix(v))
                                        ELSE Reply("INVALID_INPUT", <<>>)
           /\ ~Unsummable(v) =>
                /\ Eigen!VectorToMatrix(v) = IF Elite!VectorFinite(v) THEN Reply("SUCCESS", Elite!ToMatrix(v))
                                             ELSE Reply("INVALID_INPUT", <<>>)
                /\ Eigen!VectorToIsometry(v) = IF Elite!VectorFinite(v) THEN Reply("SUCCESS", Elite!ToMatrix(v))
                                               ELSE Reply("INVALID_INPUT", <<>>)
           /\ Unsummable(v) =>
                /\ Elite!VectorFinite(v)
                /\ Eigen!VectorToMatrix(v) = Reply("NUMERICAL_ERROR", <<>>)
                /\ Eigen!VectorToIsometry(v) = Reply("NUMERICAL_ERROR", <<>>)
           /\ Elite!FiniteV(v) = Reply(IF Elite!VectorFinite(v) THEN "SUCCESS" ELSE "INVALID_INPUT", v)
<1> DEFINE m == Elite!ToMatrix(v)
<1>1. Elite!FiniteV(v) = Reply(IF Elite!VectorFinite(v) THEN "SUCCESS" ELSE "INVALID_INPUT", v)
  BY SameChecks
<1>2. CASE ~Elite!VectorFinite(v)
  <2>1. Elite!VectorToMatrix(v) = Reply("INVALID_INPUT", <<>>)
    BY <1>1, <1>2 DEF Elite!VectorToMatrix, Elite!Then, Elite!Ok, Elite!Failure, Reply
  <2>2. Eigen!VectorToIsometry(v) = Reply("INVALID_INPUT", <<>>)
    BY <1>2, SameChecks DEF Eigen!VectorToIsometry, Eigen!Failure, Reply
  <2>3. Eigen!VectorToMatrix(v) = Reply("INVALID_INPUT", <<>>)
    BY <2>2 DEF Eigen!VectorToMatrix, Eigen!Then, Eigen!Ok, Eigen!Failure, Reply
  <2> QED BY <1>1, <1>2, <2>1, <2>2, <2>3, UnsummableIs
<1>3. CASE Elite!VectorFinite(v)
  <2>1. Elite!Validate(m) = "SUCCESS"
    BY <1>3, FiniteVector, PoseIsValid
  <2>2. Elite!VectorToMatrix(v) = Reply("SUCCESS", m)
    BY <1>1, <1>3, <2>1 DEF Elite!VectorToMatrix, Elite!Then, Elite!Ok, Elite!Examined, Elite!Success, Reply
  <2>3. v[4] \in Int /\ v[5] \in Int /\ v[6] \in Int
    BY IntsInDoubles DEF PoseVectors
  <2>4. Eigen!IsometryOf(v) = m
    BY <2>3, SameMatrix
  <2> HIDE DEF m
  <2>5. CASE Unsummable(v)
    <3>1. Eigen!VectorToIsometry(v) = Reply("NUMERICAL_ERROR", <<>>)
      BY <1>3, <2>5, UnsummableIs, SameChecks DEF Eigen!VectorToIsometry, Eigen!Failure, Reply
    <3>2. Eigen!VectorToMatrix(v) = Reply("NUMERICAL_ERROR", <<>>)
      BY <3>1 DEF Eigen!VectorToMatrix, Eigen!Then, Eigen!Ok, Eigen!Failure, Reply
    <3> QED BY <1>1, <1>3, <2>2, <2>5, <3>1, <3>2 DEF m
  <2>6. CASE ~Unsummable(v)
    <3>1. Eigen!VectorToIsometry(v) = Reply("SUCCESS", m)
      BY <1>3, <2>4, <2>6, UnsummableIs, SameChecks DEF Eigen!VectorToIsometry, Eigen!Success, Reply
    <3>2. Eigen!VectorToMatrix(v) = Reply("SUCCESS", m)
      BY <2>1, <3>1, SameChecks DEF Eigen!VectorToMatrix, Eigen!Then, Eigen!Ok, Eigen!Examined, Eigen!Success, Reply
    <3> QED BY <1>1, <1>3, <2>2, <2>6, <3>1, <3>2 DEF m
  <2> QED BY <2>5, <2>6
<1> QED BY <1>2, <1>3

\* The first three entries of a vector are the translation, whatever the matrix.
LEMMA Places ==
    ASSUME NEW m
    PROVE  /\ DOMAIN Elite!ToVector(m) = 1 .. 6 /\ DOMAIN Eigen!ToVector(m) = 1 .. 6
           /\ Elite!ToVector(m)[1] = m[1][4] /\ Elite!ToVector(m)[2] = m[2][4] /\ Elite!ToVector(m)[3] = m[3][4]
           /\ Eigen!ToVector(m)[1] = m[1][4] /\ Eigen!ToVector(m)[2] = m[2][4] /\ Eigen!ToVector(m)[3] = m[3][4]
<1>1. PICK p, t, r, y, u : Elite!ToVector(m) = IF p THEN <<m[1][4], m[2][4], m[3][4], r, t, y>>
                                               ELSE <<m[1][4], m[2][4], m[3][4], u, t, 0>>
  BY DEF Elite!ToVector
<1>2. PICK a, b, c : Eigen!ToVector(m) = <<m[1][4], m[2][4], m[3][4], a, b, c>>
  BY DEF Eigen!ToVector
<1> QED BY <1>1, <1>2

\* The vectors that the plugins make of a pose stand for that pose.
LEMMA PoseConverts ==
    ASSUME NEW m, PoseMatrix(m)
    PROVE  /\ Elite!VectorFinite(Elite!ToVector(m)) /\ Elite!VectorFinite(Eigen!ToVector(m))
           /\ Elite!VectorToMatrix(Elite!ToVector(m)) = Reply("SUCCESS", m)
           /\ Elite!VectorToMatrix(Eigen!ToVector(m)) = Reply("SUCCESS", m)
<1>1. Isometry(m) /\ Elite!Validate(m) = "SUCCESS" /\ m \in IntMatrices
  BY PoseIsValid
<1>2. m[1][4] \in Int /\ m[2][4] \in Int /\ m[3][4] \in Int
  BY <1>1, IntEntries
<1>3. ASSUME NEW w, w[1] \in Int, w[2] \in Int, w[3] \in Int, w[4] \in Int, w[5] \in Int, w[6] \in Int,
             DOMAIN w = 1 .. 6, Elite!ToMatrix(w) = m
      PROVE  Elite!VectorFinite(w) /\ Elite!VectorToMatrix(w) = Reply("SUCCESS", m)
  <2>1. \A i \in {1, 2, 3, 4, 5, 6} : w[i] # NonFinite
    BY <1>3, NonFiniteAssumption
  <2>2. Elite!VectorFinite(w)
    BY <1>3, <2>1 DEF Elite!VectorFinite
  <2>3. Elite!FiniteV(w) = Reply("SUCCESS", w)
    BY <2>2, SameChecks
  <2>4. Elite!VectorToMatrix(w) = Reply("SUCCESS", m)
    BY <1>1, <1>3, <2>3 DEF Elite!VectorToMatrix, Elite!Then, Elite!Ok, Elite!Examined, Elite!Success, Reply
  <2> QED BY <2>2, <2>4
<1>4. Elite!VectorFinite(Elite!ToVector(m)) /\ Elite!VectorToMatrix(Elite!ToVector(m)) = Reply("SUCCESS", m)
  <2> DEFINE w == Elite!ToVector(m)
  <2>1. /\ Elite!ToMatrix(w) = m
        /\ w[1] = m[1][4] /\ w[2] = m[2][4] /\ w[3] = m[3][4]
        /\ w[4] \in -2 .. 2 /\ w[5] \in -1 .. 2 /\ w[6] \in -1 .. 2
    BY <1>1, RoundTripElite
  <2>2. DOMAIN w = 1 .. 6
    BY Places
  <2> HIDE DEF w
  <2>3. w[4] \in Int /\ w[5] \in Int /\ w[6] \in Int
    BY <2>1
  <2>4. Elite!VectorFinite(w) /\ Elite!VectorToMatrix(w) = Reply("SUCCESS", m)
    BY <1>2, <1>3, <2>1, <2>2, <2>3
  <2> QED BY <2>4 DEF w
<1>5. Elite!VectorFinite(Eigen!ToVector(m)) /\ Elite!VectorToMatrix(Eigen!ToVector(m)) = Reply("SUCCESS", m)
  <2> DEFINE w == Eigen!ToVector(m)
  <2>1. /\ Elite!ToMatrix(w) = m
        /\ w[1] = m[1][4] /\ w[2] = m[2][4] /\ w[3] = m[3][4]
        /\ w[4] \in -1 .. 2 /\ w[5] \in -1 .. 2 /\ w[6] \in 0 .. 2
    BY <1>1, RoundTripEigen
  <2>2. DOMAIN w = 1 .. 6
    BY Places
  <2> HIDE DEF w
  <2>3. w[4] \in Int /\ w[5] \in Int /\ w[6] \in Int
    BY <2>1
  <2>4. Elite!VectorFinite(w) /\ Elite!VectorToMatrix(w) = Reply("SUCCESS", m)
    BY <1>2, <1>3, <2>1, <2>2, <2>3
  <2> QED BY <2>4 DEF w
<1> QED BY <1>4, <1>5

\* The vector of a matrix, or the error of its check.
LEMMA MatrixConverts ==
    ASSUME NEW m, PoseMatrix(m) \/ Elite!Validate(m) # "SUCCESS"
    PROVE  /\ Elite!MatrixToVector(m) = IF Elite!Validate(m) = "SUCCESS" THEN Reply("SUCCESS", Elite!ToVector(m))
                                        ELSE Reply(Elite!Validate(m), <<>>)
           /\ Eigen!MatrixToVector(m) = IF Elite!Validate(m) = "SUCCESS" THEN Reply("SUCCESS", Eigen!ToVector(m))
                                        ELSE Reply(Elite!Validate(m), <<>>)
<1>1. CASE Elite!Validate(m) # "SUCCESS"
  BY <1>1, SameChecks DEF Elite!MatrixToVector, Eigen!MatrixToVector, Elite!Then, Eigen!Then, Elite!Ok, Eigen!Ok,
                          Elite!Failure, Eigen!Failure, Reply
<1>2. CASE PoseMatrix(m) /\ Elite!Validate(m) = "SUCCESS"
  <2>1. Elite!VectorFinite(Elite!ToVector(m)) /\ Elite!VectorFinite(Eigen!ToVector(m))
    BY <1>2, PoseConverts
  <2>2. Elite!MatrixToVector(m) = Reply("SUCCESS", Elite!ToVector(m))
    BY <1>2, <2>1, SameChecks DEF Elite!MatrixToVector, Elite!Then, Elite!Ok, Elite!Examined, Elite!Success, Reply
  <2>3. Eigen!MatrixToVector(m) = Reply("SUCCESS", Eigen!ToVector(m))
    BY <1>2, <2>1, SameChecks DEF Eigen!MatrixToVector, Eigen!Then, Eigen!Ok, Eigen!Examined, Eigen!Success, Reply
  <2> QED BY <1>2, <2>2, <2>3
<1> QED BY <1>1, <1>2

\* The inverse of a vector is the vector of the inverse of its matrix.
LEMMA InverseOfVector ==
    ASSUME NEW v \in PoseVectors
    PROVE  LET t == Elite!Transposed(Elite!ToMatrix(v))
           IN  /\ Elite!InverseV(v) = IF Elite!VectorFinite(v) THEN Reply("SUCCESS", Elite!ToVector(t))
                                      ELSE Reply("INVALID_INPUT", <<>>)
               /\ ~Unsummable(v) =>
                    Eigen!InverseV(v) = IF Elite!VectorFinite(v) THEN Reply("SUCCESS", Eigen!ToVector(t))
                                        ELSE Reply("INVALID_INPUT", <<>>)
               /\ Unsummable(v) => Eigen!InverseV(v) = Reply("NUMERICAL_ERROR", <<>>)
<1> DEFINE t == Elite!Transposed(Elite!ToMatrix(v))
<1>1. CASE ~Elite!VectorFinite(v)
  <2>1. Elite!FiniteV(v) = Reply("INVALID_INPUT", v) /\ Eigen!VectorToIsometry(v) = Reply("INVALID_INPUT", <<>>)
    BY <1>1, VectorConverts, UnsummableIs
  <2>2. Elite!InverseV(v) = Reply("INVALID_INPUT", <<>>)
    BY <2>1 DEF Elite!InverseV, Elite!Then, Elite!Ok, Elite!Failure, Reply
  <2>3. Eigen!InverseV(v) = Reply("INVALID_INPUT", <<>>)
    BY <2>1 DEF Eigen!InverseV, Eigen!Then, Eigen!Ok, Eigen!Failure, Reply
  <2> QED BY <1>1, <2>2, <2>3, UnsummableIs
<1>2. CASE Elite!VectorFinite(v)
  <2>1. /\ Elite!FiniteV(v) = Reply("SUCCESS", v)
        /\ ~Unsummable(v) => Eigen!VectorToIsometry(v) = Reply("SUCCESS", Elite!ToMatrix(v))
        /\ Unsummable(v) => Eigen!VectorToIsometry(v) = Reply("NUMERICAL_ERROR", <<>>)
    BY <1>2, VectorConverts
  <2>2. PoseMatrix(t)
    BY <1>2, FiniteVector, TransposedPose
  <2>3. Elite!VectorFinite(Elite!ToVector(t)) /\ Eigen!VectorFinite(Eigen!ToVector(t))
    BY <2>2, PoseConverts, SameChecks
  <2>4. Elite!InverseV(v) = Reply("SUCCESS", Elite!ToVector(t))
    BY <2>1, <2>3 DEF Elite!InverseV, Elite!Then, Elite!Ok, Elite!Examined, Elite!Success, Reply
  <2>5. ASSUME ~Unsummable(v) PROVE Eigen!InverseV(v) = Reply("SUCCESS", Eigen!ToVector(t))
    BY <2>1, <2>3, <2>5, EigenInverse DEF Eigen!InverseV, Eigen!Then, Eigen!Ok, Eigen!Examined, Eigen!Success, Reply
  <2>6. ASSUME Unsummable(v) PROVE Eigen!InverseV(v) = Reply("NUMERICAL_ERROR", <<>>)
    BY <2>1, <2>6 DEF Eigen!InverseV, Eigen!Then, Eigen!Ok, Eigen!Failure, Reply
  <2> QED BY <1>2, <2>4, <2>5, <2>6
<1> QED BY <1>1, <1>2

\* The product of vectors: the vector of the product of their matrices, or an error
\* that is the same in both plugins unless a translation overflows when it is summed up.
LEMMA ProductOfVectors ==
    ASSUME NEW l \in PoseVectors, NEW r \in PoseVectors
    PROVE  LET P == Elite!Product(Elite!ToMatrix(l), Elite!ToMatrix(r))
           IN  /\ ~Elite!VectorFinite(l) \/ ~Elite!VectorFinite(r) =>
                    /\ Elite!MultiplyV(l, r) = Reply("INVALID_INPUT", <<>>)
                    /\ ~Overflows(l, r) => Eigen!MultiplyV(l, r) = Reply("INVALID_INPUT", <<>>)
               /\ Elite!VectorFinite(l) /\ Elite!VectorFinite(r) /\ Elite!MatrixFinite(P) =>
                    /\ PoseMatrix(P)
                    /\ Elite!MultiplyV(l, r) = Reply("SUCCESS", Elite!ToVector(P))
                    /\ ~Overflows(l, r) => Eigen!MultiplyV(l, r) = Reply("SUCCESS", Eigen!ToVector(P))
               /\ Elite!VectorFinite(l) /\ Elite!VectorFinite(r) /\ ~Elite!MatrixFinite(P) =>
                    /\ Elite!MultiplyV(l, r) = Reply("NUMERICAL_ERROR", Elite!ToVector(P))
                    /\ ~Overflows(l, r) => Eigen!MultiplyV(l, r) = Reply("NUMERICAL_ERROR", Eigen!ToVector(P))
<1> DEFINE P == Elite!Product(Elite!ToMatrix(l), Elite!ToMatrix(r))
<1>1. ASSUME ~Elite!VectorFinite(l)
      PROVE  /\ Elite!MultiplyV(l, r) = Reply("INVALID_INPUT", <<>>)
             /\ Eigen!MultiplyV(l, r) = Reply("INVALID_INPUT", <<>>)
  <2>1. Elite!FiniteV(l) = Reply("INVALID_INPUT", l) /\ Eigen!VectorToIsometry(l) = Reply("INVALID_INPUT", <<>>)
    BY <1>1, VectorConverts, UnsummableIs
  <2>2. Elite!MultiplyV(l, r) = Reply("INVALID_INPUT", <<>>)
    BY <2>1 DEF Elite!MultiplyV, Elite!Then, Elite!Ok, Elite!Failure, Reply
  <2>3. Eigen!MultiplyV(l, r) = Reply("INVALID_INPUT", <<>>)
    BY <2>1 DEF Eigen!MultiplyV, Eigen!Then, Eigen!Ok, Eigen!Failure, Reply
  <2> QED BY <2>2, <2>3
<1>2. ASSUME Elite!VectorFinite(l), ~Elite!VectorFinite(r)
      PROVE  /\ Elite!MultiplyV(l, r) = Reply("INVALID_INPUT", <<>>)
             /\ ~Unsummable(l) => Eigen!MultiplyV(l, r) = Reply("INVALID_INPUT", <<>>)
  <2>1. /\ Elite!FiniteV(l) = Reply("SUCCESS", l)
        /\ ~Unsummable(l) => Eigen!VectorToIsometry(l) = Reply("SUCCESS", Elite!ToMatrix(l))
        /\ Elite!FiniteV(r) = Reply("INVALID_INPUT", r) /\ Eigen!VectorToIsometry(r) = Reply("INVALID_INPUT", <<>>)
    BY <1>2, VectorConverts, UnsummableIs
  <2>2. Elite!MultiplyV(l, r) = Reply("INVALID_INPUT", <<>>)
    BY <2>1 DEF Elite!MultiplyV, Elite!Then, Elite!Ok, Elite!Failure, Reply
  <2>3. ASSUME ~Unsummable(l) PROVE Eigen!MultiplyV(l, r) = Reply("INVALID_INPUT", <<>>)
    BY <2>1, <2>3 DEF Eigen!MultiplyV, Eigen!Then, Eigen!Ok, Eigen!Failure, Reply
  <2> QED BY <2>2, <2>3
<1>3. ASSUME Elite!VectorFinite(l), Elite!VectorFinite(r)
      PROVE  /\ Elite!MultiplyV(l, r) = Elite!Examined(Elite!VectorFinite(Elite!ToVector(P)), Elite!ToVector(P))
             /\ ~Overflows(l, r) =>
                  Eigen!MultiplyV(l, r) = Eigen!Examined(Eigen!VectorFinite(Eigen!ToVector(P)), Eigen!ToVector(P))
             /\ Elite!MatrixFinite(P) => PoseMatrix(P)
             /\ ~Elite!MatrixFinite(P) => P[1][4] = NonFinite \/ P[2][4] = NonFinite \/ P[3][4] = NonFinite
  <2>1. /\ Elite!FiniteV(l) = Reply("SUCCESS", l) /\ Elite!FiniteV(r) = Reply("SUCCESS", r)
        /\ ~Overflows(l, r) => /\ Eigen!VectorToIsometry(l) = Reply("SUCCESS", Elite!ToMatrix(l))
                               /\ Eigen!VectorToIsometry(r) = Reply("SUCCESS", Elite!ToMatrix(r))
    BY <1>3, VectorConverts, UnsummableIs DEF Overflows
  <2>2. Elite!MultiplyV(l, r) = Elite!Examined(Elite!VectorFinite(Elite!ToVector(P)), Elite!ToVector(P))
    BY <2>1 DEF Elite!MultiplyV, Elite!Then, Elite!Ok, Reply
  <2>3. ASSUME ~Overflows(l, r)
        PROVE  Eigen!MultiplyV(l, r) = Eigen!Examined(Eigen!VectorFinite(Eigen!ToVector(P)), Eigen!ToVector(P))
    BY <2>1, <2>3, Products DEF Eigen!MultiplyV, Eigen!Then, Eigen!Ok, Reply
  <2>4. PoseMatrix(Elite!ToMatrix(l)) /\ PoseMatrix(Elite!ToMatrix(r))
    BY <1>3, FiniteVector
  <2>5. /\ P[1][4] # NonFinite /\ P[2][4] # NonFinite /\ P[3][4] # NonFinite => PoseMatrix(P)
        /\ Elite!MatrixFinite(P) <=> P[1][4] # NonFinite /\ P[2][4] # NonFinite /\ P[3][4] # NonFinite
    BY <2>4, ProductPose
  <2> QED BY <2>2, <2>3, <2>5
<1>4. ASSUME Elite!VectorFinite(l), Elite!VectorFinite(r), Elite!MatrixFinite(P)
      PROVE  /\ PoseMatrix(P)
             /\ Elite!MultiplyV(l, r) = Reply("SUCCESS", Elite!ToVector(P))
             /\ ~Overflows(l, r) => Eigen!MultiplyV(l, r) = Reply("SUCCESS", Eigen!ToVector(P))
  <2> HIDE DEF P
  <2>1. PoseMatrix(P)
    BY <1>3, <1>4
  <2>2. Elite!VectorFinite(Elite!ToVector(P)) /\ Eigen!VectorFinite(Eigen!ToVector(P))
    BY <2>1, PoseConverts, SameChecks
  <2> QED BY <1>3, <1>4, <2>1, <2>2 DEF Elite!Examined, Elite!Success, Eigen!Examined, Eigen!Success, Reply
<1>5. ASSUME Elite!VectorFinite(l), Elite!VectorFinite(r), ~Elite!MatrixFinite(P)
      PROVE  /\ Elite!MultiplyV(l, r) = Reply("NUMERICAL_ERROR", Elite!ToVector(P))
             /\ ~Overflows(l, r) => Eigen!MultiplyV(l, r) = Reply("NUMERICAL_ERROR", Eigen!ToVector(P))
  <2> HIDE DEF P
  <2>1. P[1][4] = NonFinite \/ P[2][4] = NonFinite \/ P[3][4] = NonFinite
    BY <1>3, <1>5
  <2>2. /\ DOMAIN Elite!ToVector(P) = 1 .. 6 /\ DOMAIN Eigen!ToVector(P) = 1 .. 6
        /\ Elite!ToVector(P)[1] = P[1][4] /\ Elite!ToVector(P)[2] = P[2][4] /\ Elite!ToVector(P)[3] = P[3][4]
        /\ Eigen!ToVector(P)[1] = P[1][4] /\ Eigen!ToVector(P)[2] = P[2][4] /\ Eigen!ToVector(P)[3] = P[3][4]
    BY Places
  <2>3. 1 \in 1 .. 6 /\ 2 \in 1 .. 6 /\ 3 \in 1 .. 6
    OBVIOUS
  <2>4. ~Elite!VectorFinite(Elite!ToVector(P)) /\ ~Eigen!VectorFinite(Eigen!ToVector(P))
    BY <2>1, <2>2, <2>3 DEF Elite!VectorFinite, Eigen!VectorFinite
  <2> QED BY <1>3, <1>5, <2>4 DEF Elite!Examined, Elite!Failure, Eigen!Examined, Eigen!Failure, Reply
<1>6. Elite!VectorFinite(l) /\ ~Overflows(l, r) => ~Unsummable(l)
  BY DEF Overflows
<1> QED BY <1>1, <1>2, <1>4, <1>5, <1>6

\* Products and changes of frame on matrices that are poses: a pose or an error.
LEMMA ProductReplies ==
    ASSUME NEW l, PoseMatrix(l), NEW r, PoseMatrix(r)
    PROVE  /\ Elite!Multiply(l, r).error = "SUCCESS" =>
                PoseMatrix(Elite!Product(l, r)) /\ Elite!Multiply(l, r) = Reply("SUCCESS", Elite!Product(l, r))
           /\ PoseMatrix(Elite!Product(l, r)) => Elite!Multiply(l, r) = Reply("SUCCESS", Elite!Product(l, r))
           /\ Elite!Inverse(l) = Reply("SUCCESS", Elite!Transposed(l))
           /\ Elite!WorldToLocal(l, r) = Elite!Multiply(Elite!Transposed(l), r)
<1> DEFINE P == Elite!Product(l, r)
<1>1. Elite!Validate(l) = "SUCCESS" /\ Elite!Validate(r) = "SUCCESS"
  BY PoseIsValid
<1>2. Elite!Multiply(l, r) = Reply(Elite!Validate(P), P)
  BY <1>1, EliteMultiply
<1>3. /\ P[1][4] # NonFinite /\ P[2][4] # NonFinite /\ P[3][4] # NonFinite => PoseMatrix(P)
      /\ Elite!MatrixFinite(P) <=> P[1][4] # NonFinite /\ P[2][4] # NonFinite /\ P[3][4] # NonFinite
  BY ProductPose
<1>4. PoseMatrix(Elite!Transposed(l))
  BY TransposedPose
<1>5. Elite!Inverse(l) = Reply("SUCCESS", Elite!Transposed(l))
  BY <1>1, <1>4, EliteInverse, PoseIsValid
<1>6. Elite!WorldToLocal(l, r) = Elite!Multiply(Elite!Transposed(l), r)
  BY <1>5, EigenFrames, ReplyFields
<1> HIDE DEF P
<1>7. Elite!Validate(P) = "SUCCESS" => PoseMatrix(P)
  BY <1>3 DEF Elite!Validate
<1>8. PoseMatrix(P) => Elite!Validate(P) = "SUCCESS"
  BY PoseIsValid
<1>9. Elite!Multiply(l, r).error = Elite!Validate(P)
  BY <1>2, ReplyFields
<1> QED BY <1>2, <1>5, <1>6, <1>7, <1>8, <1>9 DEF P

\* The vector of what an operation on matrices returned, in either plugin.
EliteVectorOf(r) == IF r.error = "SUCCESS" THEN Elite!MatrixToVector(r.out) ELSE Reply(r.error, <<>>)

EigenVectorOf(r) == IF r.error = "SUCCESS" THEN Eigen!MatrixToVector(r.out) ELSE Reply(r.error, <<>>)

\* The plugins make vectors that stand for the same pose of the same matrix.
LEMMA SameVectorOf ==
    ASSUME NEW r, r.error = "SUCCESS" => PoseMatrix(r.out)
    PROVE  SamePose(EliteVectorOf(r), EigenVectorOf(r))
<1>1. CASE r.error = "SUCCESS"
  <2>1. PoseMatrix(r.out)
    BY <1>1
  <2>2. /\ EliteVectorOf(r) = Reply("SUCCESS", Elite!ToVector(r.out))
        /\ EigenVectorOf(r) = Reply("SUCCESS", Eigen!ToVector(r.out))
    BY <1>1, <2>1, MatrixConverts, PoseIsValid DEF EliteVectorOf, EigenVectorOf
  <2> QED BY <2>1, <2>2, PoseConverts, ReplyFields DEF SamePose
<1>2. CASE r.error # "SUCCESS"
  <2>1. EliteVectorOf(r) = Reply(r.error, <<>>) /\ EigenVectorOf(r) = Reply(r.error, <<>>)
    BY <1>2 DEF EliteVectorOf, EigenVectorOf
  <2> QED BY <2>1 DEF SamePose
<1> QED BY <1>1, <1>2

\* The changes of frame of vectors agree.
LEMMA FramesOfVectors ==
    ASSUME NEW l \in PoseVectors, NEW r \in PoseVectors, ~Overflows(l, r)
    PROVE  /\ SamePose(Elite!WorldToLocalV(l, r), Eigen!WorldToLocalV(l, r))
           /\ SamePose(Elite!LocalToWorldV(l, r), Eigen!LocalToWorldV(l, r))
<1> DEFINE A == Elite!ToMatrix(l)
           B == Elite!ToMatrix(r)
<1>1. CASE ~Elite!VectorFinite(l)
  <2>1. Elite!VectorToMatrix(l) = Reply("INVALID_INPUT", <<>>) /\ Eigen!VectorToMatrix(l) = Reply("INVALID_INPUT", <<>>)
    BY <1>1, VectorConverts, UnsummableIs
  <2>2. Elite!WorldToLocalV(l, r) = Reply("INVALID_INPUT", <<>>)
    BY <2>1 DEF Elite!WorldToLocalV, Elite!Then, Elite!Ok, Elite!Failure, Reply
  <2>3. Eigen!WorldToLocalV(l, r) = Reply("INVALID_INPUT", <<>>)
    BY <2>1 DEF Eigen!WorldToLocalV, Eigen!Then, Eigen!Ok, Eigen!Failure, Reply
  <2>4. Elite!LocalToWorldV(l, r) = Reply("INVALID_INPUT", <<>>)
    BY <2>1 DEF Elite!LocalToWorldV, Elite!Then, Elite!Ok, Elite!Failure, Reply
  <2>5. Eigen!LocalToWorldV(l, r) = Reply("INVALID_INPUT", <<>>)
    BY <2>1 DEF Eigen!LocalToWorldV, Eigen!Then, Eigen!Ok, Eigen!Failure, Reply
  <2> QED BY <2>2, <2>3, <2>4, <2>5 DEF SamePose
<1>2. CASE Elite!VectorFinite(l) /\ ~Elite!VectorFinite(r)
  <2>1. /\ Elite!VectorToMatrix(l) = Reply("SUCCESS", A) /\ Eigen!VectorToMatrix(l) = Reply("SUCCESS", A)
        /\ Elite!VectorToMatrix(r) = Reply("INVALID_INPUT", <<>>) /\ Eigen!VectorToMatrix(r) = Reply("INVALID_INPUT", <<>>)
    BY <1>2, VectorConverts, UnsummableIs DEF Overflows
  <2>2. Elite!WorldToLocalV(l, r) = Reply("INVALID_INPUT", <<>>)
    BY <2>1 DEF Elite!WorldToLocalV, Elite!Then, Elite!Ok, Elite!Failure, Reply
  <2>3. Eigen!WorldToLocalV(l, r) = Reply("INVALID_INPUT", <<>>)
    BY <2>1 DEF Eigen!WorldToLocalV, Eigen!Then, Eigen!Ok, Eigen!Failure, Reply
  <2>4. Elite!LocalToWorldV(l, r) = Reply("INVALID_INPUT", <<>>)
    BY <2>1 DEF Elite!LocalToWorldV, Elite!Then, Elite!Ok, Elite!Failure, Reply
  <2>5. Eigen!LocalToWorldV(l, r) = Reply("INVALID_INPUT", <<>>)
    BY <2>1 DEF Eigen!LocalToWorldV, Eigen!Then, Eigen!Ok, Eigen!Failure, Reply
  <2> QED BY <2>2, <2>3, <2>4, <2>5 DEF SamePose
<1>3. CASE Elite!VectorFinite(l) /\ Elite!VectorFinite(r)
  <2>1. /\ Elite!VectorToMatrix(l) = Reply("SUCCESS", A) /\ Eigen!VectorToMatrix(l) = Reply("SUCCESS", A)
        /\ Elite!VectorToMatrix(r) = Reply("SUCCESS", B) /\ Eigen!VectorToMatrix(r) = Reply("SUCCESS", B)
    BY <1>3, VectorConverts, UnsummableIs DEF Overflows
  <2>2. PoseMatrix(A) /\ PoseMatrix(B)
    BY <1>3, FiniteVector
  <2> HIDE DEF A, B
  <2>3. PoseMatrix(Elite!Transposed(A))
    BY <2>2, TransposedPose
  <2> DEFINE W == Elite!WorldToLocal(A, B)
             L == Elite!LocalToWorld(A, B)
  <2>4. Eigen!WorldToLocal(A, B) = W /\ Eigen!LocalToWorld(A, B) = L
    BY EigenFrames
  <2>5. W.error = "SUCCESS" => PoseMatrix(W.out)
    BY <2>2, <2>3, ProductReplies, ReplyFields
  <2>6. L.error = "SUCCESS" => PoseMatrix(L.out)
    BY <2>2, EigenFrames, ProductReplies, ReplyFields
  <2>7. Elite!WorldToLocalV(l, r) = EliteVectorOf(W)
    BY <2>1 DEF Elite!WorldToLocalV, Elite!Then, Elite!Ok, Elite!Failure, Reply, EliteVectorOf
  <2>8. Elite!LocalToWorldV(l, r) = EliteVectorOf(L)
    BY <2>1 DEF Elite!LocalToWorldV, Elite!Then, Elite!Ok, Elite!Failure, Reply, EliteVectorOf
  <2>9. Eigen!WorldToLocalV(l, r) = EigenVectorOf(W)
    BY <2>1, <2>4 DEF Eigen!WorldToLocalV, Eigen!Then, Eigen!Ok, Eigen!Failure, Reply, EigenVectorOf
  <2>10. Eigen!LocalToWorldV(l, r) = EigenVectorOf(L)
    BY <2>1, <2>4 DEF Eigen!LocalToWorldV, Eigen!Then, Eigen!Ok, Eigen!Failure, Reply, EigenVectorOf
  <2> HIDE DEF W, L
  <2> QED BY <2>5, <2>6, <2>7, <2>8, <2>9, <2>10, SameVectorOf
<1> QED BY <1>1, <1>2, <1>3

\* What distance returns for two poses.
Measured(d) == Reply(IF d.linear # NonFinite THEN "SUCCESS" ELSE "NUMERICAL_ERROR", d)

\* The distance of two poses is the same in both plugins.
LEMMA SameDistance ==
    ASSUME NEW a, PoseMatrix(a), NEW b, PoseMatrix(b)
    PROVE  Eigen!ComputeDistance(a, b) = Elite!ComputeDistance(a, b)
<1> DEFINE x == Elite!ColumnDot(a, 1, b, 1)
           y == Elite!ColumnDot(a, 2, b, 2)
           z == Elite!ColumnDot(a, 3, b, 3)
           d == [i \in 1 .. 3 |-> Elite!Minus(a[i][4], b[i][4])]
           e == [i \in 1 .. 3 |-> Eigen!Minus(a[i][4], b[i][4])]
           linear == IF Elite!VectorFinite(d) THEN Elite!Double(d[1] * d[1] + d[2] * d[2] + d[3] * d[3]) ELSE NonFinite
           R == [i \in 1 .. 3 |-> Eigen!ColumnDot(a, i, b, i)]
<1>1. x \in Int /\ y \in Int /\ z \in Int
  <2>1. a \in IntMatrices /\ b \in IntMatrices
    BY DEF PoseMatrix, Isometry
  <2> QED BY <2>1, IntEntries DEF Elite!ColumnDot
<1>2. Elite!ComputeDistance(a, b) = [linear |-> linear, angular |-> Elite!Clamp((x + y + z) - 1, -2, 2)]
  BY DEF Elite!ComputeDistance, Elite!Axes
<1>3. e = d
  BY SameArithmetic
<1>4. R[1] = x /\ R[2] = y /\ R[3] = z
  BY DEF Eigen!ColumnDot, Elite!ColumnDot
<1>5. Eigen!ComputeDistance(a, b) =
        [linear |-> IF Eigen!VectorFinite(e) THEN Eigen!Double(e[1] * e[1] + e[2] * e[2] + e[3] * e[3]) ELSE NonFinite,
         angular |-> Eigen!Clamp(R[1] + R[2] + R[3] - 1, -2, 2)]
  BY DEF Eigen!ComputeDistance, Eigen!Axes
<1> HIDE DEF x, y, z, d, e, R
<1>6. R[1] + R[2] + R[3] - 1 = (x + y + z) - 1
  BY <1>1, <1>4
<1>7. \A p : Eigen!Clamp(p, -2, 2) = Elite!Clamp(p, -2, 2)
  BY DEF Eigen!Clamp, Elite!Clamp
<1>8. \A p : Eigen!Double(p) = Elite!Double(p)
  BY DEF Eigen!Double, Elite!Double
<1> QED BY <1>2, <1>3, <1>5, <1>6, <1>7, <1>8, SameChecks

\* Distance of matrices, written out.
LEMMA Distances ==
    ASSUME NEW a, NEW b, PoseMatrix(a) \/ Elite!Validate(a) # "SUCCESS", PoseMatrix(b) \/ Elite!Validate(b) # "SUCCESS"
    PROVE  /\ Elite!Distance(a, b) = IF Elite!Validate(a) # "SUCCESS" THEN Reply(Elite!Validate(a), <<>>)
                                     ELSE IF Elite!Validate(b) # "SUCCESS" THEN Reply(Elite!Validate(b), <<>>)
                                     ELSE Measured(Elite!ComputeDistance(a, b))
           /\ Eigen!Distance(a, b) = Elite!Distance(a, b)
<1>1. CASE Elite!Validate(a) # "SUCCESS"
  BY <1>1, SameChecks DEF Elite!Distance, Elite!Then, Elite!Ok, Elite!Failure,
                          Eigen!Distance, Eigen!Then, Eigen!Ok, Eigen!Failure, Reply
<1>2. CASE Elite!Validate(a) = "SUCCESS" /\ Elite!Validate(b) # "SUCCESS"
  BY <1>2, SameChecks DEF Elite!Distance, Elite!Then, Elite!Ok, Elite!Failure,
                          Eigen!Distance, Eigen!Then, Eigen!Ok, Eigen!Failure, Reply
<1>3. CASE Elite!Validate(a) = "SUCCESS" /\ Elite!Validate(b) = "SUCCESS"
  <2> DEFINE d == Elite!ComputeDistance(a, b)
  <2>1. Eigen!ComputeDistance(a, b) = d
    BY <1>3, SameDistance
  <2>2. Elite!Distance(a, b) = Elite!Examined(d.linear # NonFinite, d)
    BY <1>3, SameChecks DEF Elite!Distance, Elite!Then, Elite!Ok, Reply
  <2>3. Eigen!Distance(a, b) = Eigen!Examined(d.linear # NonFinite, d)
    BY <1>3, <2>1, SameChecks DEF Eigen!Distance, Eigen!Then, Eigen!Ok, Reply
  <2> HIDE DEF d
  <2>4. Elite!Distance(a, b) = Measured(d) /\ Eigen!Distance(a, b) = Measured(d)
    BY <2>2, <2>3 DEF Elite!Examined, Eigen!Examined, Elite!Success, Eigen!Success, Elite!Failure, Eigen!Failure,
                      Reply, Measured
  <2> QED BY <1>3, <2>4 DEF d
<1> QED BY <1>1, <1>2, <1>3

\* Distance of vectors is that of their matrices.
LEMMA DistancesOfVectors ==
    ASSUME NEW a \in PoseVectors, NEW b \in PoseVectors
    PROVE  /\ Elite!DistanceV(a, b) = IF Elite!VectorFinite(a) /\ Elite!VectorFinite(b)
                                      THEN Measured(Elite!ComputeDistance(Elite!ToMatrix(a), Elite!ToMatrix(b)))
                                      ELSE Reply("INVALID_INPUT", <<>>)
           /\ ~Overflows(a, b) => Eigen!DistanceV(a, b) = Elite!DistanceV(a, b)
<1> DEFINE A == Elite!ToMatrix(a)
           B == Elite!ToMatrix(b)
<1>1. CASE ~Elite!VectorFinite(a)
  <2>1. Elite!FiniteV(a) = Reply("INVALID_INPUT", a) /\ Eigen!VectorToIsometry(a) = Reply("INVALID_INPUT", <<>>)
    BY <1>1, VectorConverts, UnsummableIs
  <2> QED BY <1>1, <2>1 DEF Elite!DistanceV, Elite!Then, Elite!Ok, Elite!Failure,
                            Eigen!DistanceV, Eigen!Then, Eigen!Ok, Eigen!Failure, Reply
<1>2. CASE Elite!VectorFinite(a) /\ ~Elite!VectorFinite(b)
  <2>1. /\ Elite!FiniteV(a) = Reply("SUCCESS", a)
        /\ ~Overflows(a, b) => Eigen!VectorToIsometry(a) = Reply("SUCCESS", A)
        /\ Elite!FiniteV(b) = Reply("INVALID_INPUT", b) /\ Eigen!VectorToIsometry(b) = Reply("INVALID_INPUT", <<>>)
    BY <1>2, VectorConverts, UnsummableIs DEF Overflows
  <2> HIDE DEF A
  <2> QED BY <1>2, <2>1 DEF Elite!DistanceV, Elite!Then, Elite!Ok, Elite!Failure,
                            Eigen!DistanceV, Eigen!Then, Eigen!Ok, Eigen!Failure, Reply
<1>3. CASE Elite!VectorFinite(a) /\ Elite!VectorFinite(b)
  <2> DEFINE d == Elite!ComputeDistance(A, B)
  <2>1. /\ Elite!FiniteV(a) = Reply("SUCCESS", a) /\ Elite!FiniteV(b) = Reply("SUCCESS", b)
        /\ ~Overflows(a, b) => /\ Eigen!VectorToIsometry(a) = Reply("SUCCESS", A)
                               /\ Eigen!VectorToIsometry(b) = Reply("SUCCESS", B)
    BY <1>3, VectorConverts, UnsummableIs DEF Overflows
  <2>2. Eigen!ComputeDistance(A, B) = d
    BY <1>3, FiniteVector, SameDistance
  <2>3. Elite!DistanceV(a, b) = Elite!Examined(d.linear # NonFinite, d)
    BY <2>1 DEF Elite!DistanceV, Elite!Then, Elite!Ok, Reply
  <2>4. ASSUME ~Overflows(a, b) PROVE Eigen!DistanceV(a, b) = Eigen!Examined(d.linear # NonFinite, d)
    BY <2>1, <2>2, <2>4 DEF Eigen!DistanceV, Eigen!Then, Eigen!Ok, Reply
  <2> HIDE DEF d
  <2>5. Elite!DistanceV(a, b) = Measured(d) /\ (~Overflows(a, b) => Eigen!DistanceV(a, b) = Measured(d))
    BY <2>3, <2>4 DEF Elite!Examined, Eigen!Examined, Elite!Success, Eigen!Success, Elite!Failure, Eigen!Failure,
                      Reply, Measured
  <2> QED BY <1>3, <2>5 DEF d
<1> QED BY <1>1, <1>2, <1>3

\* A translation that overflows when it is summed up: Eigen refuses what Elite takes.
LEMMA OverflowRefused ==
    ASSUME NEW a \in PoseVectors, NEW b \in PoseVectors
    PROVE  /\ Unsummable(a) =>
                /\ Ok(Elite!VectorToMatrix(a)) /\ Ok(Elite!InverseV(a))
                /\ Eigen!VectorToMatrix(a).error = "NUMERICAL_ERROR"
                /\ Eigen!InverseV(a).error = "NUMERICAL_ERROR"
           /\ Overflows(a, b) =>
                /\ Eigen!MultiplyV(a, b).error = "NUMERICAL_ERROR"
                /\ Eigen!DistanceV(a, b).error = "NUMERICAL_ERROR"
                /\ Eigen!WorldToLocalV(a, b).error = "NUMERICAL_ERROR"
                /\ Eigen!LocalToWorldV(a, b).error = "NUMERICAL_ERROR"
<1> DEFINE A == Elite!ToMatrix(a)
           failed == Reply("NUMERICAL_ERROR", <<>>)
<1>1. ASSUME Unsummable(a)
      PROVE  /\ Ok(Elite!VectorToMatrix(a)) /\ Ok(Elite!InverseV(a))
             /\ Eigen!VectorToMatrix(a).error = "NUMERICAL_ERROR" /\ Eigen!InverseV(a).error = "NUMERICAL_ERROR"
  BY <1>1, VectorConverts, InverseOfVector, ReplyFields
<1>2. CASE Unsummable(a)
  <2>1. Eigen!VectorToIsometry(a) = failed /\ Eigen!VectorToMatrix(a) = failed
    BY <1>2, VectorConverts
  <2>2. Eigen!MultiplyV(a, b) = failed
    BY <2>1 DEF Eigen!MultiplyV, Eigen!Then, Eigen!Ok, Eigen!Failure, Reply
  <2>3. Eigen!DistanceV(a, b) = failed
    BY <2>1 DEF Eigen!DistanceV, Eigen!Then, Eigen!Ok, Eigen!Failure, Reply
  <2>4. Eigen!WorldToLocalV(a, b) = failed
    BY <2>1 DEF Eigen!WorldToLocalV, Eigen!Then, Eigen!Ok, Eigen!Failure, Reply
  <2>5. Eigen!LocalToWorldV(a, b) = failed
    BY <2>1 DEF Eigen!LocalToWorldV, Eigen!Then, Eigen!Ok, Eigen!Failure, Reply
  <2> QED BY <1>1, <1>2, <2>2, <2>3, <2>4, <2>5, ReplyFields
<1>3. CASE ~Unsummable(a) /\ VectorFinite(a) /\ Unsummable(b)
  <2>1. /\ Eigen!VectorToIsometry(a) = Reply("SUCCESS", A) /\ Eigen!VectorToMatrix(a) = Reply("SUCCESS", A)
        /\ Eigen!VectorToIsometry(b) = failed /\ Eigen!VectorToMatrix(b) = failed
    BY <1>3, VectorConverts, UnsummableIs
  <2> HIDE DEF A
  <2>2. Eigen!MultiplyV(a, b) = failed
    BY <2>1 DEF Eigen!MultiplyV, Eigen!Then, Eigen!Ok, Eigen!Failure, Reply
  <2>3. Eigen!DistanceV(a, b) = failed
    BY <2>1 DEF Eigen!DistanceV, Eigen!Then, Eigen!Ok, Eigen!Failure, Reply
  <2>4. Eigen!WorldToLocalV(a, b) = failed
    BY <2>1 DEF Eigen!WorldToLocalV, Eigen!Then, Eigen!Ok, Eigen!Failure, Reply
  <2>5. Eigen!LocalToWorldV(a, b) = failed
    BY <2>1 DEF Eigen!LocalToWorldV, Eigen!Then, Eigen!Ok, Eigen!Failure, Reply
  <2> QED BY <1>3, <2>2, <2>3, <2>4, <2>5, ReplyFields
<1>4. CASE ~Overflows(a, b)
  BY <1>1, <1>4
<1> QED BY <1>2, <1>3, <1>4 DEF Overflows

\* The two plugins agree on every operation on pose vectors and their matrices, except
\* for vectors that Eigen refuses because their translations overflow.
LEMMA Agreement ==
    ASSUME NEW a \in PoseVectors, NEW b \in PoseVectors
    PROVE  PluginsAgree(a, b)
<1> DEFINE A == Elite!ToMatrix(a)
           B == Elite!ToMatrix(b)
<1>1. /\ Elite!VectorFinite(a) => PoseMatrix(A) /\ Elite!Validate(A) = "SUCCESS"
      /\ ~Elite!VectorFinite(a) => Elite!Validate(A) = "INVALID_INPUT"
      /\ Elite!VectorFinite(b) => PoseMatrix(B) /\ Elite!Validate(B) = "SUCCESS"
      /\ ~Elite!VectorFinite(b) => Elite!Validate(B) = "INVALID_INPUT"
  BY FiniteVector, OtherVector, PoseIsValid
<1>2. PoseMatrix(A) \/ Elite!Validate(A) # "SUCCESS"
  BY <1>1
<1>3. PoseMatrix(B) \/ Elite!Validate(B) # "SUCCESS"
  BY <1>1
<1>4. ASSUME ~Unsummable(a) PROVE Same(Elite!VectorToMatrix(a), Eigen!VectorToMatrix(a))
  BY <1>4, VectorConverts DEF Same
<1>5. SamePose(Elite!MatrixToVector(A), Eigen!MatrixToVector(A))
  <2>1. CASE PoseMatrix(A)
    <3>1. /\ Elite!MatrixToVector(A) = Reply("SUCCESS", Elite!ToVector(A))
          /\ Eigen!MatrixToVector(A) = Reply("SUCCESS", Eigen!ToVector(A))
      BY <2>1, MatrixConverts, PoseIsValid
    <3> QED BY <2>1, <3>1, PoseConverts, ReplyFields DEF SamePose
  <2>2. CASE Elite!Validate(A) # "SUCCESS"
    BY <2>2, MatrixConverts DEF SamePose
  <2> QED BY <1>2, <2>1, <2>2
<1>6. Same(Elite!Inverse(A), Eigen!Inverse(A))
  BY EigenInverse DEF Same
<1>7. ASSUME ~Unsummable(a) PROVE SamePose(Elite!InverseV(a), Eigen!InverseV(a))
  <2>1. CASE Elite!VectorFinite(a)
    <3> DEFINE t == Elite!Transposed(A)
    <3>1. PoseMatrix(t)
      BY <1>1, <2>1, TransposedPose
    <3>2. Elite!InverseV(a) = Reply("SUCCESS", Elite!ToVector(t)) /\ Eigen!InverseV(a) = Reply("SUCCESS", Eigen!ToVector(t))
      BY <1>7, <2>1, InverseOfVector
    <3> QED BY <3>1, <3>2, PoseConverts, ReplyFields DEF SamePose
  <2>2. CASE ~Elite!VectorFinite(a)
    BY <1>7, <2>2, InverseOfVector DEF SamePose
  <2> QED BY <2>1, <2>2
<1>8. Same(Elite!Multiply(A, B), Eigen!Multiply(A, B))
  BY EigenMultiply DEF Same
<1>9. ASSUME ~Overflows(a, b) PROVE SamePose(Elite!MultiplyV(a, b), Eigen!MultiplyV(a, b))
  <2> DEFINE P == Elite!Product(A, B)
  <2>1. CASE ~Elite!VectorFinite(a) \/ ~Elite!VectorFinite(b)
    <3>1. Elite!MultiplyV(a, b) = Eigen!MultiplyV(a, b)
      BY <1>9, <2>1, ProductOfVectors
    <3> QED BY <3>1 DEF SamePose
  <2>2. CASE Elite!VectorFinite(a) /\ Elite!VectorFinite(b) /\ Elite!MatrixFinite(P)
    <3>1. /\ PoseMatrix(P)
          /\ Elite!MultiplyV(a, b) = Reply("SUCCESS", Elite!ToVector(P))
          /\ Eigen!MultiplyV(a, b) = Reply("SUCCESS", Eigen!ToVector(P))
      BY <1>9, <2>2, ProductOfVectors
    <3> QED BY <3>1, PoseConverts, ReplyFields DEF SamePose
  <2>3. CASE Elite!VectorFinite(a) /\ Elite!VectorFinite(b) /\ ~Elite!MatrixFinite(P)
    <3>1. /\ Elite!MultiplyV(a, b) = Reply("NUMERICAL_ERROR", Elite!ToVector(P))
          /\ Eigen!MultiplyV(a, b) = Reply("NUMERICAL_ERROR", Eigen!ToVector(P))
      BY <1>9, <2>3, ProductOfVectors
    <3> QED BY <3>1, ReplyFields DEF SamePose
  <2> QED BY <2>1, <2>2, <2>3
<1>10. /\ Same(Elite!Add(A, B), Eigen!Add(A, B)) /\ Same(Elite!AddV(a, b), Eigen!AddV(a, b))
       /\ Same(Elite!Subtract(A, B), Eigen!Subtract(A, B)) /\ Same(Elite!SubtractV(a, b), Eigen!SubtractV(a, b))
  BY EigenSums DEF Same
<1>11. Same(Elite!Distance(A, B), Eigen!Distance(A, B))
  BY <1>2, <1>3, Distances DEF Same
<1>15. ASSUME ~Overflows(a, b) PROVE Same(Elite!DistanceV(a, b), Eigen!DistanceV(a, b))
  BY <1>15, DistancesOfVectors DEF Same
<1>12. Same(Elite!WorldToLocal(A, B), Eigen!WorldToLocal(A, B)) /\ Same(Elite!LocalToWorld(A, B), Eigen!LocalToWorld(A, B))
  BY EigenFrames DEF Same
<1>13. ASSUME ~Overflows(a, b)
       PROVE  /\ SamePose(Elite!WorldToLocalV(a, b), Eigen!WorldToLocalV(a, b))
              /\ SamePose(Elite!LocalToWorldV(a, b), Eigen!LocalToWorldV(a, b))
  BY <1>13, FramesOfVectors
<1> HIDE DEF A, B
<1> DEFINE OnMatrices ==
             /\ SamePose(Elite!MatrixToVector(A), Eigen!MatrixToVector(A))
             /\ Same(Elite!Inverse(A), Eigen!Inverse(A))
             /\ Same(Elite!Multiply(A, B), Eigen!Multiply(A, B))
             /\ Same(Elite!Add(A, B), Eigen!Add(A, B)) /\ Same(Elite!AddV(a, b), Eigen!AddV(a, b))
             /\ Same(Elite!Subtract(A, B), Eigen!Subtract(A, B))
             /\ Same(Elite!SubtractV(a, b), Eigen!SubtractV(a, b))
             /\ Same(Elite!Distance(A, B), Eigen!Distance(A, B))
             /\ Same(Elite!WorldToLocal(A, B), Eigen!WorldToLocal(A, B))
             /\ Same(Elite!LocalToWorld(A, B), Eigen!LocalToWorld(A, B))
           OnOne ==
             IF Unsummable(a)
             THEN /\ Ok(Elite!VectorToMatrix(a)) /\ Ok(Elite!InverseV(a))
                  /\ \A r \in {Eigen!VectorToMatrix(a), Eigen!InverseV(a)} : r.error = "NUMERICAL_ERROR"
             ELSE /\ Same(Elite!VectorToMatrix(a), Eigen!VectorToMatrix(a))
                  /\ SamePose(Elite!InverseV(a), Eigen!InverseV(a))
           OnTwo ==
             IF Overflows(a, b)
             THEN \A r \in {Eigen!MultiplyV(a, b), Eigen!DistanceV(a, b),
                            Eigen!WorldToLocalV(a, b), Eigen!LocalToWorldV(a, b)} :
                    r.error = "NUMERICAL_ERROR"
             ELSE /\ SamePose(Elite!MultiplyV(a, b), Eigen!MultiplyV(a, b))
                  /\ Same(Elite!DistanceV(a, b), Eigen!DistanceV(a, b))
                  /\ SamePose(Elite!WorldToLocalV(a, b), Eigen!WorldToLocalV(a, b))
                  /\ SamePose(Elite!LocalToWorldV(a, b), Eigen!LocalToWorldV(a, b))
<1>14. PluginsAgree(a, b) <=> OnMatrices /\ OnOne /\ OnTwo
  BY Zenon DEF PluginsAgree, A, B
<1>16. OnMatrices
  BY <1>5, <1>6, <1>8, <1>10, <1>11, <1>12
<1>17. OnOne
  BY <1>4, <1>7, OverflowRefused
<1>18. OnTwo
  BY <1>9, <1>13, <1>15, OverflowRefused
<1> HIDE DEF OnMatrices, OnOne, OnTwo
<1> QED BY <1>14, <1>16, <1>17, <1>18

\* Inverse, product and the changes of frame undo each other.
LEMMA MotionLaws ==
    ASSUME NEW A, PoseMatrix(A), NEW B, PoseMatrix(B)
    PROVE  /\ Elite!VectorToMatrix(Elite!MatrixToVector(A).out).out = A
           /\ Ok(Elite!Inverse(A)) /\ Elite!Multiply(A, Elite!Inverse(A).out).out = Identity
           /\ Elite!Inverse(Elite!Inverse(A).out).out = A
           /\ Ok(Elite!WorldToLocal(A, B)) => Elite!LocalToWorld(A, Elite!WorldToLocal(A, B).out).out = B
<1> DEFINE t == Elite!Transposed(A)
           W == Elite!Product(t, B)
<1>1. Elite!Validate(A) = "SUCCESS" /\ Elite!Validate(B) = "SUCCESS"
  BY PoseIsValid
<1>2. PoseMatrix(t) /\ Elite!Validate(t) = "SUCCESS"
  BY TransposedPose, PoseIsValid
<1>3. Elite!VectorToMatrix(Elite!MatrixToVector(A).out).out = A
  <2>1. Elite!MatrixToVector(A) = Reply("SUCCESS", Elite!ToVector(A))
    BY <1>1, MatrixConverts
  <2>2. Elite!VectorToMatrix(Elite!ToVector(A)) = Reply("SUCCESS", A)
    BY PoseConverts
  <2> QED BY <2>1, <2>2, ReplyFields
<1>4. Elite!Inverse(A) = Reply("SUCCESS", t)
  BY ProductReplies
<1>5. Elite!Multiply(A, t).out = Identity
  <2>1. Elite!Multiply(A, t) = Reply(Elite!Validate(Elite!Product(A, t)), Elite!Product(A, t))
    BY <1>1, <1>2, EliteMultiply
  <2>2. Elite!Product(A, t) = Identity
    BY InverseUndoes
  <2> QED BY <2>1, <2>2, ReplyFields
<1>6. Elite!Inverse(t).out = A
  <2>1. Elite!Inverse(t) = Reply("SUCCESS", Elite!Transposed(t))
    BY <1>2, ProductReplies
  <2>2. Elite!Transposed(t) = A
    BY TransposedTwice
  <2> QED BY <2>1, <2>2, ReplyFields
<1>7. ASSUME Ok(Elite!WorldToLocal(A, B))
      PROVE  Elite!LocalToWorld(A, Elite!WorldToLocal(A, B).out).out = B
  <2>1. Elite!WorldToLocal(A, B) = Elite!Multiply(t, B)
    BY ProductReplies
  <2>2. PoseMatrix(W) /\ Elite!WorldToLocal(A, B) = Reply("SUCCESS", W)
    BY <1>2, <1>7, <2>1, ProductReplies DEF Ok
  <2>3. Elite!Product(A, W) = B
    BY <2>2, FrameUndoes
  <2> HIDE DEF W
  <2>4. Elite!Validate(W) = "SUCCESS"
    BY <2>2, PoseIsValid
  <2>5. Elite!LocalToWorld(A, W) = Reply(Elite!Validate(B), B)
    BY <1>1, <2>3, <2>4, EigenFrames, EliteMultiply
  <2> QED BY <2>2, <2>5, ReplyFields
<1>8. Elite!Inverse(A).out = t /\ Ok(Elite!Inverse(A))
  BY <1>4, ReplyFields
<1> QED BY <1>3, <1>5, <1>6, <1>7, <1>8

\* The overloads on vectors compute what those on matrices compute.
LEMMA VectorLaws ==
    ASSUME NEW a \in PoseVectors, Elite!VectorFinite(a), NEW b \in PoseVectors, Elite!VectorFinite(b)
    PROVE  LET A == Elite!ToMatrix(a)
               B == Elite!ToMatrix(b)
           IN  /\ SamePose(Elite!InverseV(a), Then(Elite!Inverse(A), Elite!MatrixToVector))
               /\ Ok(Elite!MultiplyV(a, b)) =>
                    SamePose(Elite!MultiplyV(a, b), Then(Elite!Multiply(A, B), Elite!MatrixToVector))
               /\ Elite!Distance(A, B) = Elite!DistanceV(a, b)
<1> DEFINE A == Elite!ToMatrix(a)
           B == Elite!ToMatrix(b)
           t == Elite!Transposed(A)
           P == Elite!Product(A, B)
<1>1. PoseMatrix(A) /\ PoseMatrix(B) /\ Elite!Validate(A) = "SUCCESS" /\ Elite!Validate(B) = "SUCCESS"
  BY FiniteVector, PoseIsValid
<1>2. SamePose(Elite!InverseV(a), Then(Elite!Inverse(A), Elite!MatrixToVector))
  <2>1. PoseMatrix(t)
    BY <1>1, TransposedPose
  <2>2. Elite!InverseV(a) = Reply("SUCCESS", Elite!ToVector(t))
    BY InverseOfVector
  <2>3. Elite!Inverse(A) = Reply("SUCCESS", t)
    BY <1>1, ProductReplies
  <2>4. Elite!MatrixToVector(t) = Reply("SUCCESS", Elite!ToVector(t))
    BY <2>1, MatrixConverts, PoseIsValid
  <2>5. Then(Elite!Inverse(A), Elite!MatrixToVector) = Elite!MatrixToVector(t)
    BY <2>3 DEF Then, Ok, Reply
  <2> QED BY <2>2, <2>4, <2>5 DEF SamePose
<1>3. ASSUME Ok(Elite!MultiplyV(a, b))
      PROVE  SamePose(Elite!MultiplyV(a, b), Then(Elite!Multiply(A, B), Elite!MatrixToVector))
  <2>1. Elite!MatrixFinite(P)
    <3>1. CASE ~Elite!MatrixFinite(P)
      <4>1. Elite!MultiplyV(a, b) = Reply("NUMERICAL_ERROR", Elite!ToVector(P))
        BY <3>1, ProductOfVectors
      <4> QED BY <1>3, <4>1, ReplyFields
    <3> QED BY <3>1
  <2>2. PoseMatrix(P) /\ Elite!MultiplyV(a, b) = Reply("SUCCESS", Elite!ToVector(P))
    BY <2>1, ProductOfVectors
  <2>3. Elite!Multiply(A, B) = Reply("SUCCESS", P)
    BY <1>1, <2>2, ProductReplies
  <2>4. Elite!MatrixToVector(P) = Reply("SUCCESS", Elite!ToVector(P))
    BY <2>2, MatrixConverts, PoseIsValid
  <2>5. Then(Elite!Multiply(A, B), Elite!MatrixToVector) = Elite!MatrixToVector(P)
    BY <2>3 DEF Then, Ok, Reply
  <2> QED BY <2>2, <2>4, <2>5 DEF SamePose
<1>4. Elite!Distance(A, B) = Elite!DistanceV(a, b)
  BY <1>1, Distances, DistancesOfVectors
<1> QED BY <1>2, <1>3, <1>4

\* A sum that does not overflow is undone.
LEMMA FiniteSum ==
    ASSUME NEW x \in Doubles, NEW y \in Doubles, Elite!Plus(x, y) # NonFinite
    PROVE  Elite!Minus(Elite!Plus(x, y), y) = x
<1>1. x \in Int /\ y \in Int /\ x # NonFinite /\ y # NonFinite
  BY IntsInDoubles, NonFiniteAssumption
<1>2. Elite!Plus(x, y) = x + y
  BY <1>1 DEF Elite!Plus, Elite!Double
<1>3. x + y # NonFinite /\ (x + y) - y = x
  BY <1>1, NonFiniteAssumption
<1>4. Elite!Minus(x + y, y) = Elite!Double((x + y) - y)
  BY <1>1, <1>3 DEF Elite!Minus
<1> QED BY <1>2, <1>3, <1>4 DEF Elite!Double, Doubles

\* A sum is undone by the difference, unless it overflows.
LEMMA SumLaws ==
    ASSUME NEW a \in [1 .. 6 -> Doubles], NEW b \in [1 .. 6 -> Doubles],
           NEW A, PoseMatrix(A), NEW B, PoseMatrix(B)
    PROVE  /\ Ok(Elite!AddV(a, b)) => Elite!SubtractV(Elite!AddV(a, b).out, b).out = a
           /\ Ok(Elite!Add(A, B)) => Elite!Subtract(Elite!Add(A, B).out, B).out = A
<1>1. \A x \in Doubles : x # NonFinite
  BY IntsInDoubles, NonFiniteAssumption
<1>2. Elite!VectorFinite(a) /\ Elite!VectorFinite(b)
  BY <1>1 DEF Elite!VectorFinite
<1>3. ASSUME Ok(Elite!AddV(a, b))
      PROVE  Elite!SubtractV(Elite!AddV(a, b).out, b).out = a
  <2> DEFINE s == SumV(a, b)
  <2>1. Elite!AddV(a, b) = Reply(IF Elite!VectorFinite(s) THEN "SUCCESS" ELSE "NUMERICAL_ERROR", s)
    BY <1>2, EliteSums DEF Entrywise
  <2>2. Elite!VectorFinite(s) /\ Elite!AddV(a, b).out = s
    BY <1>3, <2>1, ReplyFields
  <2>3. \A i \in 1 .. 6 : s[i] = Elite!Plus(a[i], b[i]) /\ s[i] # NonFinite
    BY <2>2 DEF SumV, Elite!VectorFinite
  <2> HIDE DEF s
  <2>4. \A i \in 1 .. 6 : Elite!Minus(s[i], b[i]) = a[i]
    BY <2>3, FiniteSum
  <2>5. DifferenceV(s, b) = a
    BY <2>4 DEF DifferenceV
  <2>6. Elite!SubtractV(s, b) = Entrywise(TRUE, TRUE, Elite!VectorFinite(a), a)
    BY <1>2, <2>2, <2>5, EliteSums DEF Entrywise
  <2> QED BY <2>2, <2>6, ReplyFields DEF Entrywise
<1>4. ASSUME Ok(Elite!Add(A, B))
      PROVE  Elite!Subtract(Elite!Add(A, B).out, B).out = A
  <2> DEFINE S == SumM(A, B)
  <2>1. \A i, j \in Rows : A[i][j] \in Doubles /\ B[i][j] \in Doubles
    BY FiniteEntries
  <2>2. Elite!MatrixFinite(A) /\ Elite!MatrixFinite(B)
    BY <1>1, <2>1 DEF Elite!MatrixFinite, Elite!Rows, Rows
  <2>3. Elite!Add(A, B) = Reply(IF Elite!MatrixFinite(S) THEN "SUCCESS" ELSE "NUMERICAL_ERROR", S)
    BY <2>2, EliteSums DEF Entrywise
  <2>4. Elite!MatrixFinite(S) /\ Elite!Add(A, B).out = S
    BY <1>4, <2>3, ReplyFields
  <2>5. \A i, j \in Rows : S[i][j] # NonFinite
    BY <2>4 DEF Elite!MatrixFinite, Elite!Rows, Rows
  <2>6. \A i, j \in Rows : S[i][j] = Elite!Plus(A[i][j], B[i][j])
    BY DEF SumM
  <2> HIDE DEF S
  <2>7. \A i, j \in Rows : Elite!Minus(S[i][j], B[i][j]) = A[i][j]
    BY <2>1, <2>5, <2>6, FiniteSum
  <2>8. A = [i \in Rows |-> [j \in Rows |-> A[i][j]]]
    BY DEF PoseMatrix, Isometry, IntMatrices
  <2>9. DifferenceM(S, B) = [i \in Rows |-> [j \in Rows |-> A[i][j]]]
    BY <2>7 DEF DifferenceM
  <2>10. Elite!Subtract(S, B) = Entrywise(TRUE, TRUE, Elite!MatrixFinite(A), A)
    BY <2>2, <2>4, <2>8, <2>9, EliteSums DEF Entrywise
  <2> QED BY <2>4, <2>10, ReplyFields DEF Entrywise
<1> QED BY <1>3, <1>4

\* The difference of two lengths in either direction.
LEMMA Apart ==
    ASSUME NEW x \in Doubles, NEW y \in Doubles
    PROVE  LET p == Elite!Minus(x, y)
               q == Elite!Minus(y, x)
           IN  /\ p = NonFinite <=> q = NonFinite
               /\ p # NonFinite => p \in Int /\ q \in Int /\ p * p = q * q /\ p * p >= 0 /\ (p * p = 0 <=> x = y)
<1> DEFINE p == Elite!Minus(x, y)
           q == Elite!Minus(y, x)
<1>1. x \in Int /\ y \in Int /\ x # NonFinite /\ y # NonFinite
  BY IntsInDoubles, NonFiniteAssumption
<1>2. p = (IF x - y \in Doubles THEN x - y ELSE NonFinite) /\ q = (IF y - x \in Doubles THEN y - x ELSE NonFinite)
  BY <1>1 DEF Elite!Minus, Elite!Double, Doubles
<1>3. x - y \in Doubles <=> y - x \in Doubles
  BY <1>1, HugeAssumption DEF Doubles
<1>4. x - y # NonFinite /\ y - x # NonFinite
  BY <1>1, NonFiniteAssumption
<1> HIDE DEF p, q
<1>5. p = NonFinite <=> q = NonFinite
  BY <1>2, <1>3, <1>4
<1>6. ASSUME p # NonFinite
      PROVE  p \in Int /\ q \in Int /\ p * p = q * q /\ p * p >= 0 /\ (p * p = 0 <=> x = y)
  <2>1. p = x - y /\ q = y - x
    BY <1>2, <1>3, <1>6
  <2>2. p \in Int /\ q \in Int /\ p + q = 0 /\ (p = 0 <=> x = y)
    BY <1>1, <2>1
  <2>3. \A r, s \in Int : r + s = 0 => r * r = s * s
    OBVIOUS
  <2>4. \A r \in Int : r * r >= 0 /\ (r * r = 0 <=> r = 0)
    OBVIOUS
  <2> QED BY <2>2, <2>3, <2>4
<1> QED BY <1>5, <1>6 DEF p, q

\* The square of the linear distance is symmetric, and 0 between equal places only.
LEMMA LinearLaw ==
    ASSUME NEW A, PoseMatrix(A), NEW B, PoseMatrix(B)
    PROVE  LET s == Elite!ComputeDistance(A, B).linear
           IN  /\ s = Elite!ComputeDistance(B, A).linear
               /\ s # NonFinite =>
                    (s = 0 <=> A[1][4] = B[1][4] /\ A[2][4] = B[2][4] /\ A[3][4] = B[3][4])
<1> DEFINE d == [i \in 1 .. 3 |-> Elite!Minus(A[i][4], B[i][4])]
           e == [i \in 1 .. 3 |-> Elite!Minus(B[i][4], A[i][4])]
           p1 == Elite!Minus(A[1][4], B[1][4])  q1 == Elite!Minus(B[1][4], A[1][4])
           p2 == Elite!Minus(A[2][4], B[2][4])  q2 == Elite!Minus(B[2][4], A[2][4])
           p3 == Elite!Minus(A[3][4], B[3][4])  q3 == Elite!Minus(B[3][4], A[3][4])
           s == Elite!ComputeDistance(A, B).linear
           u == Elite!ComputeDistance(B, A).linear
<1>1. /\ s = IF Elite!VectorFinite(d) THEN Elite!Double(d[1] * d[1] + d[2] * d[2] + d[3] * d[3]) ELSE NonFinite
      /\ u = IF Elite!VectorFinite(e) THEN Elite!Double(e[1] * e[1] + e[2] * e[2] + e[3] * e[3]) ELSE NonFinite
  BY DEF Elite!ComputeDistance, Elite!Axes
<1>2. d[1] = p1 /\ d[2] = p2 /\ d[3] = p3 /\ e[1] = q1 /\ e[2] = q2 /\ e[3] = q3
  OBVIOUS
<1>3. /\ DOMAIN d = {1, 2, 3} /\ DOMAIN e = {1, 2, 3}
  OBVIOUS
<1>4. /\ A[1][4] \in Doubles /\ A[2][4] \in Doubles /\ A[3][4] \in Doubles
      /\ B[1][4] \in Doubles /\ B[2][4] \in Doubles /\ B[3][4] \in Doubles
  BY DEF PoseMatrix
<1> HIDE DEF d, e, s, u
<1>5. /\ Elite!VectorFinite(d) <=> p1 # NonFinite /\ p2 # NonFinite /\ p3 # NonFinite
      /\ Elite!VectorFinite(e) <=> q1 # NonFinite /\ q2 # NonFinite /\ q3 # NonFinite
  BY <1>2, <1>3 DEF Elite!VectorFinite
<1>6. /\ p1 = NonFinite <=> q1 = NonFinite
      /\ p1 # NonFinite => p1 \in Int /\ q1 \in Int /\ p1 * p1 = q1 * q1 /\ p1 * p1 >= 0 /\ (p1 * p1 = 0 <=> A[1][4] = B[1][4])
  BY <1>4, Apart
<1>7. /\ p2 = NonFinite <=> q2 = NonFinite
      /\ p2 # NonFinite => p2 \in Int /\ q2 \in Int /\ p2 * p2 = q2 * q2 /\ p2 * p2 >= 0 /\ (p2 * p2 = 0 <=> A[2][4] = B[2][4])
  BY <1>4, Apart
<1>8. /\ p3 = NonFinite <=> q3 = NonFinite
      /\ p3 # NonFinite => p3 \in Int /\ q3 \in Int /\ p3 * p3 = q3 * q3 /\ p3 * p3 >= 0 /\ (p3 * p3 = 0 <=> A[3][4] = B[3][4])
  BY <1>4, Apart
<1> HIDE DEF p1, p2, p3, q1, q2, q3
<1>9. CASE p1 # NonFinite /\ p2 # NonFinite /\ p3 # NonFinite
  <2>1. s = Elite!Double(p1 * p1 + p2 * p2 + p3 * p3) /\ u = Elite!Double(q1 * q1 + q2 * q2 + q3 * q3)
    BY <1>1, <1>2, <1>5, <1>6, <1>7, <1>8, <1>9
  <2>2. s = u
    BY <1>6, <1>7, <1>8, <1>9, <2>1
  <2>3. s # NonFinite => (s = 0 <=> p1 * p1 = 0 /\ p2 * p2 = 0 /\ p3 * p3 = 0)
    <3> DEFINE x == p1 * p1
               y == p2 * p2
               z == p3 * p3
    <3>1. x \in Int /\ y \in Int /\ z \in Int /\ x >= 0 /\ y >= 0 /\ z >= 0
      BY <1>6, <1>7, <1>8, <1>9
    <3>2. s = Elite!Double(x + y + z)
      BY <2>1
    <3> HIDE DEF x, y, z
    <3>3. s # NonFinite => s = x + y + z
      BY <3>2 DEF Elite!Double
    <3>4. s # NonFinite => (s = 0 <=> x = 0 /\ y = 0 /\ z = 0)
      BY <3>1, <3>3
    <3> QED BY <3>4 DEF x, y, z
  <2> QED BY <1>6, <1>7, <1>8, <1>9, <2>2, <2>3 DEF s, u
<1>10. CASE p1 = NonFinite \/ p2 = NonFinite \/ p3 = NonFinite
  <2>1. s = NonFinite /\ u = NonFinite
    BY <1>1, <1>5, <1>6, <1>7, <1>8, <1>10
  <2> QED BY <2>1 DEF s, u
<1> QED BY <1>9, <1>10

\* Twice the cosine of the angle between two poses is symmetric, and 2 between
\* equal rotations only.
LEMMA AngularLaw ==
    ASSUME NEW A, PoseMatrix(A), NEW B, PoseMatrix(B)
    PROVE  LET s == Elite!ComputeDistance(A, B).angular
           IN  /\ s = Elite!ComputeDistance(B, A).angular
               /\ s = 2 <=> /\ A[1][1] = B[1][1] /\ A[1][2] = B[1][2] /\ A[1][3] = B[1][3]
                            /\ A[2][1] = B[2][1] /\ A[2][2] = B[2][2] /\ A[2][3] = B[2][3]
                            /\ A[3][1] = B[3][1] /\ A[3][2] = B[3][2] /\ A[3][3] = B[3][3]
<1> DEFINE a == A[1][1]  b == A[1][2]  c == A[1][3]  a2 == B[1][1]  b2 == B[1][2]  c2 == B[1][3]
           d == A[2][1]  e == A[2][2]  f == A[2][3]  d2 == B[2][1]  e2 == B[2][2]  f2 == B[2][3]
           g == A[3][1]  h == A[3][2]  i == A[3][3]  g2 == B[3][1]  h2 == B[3][2]  i2 == B[3][3]
           x == a * a2 + d * d2 + g * g2
           y == b * b2 + e * e2 + h * h2
           z == c * c2 + f * f2 + i * i2
           s == Elite!ComputeDistance(A, B).angular
           u == Elite!ComputeDistance(B, A).angular
<1>1. s = Elite!Clamp((x + y + z) - 1, -2, 2)
  BY DEF Elite!ComputeDistance, Elite!ColumnDot
<1>2. u = Elite!Clamp(((a2 * a + d2 * d + g2 * g) + (b2 * b + e2 * e + h2 * h) + (c2 * c + f2 * f + i2 * i)) - 1, -2, 2)
  BY DEF Elite!ComputeDistance, Elite!ColumnDot
<1>3. /\ a \in Units /\ b \in Units /\ c \in Units /\ d \in Units /\ e \in Units /\ f \in Units
      /\ g \in Units /\ h \in Units /\ i \in Units
  BY UnitEntries DEF PoseMatrix
<1>4. /\ a2 \in Units /\ b2 \in Units /\ c2 \in Units /\ d2 \in Units /\ e2 \in Units /\ f2 \in Units
      /\ g2 \in Units /\ h2 \in Units /\ i2 \in Units
  BY UnitEntries DEF PoseMatrix
<1>5. RightHanded(a, b, c, d, e, f, g, h, i) /\ RightHanded(a2, b2, c2, d2, e2, f2, g2, h2, i2)
  BY DEF PoseMatrix, Isometry
<1> HIDE DEF a, b, c, d, e, f, g, h, i, a2, b2, c2, d2, e2, f2, g2, h2, i2, s, u
<1>6. x = a2 * a + d2 * d + g2 * g /\ y = b2 * b + e2 * e + h2 * h /\ z = c2 * c + f2 * f + i2 * i
  BY ONLY <1>3, <1>4 DEF Units
<1>7. x \in -1 .. 1 /\ (x = 1 <=> a = a2 /\ d = d2 /\ g = g2)
  BY ONLY <1>3, <1>4, <1>5 DEF Units, RightHanded
<1>8. y \in -1 .. 1 /\ (y = 1 <=> b = b2 /\ e = e2 /\ h = h2)
  BY ONLY <1>3, <1>4, <1>5 DEF Units, RightHanded
<1>9. z \in -1 .. 1 /\ (z = 1 <=> c = c2 /\ f = f2 /\ i = i2)
  BY ONLY <1>3, <1>4, <1>5 DEF Units, RightHanded
<1> HIDE DEF x, y, z
<1>10. s = u
  BY <1>1, <1>2, <1>6
<1>11. s = 2 <=> x = 1 /\ y = 1 /\ z = 1
  BY <1>1, <1>7, <1>8, <1>9 DEF Elite!Clamp
<1> QED BY <1>7, <1>8, <1>9, <1>10, <1>11 DEF a, b, c, d, e, f, g, h, i, a2, b2, c2, d2, e2, f2, g2, h2, i2, s, u

\* The distance is symmetric, and that of a pose to itself for equal poses only.
LEMMA DistanceLaws ==
    ASSUME NEW A, PoseMatrix(A), NEW B, PoseMatrix(B)
    PROVE  /\ Elite!Distance(A, B) = Elite!Distance(B, A)
           /\ Ok(Elite!Distance(A, B)) =>
                (Elite!Distance(A, B).out = [linear |-> 0, angular |-> 2] <=> A = B)
<1> DEFINE d == Elite!ComputeDistance(A, B)
           e == Elite!ComputeDistance(B, A)
<1>1. Elite!Distance(A, B) = Measured(d) /\ Elite!Distance(B, A) = Measured(e)
  BY Distances, PoseIsValid
<1>2. d = [linear |-> d.linear, angular |-> d.angular] /\ e = [linear |-> e.linear, angular |-> e.angular]
  BY DEF Elite!ComputeDistance
<1>3. /\ d.linear = e.linear
      /\ d.linear # NonFinite =>
           (d.linear = 0 <=> A[1][4] = B[1][4] /\ A[2][4] = B[2][4] /\ A[3][4] = B[3][4])
  BY LinearLaw
<1>4. /\ d.angular = e.angular
      /\ d.angular = 2 <=> /\ A[1][1] = B[1][1] /\ A[1][2] = B[1][2] /\ A[1][3] = B[1][3]
                           /\ A[2][1] = B[2][1] /\ A[2][2] = B[2][2] /\ A[2][3] = B[2][3]
                           /\ A[3][1] = B[3][1] /\ A[3][2] = B[3][2] /\ A[3][3] = B[3][3]
  BY AngularLaw
<1> HIDE DEF d, e
<1>5. d = e
  BY <1>2, <1>3, <1>4
<1>6. ASSUME Ok(Elite!Distance(A, B))
      PROVE  Elite!Distance(A, B).out = [linear |-> 0, angular |-> 2] <=> A = B
  <2>1. Elite!Distance(A, B).out = d /\ d.linear # NonFinite
    BY <1>1, <1>6, ReplyFields DEF Measured
  <2>2. d = [linear |-> 0, angular |-> 2] <=> d.linear = 0 /\ d.angular = 2
    BY <1>2
  <2>3. d.linear = 0 /\ d.angular = 2 <=> \A i, j \in Rows : A[i][j] = B[i][j]
    <3>1. /\ A[4][1] = 0 /\ A[4][2] = 0 /\ A[4][3] = 0 /\ A[4][4] = 1
          /\ B[4][1] = 0 /\ B[4][2] = 0 /\ B[4][3] = 0 /\ B[4][4] = 1
      BY Isometry4 DEF PoseMatrix
    <3> QED BY <1>3, <1>4, <2>1, <3>1, RowsAre
  <2>4. A \in [Rows -> [Rows -> Int]] /\ B \in [Rows -> [Rows -> Int]]
    BY DEF PoseMatrix, Isometry, IntMatrices
  <2>5. (\A i, j \in Rows : A[i][j] = B[i][j]) <=> A = B
    BY <2>4, MatrixEqual
  <2> QED BY <2>1, <2>2, <2>3, <2>5
<1> QED BY <1>1, <1>5, <1>6

\* The laws of poses, for all vectors of finite numbers.
LEMMA GroupLawsHold ==
    ASSUME NEW a \in PoseVectors, Elite!VectorFinite(a), NEW b \in PoseVectors, Elite!VectorFinite(b)
    PROVE  GroupLaws(a, b)
<1> DEFINE A == Elite!ToMatrix(a)
           B == Elite!ToMatrix(b)
<1>1. Elite!VectorToMatrix(a).out = A /\ Elite!VectorToMatrix(b).out = B
  BY VectorConverts, ReplyFields
<1>2. PoseMatrix(A) /\ PoseMatrix(B) /\ a \in [1 .. 6 -> Doubles] /\ b \in [1 .. 6 -> Doubles]
  BY FiniteVector
<1>3. /\ SamePose(Elite!InverseV(a), Then(Elite!Inverse(A), Elite!MatrixToVector))
      /\ Ok(Elite!MultiplyV(a, b)) =>
           SamePose(Elite!MultiplyV(a, b), Then(Elite!Multiply(A, B), Elite!MatrixToVector))
      /\ Elite!Distance(A, B) = Elite!DistanceV(a, b)
  BY VectorLaws
<1>4. Then(Elite!Inverse(A), Elite!MatrixToVector) =
        IF Elite!Inverse(A).error = "SUCCESS" THEN Elite!MatrixToVector(Elite!Inverse(A).out)
        ELSE Reply(Elite!Inverse(A).error, <<>>)
  BY DEF Then, Ok, Failure, Reply
<1>5. Then(Elite!Multiply(A, B), Elite!MatrixToVector) =
        IF Elite!Multiply(A, B).error = "SUCCESS" THEN Elite!MatrixToVector(Elite!Multiply(A, B).out)
        ELSE Reply(Elite!Multiply(A, B).error, <<>>)
  BY DEF Then, Ok, Failure, Reply
<1>6. Elite!VectorToMatrix(Elite!MatrixToVector(A).out).out = A
  BY <1>2, MotionLaws
<1>7. /\ Ok(Elite!Inverse(A)) /\ Elite!Multiply(A, Elite!Inverse(A).out).out = Identity
      /\ Elite!Inverse(Elite!Inverse(A).out).out = A
  BY <1>2, MotionLaws
<1>8. Ok(Elite!WorldToLocal(A, B)) => Elite!LocalToWorld(A, Elite!WorldToLocal(A, B).out).out = B
  BY <1>2, MotionLaws
<1>9. Ok(Elite!AddV(a, b)) => Elite!SubtractV(Elite!AddV(a, b).out, b).out = a
  BY <1>2, SumLaws
<1>10. Ok(Elite!Add(A, B)) => Elite!Subtract(Elite!Add(A, B).out, B).out = A
  BY <1>2, SumLaws
<1>11. /\ Elite!Distance(A, B) = Elite!Distance(B, A)
       /\ Ok(Elite!Distance(A, B)) => (Elite!Distance(A, B).out = [linear |-> 0, angular |-> 2] <=> A = B)
  BY <1>2, DistanceLaws
<1> HIDE DEF A, B
<1> QED BY <1>1, <1>3, <1>6, <1>7, <1>8, <1>9, <1>10, <1>11, Zenon DEF GroupLaws

\* A matrix that is no pose is refused, and never because it is singular.
LEMMA Refusal ==
    ASSUME NEW m \in [Rows -> [Rows -> Doubles \cup {NonFinite}]], ~IsPose(m)
    PROVE  Refused(m)
<1>1. Elite!MatrixFinite(m) <=> MatrixFinite(m)
  BY DEF Elite!MatrixFinite, MatrixFinite, Elite!Rows, Rows
<1>2. ASSUME MatrixFinite(m) PROVE m \in IntMatrices
  <2>1. \A i \in Rows : m[i] = [j \in Rows |-> m[i][j]] /\ \A j \in Rows : m[i][j] \in Int
    BY <1>2, IntsInDoubles DEF MatrixFinite
  <2>2. \A i \in Rows : m[i] \in [Rows -> Int]
    BY <2>1
  <2> QED BY <2>2 DEF IntMatrices
<1>3. Elite!Validate(m) # "SUCCESS"
  <2> SUFFICES ASSUME Elite!Validate(m) = "SUCCESS" PROVE FALSE
    OBVIOUS
  <2>1. MatrixFinite(m)
    BY <1>1 DEF Elite!Validate
  <2>2. m \in IntMatrices /\ Isometry(m)
    BY <1>2, <2>1, ValidIsIsometry
  <2> DEFINE w == Eigen!ToVector(m)
  <2>3. /\ Elite!ToMatrix(w) = m
        /\ w[1] = m[1][4] /\ w[2] = m[2][4] /\ w[3] = m[3][4]
        /\ w[4] \in -1 .. 2 /\ w[5] \in -1 .. 2 /\ w[6] \in 0 .. 2
        /\ w = <<w[1], w[2], w[3], w[4], w[5], w[6]>>
    BY <2>2, RoundTripEigen
  <2> HIDE DEF w
  <2>4. w[6] \in -1 .. 2
    BY <2>3
  <2>5. m = Elite!ToMatrix(<<m[1][4], m[2][4], m[3][4], w[4], w[5], w[6]>>)
    BY <2>3
  <2> QED BY <2>1, <2>3, <2>4, <2>5 DEF IsPose
<1>4. Elite!Validate(m) # "SINGULAR_MATRIX"
  <2> SUFFICES ASSUME Elite!Validate(m) = "SINGULAR_MATRIX" PROVE FALSE
    OBVIOUS
  <2>1. /\ MatrixFinite(m)
        /\ \A i, j \in 1 .. 3 : Elite!ColumnDot(m, i, m, j) = Identity[i][j]
        /\ Elite!Determinant3x3(m) = 0
    BY <1>1, EliteIdentity DEF Elite!Validate, Elite!Axes
  <2>2. m \in IntMatrices
    BY <1>2, <2>1
  <2> DEFINE a == m[1][1]  b == m[1][2]  c == m[1][3]
             d == m[2][1]  e == m[2][2]  f == m[2][3]
             g == m[3][1]  h == m[3][2]  i == m[3][3]
  <2>3. /\ a \in Int /\ b \in Int /\ c \in Int /\ d \in Int /\ e \in Int /\ f \in Int
        /\ g \in Int /\ h \in Int /\ i \in Int
    BY <2>2, IntEntries
  <2>4. /\ a * a + d * d + g * g = 1 /\ b * b + e * e + h * h = 1 /\ c * c + f * f + i * i = 1
        /\ a * b + d * e + g * h = 0 /\ a * c + d * f + g * i = 0 /\ b * c + e * f + h * i = 0
    <3>1. 1 \in 1 .. 3 /\ 2 \in 1 .. 3 /\ 3 \in 1 .. 3
      OBVIOUS
    <3>2. /\ Identity[1][1] = 1 /\ Identity[2][2] = 1 /\ Identity[3][3] = 1
          /\ Identity[1][2] = 0 /\ Identity[1][3] = 0 /\ Identity[2][3] = 0
      BY EliteIdentity DEF Rows
    <3> QED BY <2>1, <3>1, <3>2 DEF Elite!ColumnDot
  <2>5. a * (e * i - f * h) - b * (d * i - f * g) + c * (d * h - e * g) = 0
    BY <2>1 DEF Elite!Determinant3x3
  <2> HIDE DEF a, b, c, d, e, f, g, h, i
  <2>6. a \in Units /\ d \in Units /\ g \in Units
    BY <2>3, <2>4, UnitVector
  <2>7. b \in Units /\ e \in Units /\ h \in Units
    BY <2>3, <2>4, UnitVector
  <2>8. c \in Units /\ f \in Units /\ i \in Units
    BY <2>3, <2>4, UnitVector
  <2> QED BY ONLY <2>4, <2>5, <2>6, <2>7, <2>8 DEF Units
<1>5. Elite!Inverse(m) = Reply(Elite!Validate(m), <<>>)
  BY <1>3, EliteInverse
<1>6. /\ Elite!MatrixToVector(m) = Reply(Elite!Validate(m), <<>>)
      /\ Eigen!MatrixToVector(m) = Reply(Elite!Validate(m), <<>>)
  BY <1>3, MatrixConverts
<1>7. /\ Same(Elite!Inverse(m), Eigen!Inverse(m))
      /\ Same(Elite!Multiply(Identity, m), Eigen!Multiply(Identity, m))
      /\ Same(Elite!Multiply(m, Identity), Eigen!Multiply(m, Identity))
  BY EigenInverse, EigenMultiply DEF Same
<1>8. ~Ok(Elite!Inverse(m)) /\ Elite!Inverse(m).error = Elite!Validate(m)
  BY <1>3, <1>5, ReplyFields
<1>9. /\ Elite!MatrixToVector(m).error = Elite!Validate(m)
      /\ Eigen!MatrixToVector(m).error = Elite!Validate(m)
  BY <1>6, ReplyFields
<1> QED BY <1>4, <1>7, <1>8, <1>9 DEF Refused

---------------------------------------------------------------------------
(* The words of the messages to the script.                                 *)

\* Lists of m words.
Words(m) == [1 .. m -> Int]

\* The words s stand in the message behind its first f.
Placed(s, m, message, f) ==
    /\ s \in Words(m)
    /\ \A i \in 1 .. m : message[f + i] = s[i]

\* The first m words of s are those of t too.
Kept(s, t, m) == \A i \in 1 .. m : t[i] = s[i]

\* Integers, multiplied for the script to divide them.
Scaled(s) == Map(LAMBDA n : n * Ratio, s)

\* A number of words, as a sequence.
LEMMA WordList ==
    ASSUME NEW m \in Nat, NEW s \in Words(m)
    PROVE  s \in Seq(Int) /\ Len(s) = m /\ DOMAIN s = 1 .. m
<1>1. s \in Seq(Int)
  BY SeqDef DEF Words
<1>2. DOMAIN s = 1 .. Len(s) /\ Len(s) \in Nat
  BY <1>1, LenProperties
<1>3. DOMAIN s = 1 .. m
  BY DEF Words
<1>4. ASSUME NEW n \in Nat, 1 .. n = 1 .. m
      PROVE  n = m
  <2>1. n <= m
    BY <1>4
  <2>2. m <= n
    BY <1>4
  <2> QED BY <2>1, <2>2
<1> QED BY <1>1, <1>2, <1>3, <1>4, Zenon

\* A number that was cut off or rounded to the fixed point.
LEMMA FixedPoint ==
    ASSUME NEW x \in Int
    PROVE  /\ Truncated(x) \in Int /\ Near(Real(Truncated(x)), x, 1)
           /\ x >= 0 => Real(Truncated(x)) <= x
           /\ Rounded(x) \in Int /\ Near(Real(Rounded(x)), x, 1)
           /\ x > 0 => Rounded(x) > 0
<1>1. Truncated(x) \in Int /\ Rounded(x) \in Int
  BY DEF Truncated, Rounded
<1>2. Real(Truncated(x)) - x \in -1 .. 1
  BY DEF Truncated, Real
<1>3. Real(Rounded(x)) - x \in -1 .. 1
  BY DEF Rounded, Real
<1>4. x >= 0 => Real(Truncated(x)) <= x
  BY DEF Truncated, Real
<1>5. x > 0 => Rounded(x) > 0
  BY DEF Rounded
<1> QED BY <1>1, <1>2, <1>3, <1>4, <1>5 DEF Near

\* An integer that was multiplied comes out again.
LEMMA WholeAgain ==
    ASSUME NEW x \in Int
    PROVE  Whole(x * Ratio) = x /\ x * Ratio \in Int
  BY RatioAssumption DEF Whole

\* A part of a message, word by word.
LEMMA PartIs ==
    ASSUME NEW s, NEW m \in Nat, m > 0, NEW message, NEW f \in Nat, Placed(s, m, message, f)
    PROVE  SubSeq(message, f + 1, f + m) = s
<1> DEFINE t == SubSeq(message, f + 1, f + m)
<1>1. s \in [1 .. m -> Int] /\ \A i \in 1 .. m : message[f + i] = s[i]
  BY DEF Placed, Words
<1>2. \A j \in f + 1 .. f + m : message[j] \in Int
  <2> TAKE j \in f + 1 .. f + m
  <2>1. j - f \in 1 .. m /\ j = f + (j - f)
    OBVIOUS
  <2>2. message[f + (j - f)] = s[j - f] /\ s[j - f] \in Int
    BY <1>1, <2>1
  <2> QED BY <2>1, <2>2
<1>3. f + 1 \in Int /\ f + m \in Int /\ f + 1 <= f + m /\ (f + m) - (f + 1) + 1 = m
  OBVIOUS
<1>4. /\ t \in Seq(Int)
      /\ Len(t) = IF f + 1 <= f + m THEN (f + m) - (f + 1) + 1 ELSE 0
      /\ \A i \in 1 .. (f + m) - (f + 1) + 1 : t[i] = message[(f + 1) + i - 1]
  BY <1>2, <1>3, SubSeqProperties
<1> HIDE DEF t
<1>5. Len(t) = m /\ \A i \in 1 .. m : t[i] = message[(f + 1) + i - 1]
  BY <1>3, <1>4
<1>6. \A i \in 1 .. m : t[i] = s[i]
  <2> TAKE i \in 1 .. m
  <2>1. (f + 1) + i - 1 = f + i
    OBVIOUS
  <2> QED BY <1>1, <1>5, <2>1
<1>7. t \in [1 .. m -> Int]
  BY <1>4, <1>5, LenProperties
<1>8. t = s
  BY <1>1, <1>6, <1>7
<1> QED BY <1>8 DEF t

\* The words of a list of numbers that are cut off, rounded or multiplied.
LEMMA WordsOf ==
    ASSUME NEW m \in Nat, NEW s \in Words(m)
    PROVE  /\ Map(Truncated, s) = [i \in 1 .. m |-> Truncated(s[i])] /\ Map(Truncated, s) \in Words(m)
           /\ Map(Rounded, s) = [i \in 1 .. m |-> Rounded(s[i])] /\ Map(Rounded, s) \in Words(m)
           /\ Scaled(s) = [i \in 1 .. m |-> s[i] * Ratio] /\ Scaled(s) \in Words(m)
           /\ Map(Real, s) = [i \in 1 .. m |-> Real(s[i])] /\ Map(Real, s) \in Words(m)
           /\ Map(Whole, s) = [i \in 1 .. m |-> Whole(s[i])]
<1>1. DOMAIN s = 1 .. m
  BY DEF Words
<1>2. \A i \in 1 .. m : s[i] \in Int
  BY DEF Words
<1>3. \A i \in 1 .. m : Truncated(s[i]) \in Int /\ Rounded(s[i]) \in Int
  BY <1>2, FixedPoint
<1>4. \A i \in 1 .. m : s[i] * Ratio \in Int
  BY <1>2, WholeAgain
<1>5. \A i \in 1 .. m : Real(s[i]) \in Int
  BY <1>2 DEF Real
<1>6. Map(Truncated, s) = [i \in 1 .. m |-> Truncated(s[i])]
  BY <1>1, Zenon DEF Map
<1>7. Map(Rounded, s) = [i \in 1 .. m |-> Rounded(s[i])]
  BY <1>1, Zenon DEF Map
<1>8. Scaled(s) = [i \in 1 .. m |-> s[i] * Ratio]
  BY <1>1, Zenon DEF Map, Scaled
<1>9. Map(Real, s) = [i \in 1 .. m |-> Real(s[i])]
  BY <1>1, Zenon DEF Map
<1>10. Map(Whole, s) = [i \in 1 .. m |-> Whole(s[i])]
  BY <1>1, Zenon DEF Map
<1>11. Map(Truncated, s) \in Words(m)
  BY <1>3, <1>6 DEF Words
<1>12. Map(Rounded, s) \in Words(m)
  BY <1>3, <1>7 DEF Words
<1>13. Scaled(s) \in Words(m)
  BY <1>4, <1>8 DEF Words
<1>14. Map(Real, s) \in Words(m)
  BY <1>5, <1>9 DEF Words
<1> QED BY <1>6, <1>7, <1>8, <1>9, <1>10, <1>11, <1>12, <1>13, <1>14, Zenon

\* Two lists of numbers that are near each other, one by one.
LEMMA ListsNear ==
    ASSUME NEW m \in Nat, NEW s \in Words(m), NEW t \in Words(m),
           \A i \in 1 .. m : Near(s[i], t[i], 1)
    PROVE  AllNear(s, t, 1)
<1>1. Len(s) = m /\ Len(t) = m /\ DOMAIN s = 1 .. m
  BY WordList
<1> QED BY <1>1 DEF AllNear

\* What was cut off or rounded to words and read again is near what it was.
LEMMA ReadAgain ==
    ASSUME NEW m \in Nat, NEW s \in Words(m)
    PROVE  /\ AllNear(Map(Real, Map(Truncated, s)), s, 1)
           /\ AllNear(Map(Real, Map(Rounded, s)), s, 1)
           /\ Map(Whole, Scaled(s)) = s
<1>1. \A i \in 1 .. m : s[i] \in Int
  BY DEF Words
<1>2. AllNear(Map(Real, Map(Truncated, s)), s, 1)
  <2> DEFINE t == Map(Truncated, s)
             u == Map(Real, t)
  <2>1. t \in Words(m) /\ t = [i \in 1 .. m |-> Truncated(s[i])]
    BY WordsOf
  <2> HIDE DEF t
  <2>2. u \in Words(m) /\ u = [i \in 1 .. m |-> Real(t[i])]
    BY <2>1, WordsOf
  <2> HIDE DEF u
  <2>3. \A i \in 1 .. m : u[i] = Real(Truncated(s[i]))
    BY <2>1, <2>2
  <2>4. \A i \in 1 .. m : Near(u[i], s[i], 1)
    BY <1>1, <2>3, FixedPoint
  <2>5. AllNear(u, s, 1)
    BY <2>2, <2>4, ListsNear
  <2> QED BY <2>5 DEF t, u
<1>3. AllNear(Map(Real, Map(Rounded, s)), s, 1)
  <2> DEFINE t == Map(Rounded, s)
             u == Map(Real, t)
  <2>1. t \in Words(m) /\ t = [i \in 1 .. m |-> Rounded(s[i])]
    BY WordsOf
  <2> HIDE DEF t
  <2>2. u \in Words(m) /\ u = [i \in 1 .. m |-> Real(t[i])]
    BY <2>1, WordsOf
  <2> HIDE DEF u
  <2>3. \A i \in 1 .. m : u[i] = Real(Rounded(s[i]))
    BY <2>1, <2>2
  <2>4. \A i \in 1 .. m : Near(u[i], s[i], 1)
    BY <1>1, <2>3, FixedPoint
  <2>5. AllNear(u, s, 1)
    BY <2>2, <2>4, ListsNear
  <2> QED BY <2>5 DEF t, u
<1>4. Map(Whole, Scaled(s)) = s
  <2> DEFINE t == Scaled(s)
  <2>1. t \in Words(m) /\ t = [i \in 1 .. m |-> s[i] * Ratio]
    BY WordsOf
  <2>2. \A i \in 1 .. m : Whole(s[i] * Ratio) = s[i]
    BY <1>1, WholeAgain
  <2> HIDE DEF t
  <2>3. Map(Whole, t) = [i \in 1 .. m |-> Whole(t[i])]
    BY <2>1, WordsOf
  <2>4. \A i \in 1 .. m : Whole(t[i]) = s[i]
    <3> TAKE i \in 1 .. m
    <3>1. t[i] = s[i] * Ratio
      BY <2>1, Zenon
    <3> QED BY <2>2, <3>1, Zenon
  <2>5. s = [i \in 1 .. m |-> s[i]]
    BY DEF Words
  <2>6. Map(Whole, t) = s
    BY <2>3, <2>4, <2>5
  <2> QED BY <2>6 DEF t
<1> QED BY <1>2, <1>3, <1>4

\* Two lists of words, one behind the other.
LEMMA WordsJoined ==
    ASSUME NEW m \in Nat, NEW n \in Nat, NEW s \in Words(m), NEW t \in Words(n)
    PROVE  /\ s \o t \in Words(m + n)
           /\ Placed(t, n, s \o t, m)
           /\ Kept(s, s \o t, m)
<1>1. s \in Seq(Int) /\ t \in Seq(Int) /\ Len(s) = m /\ Len(t) = n
  BY WordList
<1>2. /\ s \o t \in Seq(Int) /\ Len(s \o t) = m + n
      /\ \A i \in 1 .. m + n : (s \o t)[i] = IF i <= m THEN s[i] ELSE t[i - m]
  BY <1>1, ConcatProperties
<1> DEFINE u == s \o t
<1>3. u \in [1 .. m + n -> Int]
  BY <1>2, LenProperties
<1> HIDE DEF u
<1>4. \A i \in 1 .. m : u[i] = s[i]
  BY <1>2 DEF u
<1>5. \A i \in 1 .. n : u[m + i] = t[i]
  <2> TAKE i \in 1 .. n
  <2>1. m + i \in 1 .. m + n /\ ~(m + i <= m) /\ (m + i) - m = i
    OBVIOUS
  <2> QED BY <1>2, <2>1 DEF u
<1> QED BY <1>3, <1>4, <1>5, Zenon DEF u, Words, Placed, Kept

\* What follows the words of a list leaves them where they are.
LEMMA StayPlaced ==
    ASSUME NEW m \in Nat, NEW s, NEW t, Kept(s, t, m),
           NEW k \in Nat, NEW f \in Nat, f + k <= m, NEW u, Placed(u, k, s, f)
    PROVE  Placed(u, k, t, f)
<1>1. u \in Words(k) /\ \A i \in 1 .. k : s[f + i] = u[i]
  BY DEF Placed
<1>2. \A i \in 1 .. k : t[f + i] = u[i]
  <2> TAKE i \in 1 .. k
  <2>1. f + i \in 1 .. m
    OBVIOUS
  <2> QED BY <1>1, <2>1 DEF Kept
<1> QED BY <1>1, <1>2 DEF Placed

\* The words of a script command, in a buffer that is long enough.
LEMMA BufferHolds ==
    ASSUME NEW m \in Nat, m <= 26, NEW s \in Words(m)
    PROVE  Kept(s, ScriptWords(s), m)
<1>1. Len(s) = m
  BY WordList
<1> SUFFICES ASSUME NEW i \in 1 .. m
             PROVE  ScriptWords(s)[i] = s[i]
  BY DEF Kept
<1>3. i \in 1 .. 26 /\ i <= Len(s)
  BY <1>1
<1> QED BY <1>3 DEF ScriptWords, Buffer

\* A list of words is extended: the new ones stand behind the old ones.
LEMMA Extended ==
    ASSUME NEW m \in Nat, NEW n \in Nat, NEW k, k = m + n, NEW s \in Words(m), NEW t \in Words(n)
    PROVE  s \o t \in Words(k) /\ Placed(t, n, s \o t, m) /\ Kept(s, s \o t, m)
  BY WordsJoined

\* How the script takes a message of the script command port apart.
LEMMA CommandRead ==
    ASSUME NEW raw
    PROVE  /\ raw[1] = 0 => ScriptCommand(raw) = <<"zero_ftsensor">>
           /\ raw[1] = 1 => ScriptCommand(raw) = <<"set_payload", Real(raw[2]), Map(Real, SubSeq(raw, 3, 5))>>
           /\ raw[1] = 2 => ScriptCommand(raw) = <<"set_tool_voltage", Whole(raw[2])>>
           /\ raw[1] = 3 => ScriptCommand(raw) =
                <<"force_mode", Map(Real, SubSeq(raw, 2, 7)), Map(Whole, SubSeq(raw, 8, 13)),
                  Map(Real, SubSeq(raw, 14, 19)), raw[20], Map(Real, SubSeq(raw, 21, 26))>>
           /\ raw[1] = 4 => ScriptCommand(raw) = <<"end_force_mode">>
<1> DEFINE zero    == <<"zero_ftsensor">>
           payload == <<"set_payload", Real(raw[2]), Map(Real, SubSeq(raw, 3, 5))>>
           voltage == <<"set_tool_voltage", Whole(raw[2])>>
           force   == <<"force_mode", Map(Real, SubSeq(raw, 2, 7)), Map(Whole, SubSeq(raw, 8, 13)),
                        Map(Real, SubSeq(raw, 14, 19)), raw[20], Map(Real, SubSeq(raw, 21, 26))>>
           ended   == <<"end_force_mode">>
           first   == raw[1]
<1>1. ScriptCommand(raw) = CASE first = 0 -> zero [] first = 1 -> payload [] first = 2 -> voltage
                             [] first = 3 -> force [] first = 4 -> ended
  BY Zenon DEF ScriptCommand
<1> HIDE DEF zero, payload, voltage, force, ended, first
<1>2. /\ first = 0 => ScriptCommand(raw) = zero
      /\ first = 1 => ScriptCommand(raw) = payload
      /\ first = 2 => ScriptCommand(raw) = voltage
      /\ first = 3 => ScriptCommand(raw) = force
      /\ first = 4 => ScriptCommand(raw) = ended
  BY <1>1
<1> QED BY <1>2, Zenon DEF zero, payload, voltage, force, ended, first

\* setPayload: the script is told the mass, never a larger one, and the centre
\* of gravity.
LEMMA PayloadReaches ==
    ASSUME NEW mass \in Int, NEW cog \in Words(3)
    PROVE  \E heard : /\ ScriptCommand(SetPayload(mass, cog)) = <<"set_payload", Real(Truncated(mass)), heard>>
                     /\ AllNear(heard, cog, 1)
<1> DEFINE head == <<1, Truncated(mass)>>
           tail == Map(Truncated, cog)
           all  == head \o tail
           raw  == ScriptWords(all)
<1>1. head \in Words(2) /\ head[1] = 1 /\ head[2] = Truncated(mass)
  BY FixedPoint DEF Words
<1>2. tail \in Words(3)
  BY WordsOf
<1> HIDE DEF head, tail
<1>3. all \in Words(5) /\ Placed(tail, 3, all, 2) /\ Kept(head, all, 2)
  <2>1. 2 \in Nat /\ 3 \in Nat /\ 5 = 2 + 3
    OBVIOUS
  <2> QED BY <1>1, <1>2, <2>1, Extended, Zenon
<1> HIDE DEF all
<1>4. Kept(all, raw, 5)
  BY <1>3, BufferHolds
<1> HIDE DEF raw
<1>5. raw[1] = 1 /\ raw[2] = Truncated(mass)
  BY <1>1, <1>3, <1>4 DEF Kept
<1>6. Placed(tail, 3, raw, 2)
  BY <1>3, <1>4, StayPlaced
<1>8. SubSeq(raw, 3, 5) = tail
  <2>1. 2 \in Nat /\ 3 \in Nat /\ 3 > 0
    OBVIOUS
  <2>2. SubSeq(raw, 2 + 1, 2 + 3) = tail
    BY <1>6, <2>1, PartIs, Zenon
  <2> QED BY <2>2
<1>9. AllNear(Map(Real, tail), cog, 1)
  BY ReadAgain DEF tail
<1>10. ScriptCommand(raw) = <<"set_payload", Real(Truncated(mass)), Map(Real, tail)>>
  BY <1>5, <1>8, CommandRead, Zenon
<1>11. SetPayload(mass, cog) = raw
  BY Zenon DEF SetPayload, raw, all, head, tail
<1> QED BY <1>9, <1>10, <1>11, Zenon

\* setToolVoltage, zeroFTSensor and endForceMode.
LEMMA ShortCommandsReach ==
    ASSUME NEW k \in Int
    PROVE  /\ ScriptCommand(SetToolVoltage(k)) = <<"set_tool_voltage", k>>
           /\ ScriptCommand(ZeroFTSensor) = <<"zero_ftsensor">>
           /\ ScriptCommand(EndForceMode) = <<"end_force_mode">>
<1>1. \A w \in Int : <<w>> \in Words(1) /\ <<w>>[1] = w
  BY DEF Words
<1>2. ScriptWords(<<0>>)[1] = 0 /\ ScriptWords(<<4>>)[1] = 4
  BY <1>1, BufferHolds DEF Kept
<1>3. ScriptCommand(ZeroFTSensor) = <<"zero_ftsensor">>
  BY <1>2, CommandRead DEF ZeroFTSensor
<1>4. ScriptCommand(EndForceMode) = <<"end_force_mode">>
  BY <1>2, CommandRead DEF EndForceMode
<1>5. ScriptCommand(SetToolVoltage(k)) = <<"set_tool_voltage", k>>
  <2> DEFINE v == k * Ratio
             w == <<2, v>>
             raw == ScriptWords(w)
  <2>1. v \in Int /\ Whole(v) = k
    BY WholeAgain
  <2> HIDE DEF v
  <2>2. w \in Words(2) /\ w[1] = 2 /\ w[2] = v
    BY <2>1 DEF Words
  <2> HIDE DEF w
  <2>3. Kept(w, raw, 2)
    BY <2>2, BufferHolds
  <2> HIDE DEF raw
  <2>4. raw[1] = 2 /\ Whole(raw[2]) = k
    BY <2>1, <2>2, <2>3 DEF Kept
  <2>5. SetToolVoltage(k) = raw
    BY Zenon DEF SetToolVoltage, raw, w, v
  <2> QED BY <2>4, <2>5, CommandRead, Zenon
<1> QED BY <1>3, <1>4, <1>5

\* startForceMode: task frame, selection vector, wrench, mode and limits.
LEMMA ForceReaches ==
    ASSUME NEW frame \in Words(6), NEW selection \in Words(6), NEW wrench \in Words(6),
           NEW mode \in Int, NEW limits \in Words(6)
    PROVE  \E f, w, l :
             /\ ScriptCommand(StartForceMode(frame, selection, wrench, mode, limits))
                  = <<"force_mode", f, selection, w, mode, l>>
             /\ AllNear(f, frame, 1) /\ AllNear(w, wrench, 1) /\ AllNear(l, limits, 1)
<1> DEFINE a  == <<3>>
           f  == Map(Truncated, frame)
           s  == Scaled(selection)
           w  == Map(Truncated, wrench)
           m  == <<mode>>
           l  == Map(Truncated, limits)
           w1 == a \o f
           w2 == w1 \o s
           w3 == w2 \o w
           w4 == w3 \o m
           w5 == w4 \o l
           raw == ScriptWords(w5)
<1>1. a \in Words(1) /\ a[1] = 3 /\ m \in Words(1) /\ m[1] = mode
  BY DEF Words
<1>2. f \in Words(6) /\ s \in Words(6) /\ w \in Words(6) /\ l \in Words(6)
  BY WordsOf
<1>3. StartForceMode(frame, selection, wrench, mode, limits) = raw
  BY Zenon DEF StartForceMode, Scaled
<1> HIDE DEF a, f, s, w, m, l
<1>4. /\ w1 \in Words(7) /\ w1[1] = 3
      /\ Placed(f, 6, w1, 1)
  <2>1. 1 \in Nat /\ 6 \in Nat /\ 7 = 1 + 6
    OBVIOUS
  <2>2. w1 \in Words(7) /\ Placed(f, 6, w1, 1) /\ Kept(a, w1, 1)
    BY <1>1, <1>2, <2>1, Extended, Zenon
  <2> HIDE DEF w1
  <2>3. w1[1] = 3
    BY <1>1, <1>2, <2>2 DEF Kept
  <2> QED BY <2>2, <2>3
<1> HIDE DEF w1
<1>5. /\ w2 \in Words(13) /\ w2[1] = 3
      /\ Placed(f, 6, w2, 1) /\ Placed(s, 6, w2, 7)
  <2>1. 7 \in Nat /\ 6 \in Nat /\ 13 = 7 + 6
    OBVIOUS
  <2>2. w2 \in Words(13) /\ Placed(s, 6, w2, 7) /\ Kept(w1, w2, 7)
    BY <1>2, <1>4, <2>1, Extended, Zenon
  <2> HIDE DEF w2
  <2>3. w2[1] = 3
    BY <1>2, <1>4, <2>2 DEF Kept
  <2>4. Placed(f, 6, w2, 1)
    BY <1>4, <2>2, StayPlaced
  <2> QED BY <2>2, <2>3, <2>4
<1> HIDE DEF w2
<1>6. /\ w3 \in Words(19) /\ w3[1] = 3
      /\ Placed(f, 6, w3, 1) /\ Placed(s, 6, w3, 7) /\ Placed(w, 6, w3, 13)
  <2>1. 13 \in Nat /\ 6 \in Nat /\ 19 = 13 + 6
    OBVIOUS
  <2>2. w3 \in Words(19) /\ Placed(w, 6, w3, 13) /\ Kept(w2, w3, 13)
    BY <1>2, <1>5, <2>1, Extended, Zenon
  <2> HIDE DEF w3
  <2>3. w3[1] = 3
    BY <1>2, <1>5, <2>2 DEF Kept
  <2>4. Placed(f, 6, w3, 1) /\ Placed(s, 6, w3, 7)
    BY <1>5, <2>2, StayPlaced
  <2> QED BY <2>2, <2>3, <2>4
<1> HIDE DEF w3
<1>7. /\ w4 \in Words(20) /\ w4[1] = 3
      /\ Placed(f, 6, w4, 1) /\ Placed(s, 6, w4, 7) /\ Placed(w, 6, w4, 13) /\ Placed(m, 1, w4, 19)
  <2>1. 19 \in Nat /\ 1 \in Nat /\ 20 = 19 + 1
    OBVIOUS
  <2>2. w4 \in Words(20) /\ Placed(m, 1, w4, 19) /\ Kept(w3, w4, 19)
    BY <1>1, <1>6, <2>1, Extended, Zenon
  <2> HIDE DEF w4
  <2>3. w4[1] = 3
    BY <1>1, <1>6, <2>2 DEF Kept
  <2>4. Placed(f, 6, w4, 1) /\ Placed(s, 6, w4, 7) /\ Placed(w, 6, w4, 13)
    BY <1>6, <2>2, StayPlaced
  <2> QED BY <2>2, <2>3, <2>4
<1> HIDE DEF w4
<1>8. /\ w5 \in Words(26) /\ w5[1] = 3
      /\ Placed(f, 6, w5, 1) /\ Placed(s, 6, w5, 7) /\ Placed(w, 6, w5, 13) /\ Placed(m, 1, w5, 19) /\ Placed(l, 6, w5, 20)
  <2>1. 20 \in Nat /\ 6 \in Nat /\ 26 = 20 + 6
    OBVIOUS
  <2>2. w5 \in Words(26) /\ Placed(l, 6, w5, 20) /\ Kept(w4, w5, 20)
    BY <1>2, <1>7, <2>1, Extended, Zenon
  <2> HIDE DEF w5
  <2>3. w5[1] = 3
    BY <1>2, <1>7, <2>2 DEF Kept
  <2>4. Placed(f, 6, w5, 1) /\ Placed(s, 6, w5, 7) /\ Placed(w, 6, w5, 13) /\ Placed(m, 1, w5, 19)
    BY <1>7, <2>2, StayPlaced
  <2> QED BY <2>2, <2>3, <2>4
<1> HIDE DEF w5
<1>9. Kept(w5, raw, 26)
  BY <1>8, BufferHolds
<1> HIDE DEF raw
<1>10. raw[1] = 3 /\ raw[20] = mode
  <2>1. w5[19 + 1] = m[1]
    BY <1>8 DEF Placed
  <2> QED BY <1>1, <1>8, <1>9, <2>1 DEF Kept
<1>11. /\ Placed(f, 6, raw, 1) /\ Placed(s, 6, raw, 7) /\ Placed(w, 6, raw, 13)
       /\ Placed(l, 6, raw, 20)
  BY <1>8, <1>9, StayPlaced
<1>16. /\ SubSeq(raw, 2, 7) = f /\ SubSeq(raw, 8, 13) = s /\ SubSeq(raw, 14, 19) = w
       /\ SubSeq(raw, 21, 26) = l
  <2>1. SubSeq(raw, 2, 7) = f
    <3>1. 1 \in Nat /\ 6 \in Nat /\ 6 > 0
      OBVIOUS
    <3>2. Placed(f, 6, raw, 1)
      BY <1>11
    <3>3. SubSeq(raw, 1 + 1, 1 + 6) = f
      BY <3>1, <3>2, PartIs, Zenon
    <3> QED BY <3>3
  <2>2. SubSeq(raw, 8, 13) = s
    <3>1. 7 \in Nat /\ 6 \in Nat /\ 6 > 0
      OBVIOUS
    <3>2. Placed(s, 6, raw, 7)
      BY <1>11
    <3>3. SubSeq(raw, 7 + 1, 7 + 6) = s
      BY <3>1, <3>2, PartIs, Zenon
    <3> QED BY <3>3
  <2>3. SubSeq(raw, 14, 19) = w
    <3>1. 13 \in Nat /\ 6 \in Nat /\ 6 > 0
      OBVIOUS
    <3>2. Placed(w, 6, raw, 13)
      BY <1>11
    <3>3. SubSeq(raw, 13 + 1, 13 + 6) = w
      BY <3>1, <3>2, PartIs, Zenon
    <3> QED BY <3>3
  <2>4. SubSeq(raw, 21, 26) = l
    <3>1. 20 \in Nat /\ 6 \in Nat /\ 6 > 0
      OBVIOUS
    <3>2. Placed(l, 6, raw, 20)
      BY <1>11
    <3>3. SubSeq(raw, 20 + 1, 20 + 6) = l
      BY <3>1, <3>2, PartIs, Zenon
    <3> QED BY <3>3
  <2> QED BY <2>1, <2>2, <2>3, <2>4
<1>17. /\ AllNear(Map(Real, f), frame, 1) /\ AllNear(Map(Real, w), wrench, 1)
       /\ AllNear(Map(Real, l), limits, 1) /\ Map(Whole, s) = selection
  BY ReadAgain DEF f, s, w, l
<1>18. ScriptCommand(raw) = <<"force_mode", Map(Real, f), selection, Map(Real, w), mode, Map(Real, l)>>
  BY <1>10, <1>16, <1>17, CommandRead, Zenon
<1> QED BY <1>3, <1>17, <1>18, Zenon

\* writeJointCommand: the read timeout, the target and the control mode.
LEMMA JointsReach ==
    ASSUME NEW positions \in Words(6), NEW mode \in Int, NEW timeout \in Int
    PROVE  LET joints == ReverseCommand(WriteJointCommand(positions, mode, timeout))
           IN  joints.timeout = timeout /\ joints.mode = mode /\ AllNear(joints.target, positions, 1)
<1> DEFINE a   == <<timeout>>
           t   == Map(Rounded, positions)
           m   == <<mode>>
           w1  == a \o t
           raw == w1 \o m
<1>1. a \in Words(1) /\ a[1] = timeout /\ m \in Words(1) /\ m[1] = mode
  BY DEF Words
<1>2. t \in Words(6)
  BY WordsOf
<1>3. WriteJointCommand(positions, mode, timeout) = raw
  BY Zenon DEF WriteJointCommand
<1> HIDE DEF a, t, m
<1>4. w1 \in Words(7) /\ Placed(t, 6, w1, 1) /\ Kept(a, w1, 1)
  <2>1. 1 \in Nat /\ 6 \in Nat /\ 7 = 1 + 6
    OBVIOUS
  <2> QED BY <1>1, <1>2, <2>1, Extended, Zenon
<1> HIDE DEF w1
<1>5. raw \in Words(8) /\ Placed(m, 1, raw, 7) /\ Kept(w1, raw, 7)
  <2>1. 7 \in Nat /\ 1 \in Nat /\ 8 = 7 + 1
    OBVIOUS
  <2> QED BY <1>1, <1>4, <2>1, Extended, Zenon
<1> HIDE DEF raw
<1>6. raw[1] = timeout
  BY <1>1, <1>4, <1>5 DEF Kept
<1>7. raw[8] = mode
  <2>1. raw[7 + 1] = m[1]
    BY <1>5 DEF Placed
  <2> QED BY <1>1, <2>1
<1>8. SubSeq(raw, 2, 7) = t
  <2>1. 1 \in Nat /\ 6 \in Nat /\ 6 > 0
    OBVIOUS
  <2>2. Placed(t, 6, raw, 1)
    BY <1>4, <1>5, StayPlaced
  <2>3. SubSeq(raw, 1 + 1, 1 + 6) = t
    BY <2>1, <2>2, PartIs, Zenon
  <2> QED BY <2>3
<1>9. AllNear(Map(Real, t), positions, 1)
  BY ReadAgain DEF t
<1>10. ReverseCommand(raw) = [timeout |-> timeout, target |-> Map(Real, t), mode |-> mode]
  BY <1>6, <1>7, <1>8, Zenon DEF ReverseCommand
<1> DEFINE joints == ReverseCommand(raw)
<1>11. joints.timeout = timeout /\ joints.mode = mode /\ joints.target = Map(Real, t)
  BY <1>10
<1> QED BY <1>3, <1>9, <1>11, Zenon

\* The move the script makes is the one that was asked for.
IsMove(m, positions, time, radius, cartesian, last) ==
    /\ m.move = (IF cartesian THEN "movel" ELSE "movej")
    /\ AllNear(m.point, positions, 1)
    /\ m.r = (IF last THEN 0 ELSE Real(Rounded(radius)))
    /\ time > 0 => m.by = <<Real(Rounded(time))>>

\* writeTrajectoryPoint: the point, its blend radius and the kind of its move,
\* and the time of a point that has one.
LEMMA PointReaches ==
    ASSUME NEW positions \in Words(6), NEW time \in Int, NEW radius \in Int, NEW cartesian \in BOOLEAN,
           NEW speed \in Int, NEW acceleration \in Int, NEW last \in BOOLEAN
    PROVE  IsMove(TrajectoryMove(WritePoint(positions, time, radius, cartesian, speed, acceleration), last),
                  positions, time, radius, cartesian, last)
<1> DEFINE raw == WritePoint(positions, time, radius, cartesian, speed, acceleration)
           t   == Map(Rounded, positions)
<1>1. \A i \in 1 .. 6 : raw[i] = Rounded(positions[i])
  BY DEF WritePoint
<1>2. raw[19] = Rounded(time)
  BY DEF WritePoint
<1>3. raw[20] = Rounded(radius)
  BY DEF WritePoint
<1>4. raw[21] = IF cartesian THEN 1 ELSE 0
  BY DEF WritePoint
<1> HIDE DEF raw
<1>5. t \in Words(6) /\ t = [i \in 1 .. 6 |-> Rounded(positions[i])]
  BY WordsOf
<1>6. AllNear(Map(Real, t), positions, 1)
  BY ReadAgain
<1> HIDE DEF t
<1>7. SubSeq(raw, 1, 6) = t
  <2>1. 0 \in Nat /\ 6 \in Nat /\ 6 > 0
    OBVIOUS
  <2>2. Placed(t, 6, raw, 0)
    BY <1>1, <1>5 DEF Placed
  <2>3. SubSeq(raw, 0 + 1, 0 + 6) = t
    BY <2>1, <2>2, PartIs, Zenon
  <2> QED BY <2>3
<1> DEFINE by == CASE raw[19] > 0 -> <<Real(raw[19])>>
                   [] raw[19] <= 0 /\ raw[7] > 0 /\ raw[8] > 0 -> <<Real(raw[7]), Real(raw[8])>>
                   [] OTHER -> <<>>
           mv == IF raw[21] = 0 THEN "movej" ELSE "movel"
           r  == IF last THEN 0 ELSE Real(raw[20])
           m  == TrajectoryMove(raw, last)
<1>8. m = [move |-> mv, point |-> Map(Real, t), r |-> r, by |-> by]
  BY <1>7, Zenon DEF TrajectoryMove
<1>9. mv = IF cartesian THEN "movel" ELSE "movej"
  BY <1>4
<1>10. r = IF last THEN 0 ELSE Real(Rounded(radius))
  BY <1>3, Zenon
<1>11. time > 0 => by = <<Real(Rounded(time))>>
  <2> HAVE time > 0
  <2>1. Rounded(time) > 0 /\ Rounded(time) \in Int
    BY FixedPoint
  <2> DEFINE w    == raw[19]
             one  == <<Real(raw[19])>>
             two  == <<Real(raw[7]), Real(raw[8])>>
             fast == raw[7] > 0 /\ raw[8] > 0
             none == <<>>
  <2>2. by = CASE w > 0 -> one [] w <= 0 /\ fast -> two [] OTHER -> none
    OBVIOUS
  <2>3. w \in Int /\ w > 0
    BY <1>2, <2>1
  <2>4. one = <<Real(Rounded(time))>>
    BY <1>2, Zenon
  <2> HIDE DEF w, one, two, fast, none, by
  <2>5. by = one
    BY <2>2, <2>3
  <2> QED BY <2>4, <2>5
<1> HIDE DEF by, mv, r, m
<1>12. m.move = mv /\ m.point = Map(Real, t) /\ m.r = r /\ m.by = by
  BY <1>8
<1>13. /\ m.move = (IF cartesian THEN "movel" ELSE "movej")
       /\ AllNear(m.point, positions, 1)
       /\ m.r = (IF last THEN 0 ELSE Real(Rounded(radius)))
       /\ time > 0 => m.by = <<Real(Rounded(time))>>
  BY <1>6, <1>9, <1>10, <1>11, <1>12, Zenon
<1> QED BY <1>13, Zenon DEF m, raw, IsMove

\* Every parameter of a message of the driver reaches the script.
LEMMA MessagesReach ==
    ASSUME NEW n \in Int, NEW k \in Int, NEW cartesian \in BOOLEAN
    PROVE  WireLaws(n, k, cartesian)
<1> DEFINE cog     == <<n + 1, n + 2, n + 3>>
           payload == ScriptCommand(SetPayload(n, cog))
           force   == ScriptCommand(StartForceMode(Six(n), Six(k), Six(n + 6), k, Six(n + 12)))
           point   == WritePoint(Six(n), n + 8, n + 9, cartesian, n + 10, n + 11)
           joints  == ReverseCommand(WriteJointCommand(Six(n), k, k + 1))
           m       == TrajectoryMove(point, FALSE)
           e       == TrajectoryMove(point, TRUE)
<1>1. \A j \in Int : Six(j) \in Words(6)
  BY DEF Six, Words
<1>2. cog \in Words(3)
  BY DEF Words
<1>3. /\ n + 6 \in Int /\ n + 8 \in Int /\ n + 9 \in Int /\ n + 10 \in Int
      /\ n + 11 \in Int /\ n + 12 \in Int /\ k + 1 \in Int
  OBVIOUS
<1>4. /\ payload[1] = "set_payload" /\ Near(payload[2], n, 1)
      /\ AllNear(payload[3], cog, 1)
      /\ n >= 0 => payload[2] <= n
  <2> HIDE DEF cog
  <2>1. PICK heard : /\ payload = <<"set_payload", Real(Truncated(n)), heard>>
                    /\ AllNear(heard, cog, 1)
    BY <1>2, PayloadReaches
  <2> HIDE DEF payload
  <2> DEFINE mass == Real(Truncated(n))
  <2>2. Near(mass, n, 1) /\ (n >= 0 => mass <= n)
    BY FixedPoint
  <2> HIDE DEF mass
  <2>3. payload[1] = "set_payload" /\ payload[2] = mass /\ payload[3] = heard
    BY <2>1 DEF mass
  <2> QED BY <2>1, <2>2, <2>3, Zenon
<1>5. /\ force[1] = "force_mode" /\ force[3] = Six(k) /\ force[5] = k
      /\ AllNear(force[2], Six(n), 1) /\ AllNear(force[4], Six(n + 6), 1)
      /\ AllNear(force[6], Six(n + 12), 1)
  <2> DEFINE a == Six(n)
             b == Six(k)
             c == Six(n + 6)
             d == Six(n + 12)
  <2>1. a \in Words(6) /\ b \in Words(6) /\ c \in Words(6) /\ d \in Words(6)
    BY <1>1, <1>3
  <2> HIDE DEF a, b, c, d
  <2>2. \E f, w, l : /\ ScriptCommand(StartForceMode(a, b, c, k, d)) = <<"force_mode", f, b, w, k, l>>
                     /\ AllNear(f, a, 1) /\ AllNear(w, c, 1) /\ AllNear(l, d, 1)
    BY <2>1, ForceReaches
  <2>3. PICK f, w, l : /\ force = <<"force_mode", f, b, w, k, l>>
                       /\ AllNear(f, a, 1) /\ AllNear(w, c, 1) /\ AllNear(l, d, 1)
    BY <2>2, Zenon DEF a, b, c, d
  <2> HIDE DEF force
  <2>4. /\ force[1] = "force_mode" /\ force[2] = f /\ force[3] = b /\ force[4] = w
        /\ force[5] = k /\ force[6] = l
    BY <2>3
  <2> QED BY <2>3, <2>4, Zenon DEF a, b, c, d
<1> DEFINE s     == Six(n)
           time  == n + 8
           rad   == n + 9
           speed == n + 10
           acc   == n + 11
<1>a. s \in Words(6) /\ time \in Int /\ rad \in Int /\ speed \in Int /\ acc \in Int
  BY <1>1
<1> HIDE DEF s, time, rad, speed, acc
<1> DEFINE Move(l) == TrajectoryMove(WritePoint(s, time, rad, cartesian, speed, acc), l)
<1>b. ASSUME NEW l \in BOOLEAN
      PROVE  IsMove(Move(l), s, time, rad, cartesian, l)
  BY <1>a, PointReaches
<1>c. m = Move(FALSE) /\ e = Move(TRUE)
  BY Zenon DEF s, time, rad, speed, acc
<1> HIDE DEF m, e, Move
<1>6. /\ m.move = (IF cartesian THEN "movel" ELSE "movej")
      /\ AllNear(m.point, Six(n), 1) /\ Near(m.r, n + 9, 1)
      /\ n + 8 > 0 => AllNear(m.by, <<n + 8>>, 1)
  <2>1. /\ m.move = (IF cartesian THEN "movel" ELSE "movej")
        /\ AllNear(m.point, s, 1)
        /\ m.r = Real(Rounded(rad))
        /\ time > 0 => m.by = <<Real(Rounded(time))>>
    BY <1>b, <1>c DEF IsMove
  <2>3. Near(m.r, rad, 1)
    BY <1>a, <2>1, FixedPoint
  <2>4. AllNear(<<Real(Rounded(time))>>, <<time>>, 1)
    <3> DEFINE x == Real(Rounded(time))
               u == <<x>>
               v == <<time>>
    <3>1. Near(x, time, 1) /\ x \in Int
      BY <1>a, FixedPoint DEF Real
    <3> HIDE DEF x
    <3>2. u \in Words(1) /\ v \in Words(1) /\ u[1] = x /\ v[1] = time
      BY <1>a, <3>1 DEF Words
    <3> HIDE DEF u, v
    <3>3. \A i \in 1 .. 1 : Near(u[i], v[i], 1)
      BY <3>1, <3>2
    <3>4. AllNear(u, v, 1)
      BY <3>2, <3>3, ListsNear
    <3> QED BY <3>4 DEF u, v, x
  <2>5. time > 0 => AllNear(m.by, <<time>>, 1)
    BY <2>1, <2>4, Zenon
  <2> QED BY <2>1, <2>3, <2>5 DEF time, rad, s
<1>7. e.r = 0
  BY <1>b, <1>c DEF IsMove
<1>8. joints.timeout = k + 1 /\ joints.mode = k /\ AllNear(joints.target, Six(n), 1)
  BY <1>1, <1>3, JointsReach, Zenon
<1>9. /\ ScriptCommand(SetToolVoltage(k)) = <<"set_tool_voltage", k>>
      /\ ScriptCommand(ZeroFTSensor) = <<"zero_ftsensor">>
      /\ ScriptCommand(EndForceMode) = <<"end_force_mode">>
  BY ShortCommandsReach
<1> QED BY <1>4, <1>5, <1>6, <1>7, <1>8, <1>9, Zenon DEF WireLaws, m, e

---------------------------------------------------------------------------
(* Versions.                                                                *)

\* The cardinalities of the sets of edges of a version string's tokens.
LEMMA EdgeCounts ==
    /\ Cardinality({0}) = 1 /\ Cardinality({0, 2}) = 2 /\ Cardinality({0, 2, 4}) = 3
    /\ Cardinality({0, 2, 4, 6}) = 4 /\ Cardinality({2, 4, 6}) = 3
<1>1. ASSUME NEW S, IsFiniteSet(S), NEW n \in Nat, Cardinality(S) = n, NEW x, x \notin S
      PROVE  IsFiniteSet(S \cup {x}) /\ Cardinality(S \cup {x}) = n + 1
  BY <1>1, FS_AddElement
<1>2. IsFiniteSet({0}) /\ Cardinality({0}) = 1 /\ IsFiniteSet({2}) /\ Cardinality({2}) = 1
  BY FS_Singleton
<1>3. IsFiniteSet({0, 2}) /\ Cardinality({0, 2}) = 2
  <2>1. {0, 2} = {0} \cup {2} /\ 2 \notin {0}
    OBVIOUS
  <2> QED BY <1>1, <1>2, <2>1
<1>4. IsFiniteSet({0, 2, 4}) /\ Cardinality({0, 2, 4}) = 3
  <2>1. {0, 2, 4} = {0, 2} \cup {4} /\ 4 \notin {0, 2}
    OBVIOUS
  <2> QED BY <1>1, <1>3, <2>1
<1>5. Cardinality({0, 2, 4, 6}) = 4
  <2>1. {0, 2, 4, 6} = {0, 2, 4} \cup {6} /\ 6 \notin {0, 2, 4}
    OBVIOUS
  <2> QED BY <1>1, <1>4, <2>1
<1>6. IsFiniteSet({2, 4}) /\ Cardinality({2, 4}) = 2
  <2>1. {2, 4} = {2} \cup {4} /\ 4 \notin {2}
    OBVIOUS
  <2> QED BY <1>1, <1>2, <2>1
<1>7. Cardinality({2, 4, 6}) = 3
  <2>1. {2, 4, 6} = {2, 4} \cup {6} /\ 6 \notin {2, 4}
    OBVIOUS
  <2> QED BY <1>1, <1>6, <2>1
<1> QED BY <1>2, <1>3, <1>4, <1>5, <1>7

\* splitString takes the string of a version apart into its four numbers.
LEMMA VersionTokens ==
    ASSUME NEW v \in [1 .. 4 -> Nat]
    PROVE  SplitString(VersionString(v)) = [n \in 1 .. 4 |-> <<v[n]>>]
<1> DEFINE input   == VersionString(v)
           dots    == {i \in DOMAIN input : input[i] = Dot}
           edges   == {0, Len(input) + 1} \cup dots
           Edge(n) == CHOOSE i \in edges : Cardinality({e \in edges : e < i}) = n
<1>1. SplitString(input)
        = [n \in 1 .. Cardinality(dots) + 1 |-> SubSeq(input, Edge(n - 1) + 1, Edge(n) - 1)]
  BY Zenon DEF SplitString
<1>2. /\ input \in [1 .. 7 -> Int] /\ Len(input) = 7
      /\ input[1] = v[1] /\ input[2] = -1 /\ input[3] = v[2] /\ input[4] = -1
      /\ input[5] = v[3] /\ input[6] = -1 /\ input[7] = v[4]
  BY DEF VersionString, Dot
<1> HIDE DEF input
<1>3. dots = {2, 4, 6}
  <2>1. \A i \in 1 .. 4 : v[i] # -1
    OBVIOUS
  <2>2. \A i \in 1 .. 7 : i \in {1, 2, 3, 4, 5, 6, 7}
    OBVIOUS
  <2>3. \A i \in 1 .. 7 : input[i] = -1 <=> i \in {2, 4, 6}
    BY <1>2, <2>1, <2>2
  <2>4. DOMAIN input = 1 .. 7
    BY <1>2
  <2>5. {2, 4, 6} \subseteq 1 .. 7
    OBVIOUS
  <2> QED BY <2>3, <2>4, <2>5 DEF Dot
<1> HIDE DEF dots
<1>4. edges = {0, 2, 4, 6, 8}
  BY <1>2, <1>3
<1> HIDE DEF edges
<1>5. Cardinality(dots) = 3
  BY <1>3, EdgeCounts
<1> DEFINE Lower(i) == {e \in edges : e < i}
<1>6. /\ Cardinality(Lower(0)) = 0 /\ Cardinality(Lower(2)) = 1 /\ Cardinality(Lower(4)) = 2
      /\ Cardinality(Lower(6)) = 3 /\ Cardinality(Lower(8)) = 4
  <2>1. Lower(0) = {}
    BY <1>4
  <2>2. Lower(2) = {0}
    BY <1>4
  <2>3. Lower(4) = {0, 2}
    BY <1>4
  <2>4. Lower(6) = {0, 2, 4}
    BY <1>4
  <2>5. Lower(8) = {0, 2, 4, 6}
    BY <1>4
  <2> QED BY <2>1, <2>2, <2>3, <2>4, <2>5, EdgeCounts, FS_EmptySet
<1>7. Edge(0) = 0 /\ Edge(1) = 2 /\ Edge(2) = 4 /\ Edge(3) = 6 /\ Edge(4) = 8
  <2> HIDE DEF Lower
  <2>1. \A n : Edge(n) = CHOOSE i \in edges : Cardinality(Lower(i)) = n
    BY DEF Lower
  <2> DEFINE C(i) == Cardinality(Lower(i))
  <2>2. \A i \in edges : C(i) \in Int /\ 2 * C(i) = i
    BY <1>4, <1>6
  <2> HIDE DEF C
  <2>3. ASSUME NEW n \in Int, 2 * n \in edges
        PROVE  (CHOOSE i \in edges : C(i) = n) = 2 * n
    <3>1. \A i \in edges : C(i) = n <=> i = 2 * n
      BY <2>2
    <3> QED BY <2>3, <3>1
  <2>4. \A n : Edge(n) = CHOOSE i \in edges : C(i) = n
    BY <2>1 DEF C
  <2> HIDE DEF Edge
  <2>5. ASSUME NEW n \in Int, 2 * n \in edges
        PROVE  Edge(n) = 2 * n
    BY <2>3, <2>4, <2>5, Zenon
  <2>6. Edge(0) = 0
    <3>1. 0 \in Int /\ 2 * 0 = 0 /\ 2 * 0 \in edges
      BY <1>4
    <3> QED BY <2>5, <3>1, Zenon
  <2>7. Edge(1) = 2
    <3>1. 1 \in Int /\ 2 * 1 = 2 /\ 2 * 1 \in edges
      BY <1>4
    <3> QED BY <2>5, <3>1, Zenon
  <2>8. Edge(2) = 4
    <3>1. 2 \in Int /\ 2 * 2 = 4 /\ 2 * 2 \in edges
      BY <1>4
    <3> QED BY <2>5, <3>1, Zenon
  <2>9. Edge(3) = 6
    <3>1. 3 \in Int /\ 2 * 3 = 6 /\ 2 * 3 \in edges
      BY <1>4
    <3> QED BY <2>5, <3>1, Zenon
  <2>10. Edge(4) = 8
    <3>1. 4 \in Int /\ 2 * 4 = 8 /\ 2 * 4 \in edges
      BY <1>4
    <3> QED BY <2>5, <3>1, Zenon
  <2> QED BY <2>6, <2>7, <2>8, <2>9, <2>10
<1> HIDE DEF Edge
<1>8. \A n \in 1 .. 4 : SubSeq(input, Edge(n - 1) + 1, Edge(n) - 1) = <<v[n]>>
  <2>1. ASSUME NEW j \in 1 .. 7
        PROVE  SubSeq(input, j, j) = <<input[j]>>
    <3>1. /\ SubSeq(input, j, j) \in Seq(Int)
          /\ Len(SubSeq(input, j, j)) = 1
          /\ SubSeq(input, j, j)[1] = input[j]
      <4>1. \A i \in j .. j : input[i] \in Int
        BY <1>2
      <4>2. /\ SubSeq(input, j, j) \in Seq(Int)
            /\ Len(SubSeq(input, j, j)) = IF j <= j THEN j - j + 1 ELSE 0
            /\ \A i \in 1 .. j - j + 1 : SubSeq(input, j, j)[i] = input[j + i - 1]
        BY <4>1, SubSeqProperties
      <4> QED BY <4>2
    <3> DEFINE s == SubSeq(input, j, j)
               t == <<input[j]>>
    <3>2. s \in [1 .. 1 -> Int]
      BY <3>1, LenProperties
    <3>3. t \in [1 .. 1 -> Int] /\ t[1] = input[j]
      BY <1>2
    <3>4. s[1] = t[1]
      BY <3>1, <3>3
    <3> HIDE DEF s, t
    <3>5. s = t
      BY <3>2, <3>3, <3>4
    <3> QED BY <3>5 DEF s, t
  <2>2. SubSeq(input, Edge(0) + 1, Edge(1) - 1) = <<v[1]>>
    <3>1. SubSeq(input, 1, 1) = <<v[1]>>
      BY <1>2, <2>1
    <3> QED BY <1>7, <3>1
  <2>3. SubSeq(input, Edge(1) + 1, Edge(2) - 1) = <<v[2]>>
    <3>1. SubSeq(input, 3, 3) = <<v[2]>>
      BY <1>2, <2>1
    <3> QED BY <1>7, <3>1
  <2>4. SubSeq(input, Edge(2) + 1, Edge(3) - 1) = <<v[3]>>
    <3>1. SubSeq(input, 5, 5) = <<v[3]>>
      BY <1>2, <2>1
    <3> QED BY <1>7, <3>1
  <2>5. SubSeq(input, Edge(3) + 1, Edge(4) - 1) = <<v[4]>>
    <3>1. SubSeq(input, 7, 7) = <<v[4]>>
      BY <1>2, <2>1
    <3> QED BY <1>7, <3>1
  <2> TAKE n \in 1 .. 4
  <2>6. n = 1 \/ n = 2 \/ n = 3 \/ n = 4
    OBVIOUS
  <2> QED BY <2>2, <2>3, <2>4, <2>5, <2>6
<1>9. 1 .. Cardinality(dots) + 1 = 1 .. 4
  BY <1>5
<1>10. SplitString(input) = [n \in 1 .. 4 |-> <<v[n]>>]
  BY <1>1, <1>8, <1>9
<1> QED BY <1>10 DEF input

\* A version survives toString and fromString.
LEMMA VersionSurvives ==
    ASSUME NEW v \in [1 .. 4 -> Nat]
    PROVE  FromString(VersionString(v)) = v
<1> DEFINE str == VersionString(v)
           c   == SplitString(str)
<1>1. c = [n \in 1 .. 4 |-> <<v[n]>>]
  BY VersionTokens
<1> DEFINE read   == CASE Len(c) \in 3 .. 4 -> Len(c) [] OTHER -> 2
           broken == Len(c) < 2 \/ \E i \in 1 .. read : c[i] = <<>>
           parsed  == [i \in 1 .. 4 |-> IF i <= read THEN c[i][1] ELSE 0]
<1>2. FromString(str) = IF broken THEN Throws ELSE parsed
  BY Zenon DEF FromString
<1> HIDE DEF str, c
<1>3. Len(c) = 4
  BY <1>1
<1>4. read = 4
  BY <1>3
<1> HIDE DEF read
<1>5. \A i \in 1 .. 4 : c[i] # <<>> /\ c[i][1] = v[i]
  BY <1>1
<1>6. ~broken
  BY <1>3, <1>4, <1>5
<1>7. parsed = v
  <2>1. parsed = [i \in 1 .. 4 |-> v[i]]
    BY <1>4, <1>5
  <2> QED BY <2>1
<1> HIDE DEF broken, parsed
<1> QED BY <1>2, <1>6, <1>7 DEF str

\* The comparisons and conversions of versions.
LEMMA VersionsCompare ==
    ASSUME NEW v \in [1 .. 4 -> Nat], NEW w \in [1 .. 4 -> Nat], NEW x \in [1 .. 4 -> Nat]
    PROVE  VersionLaws(v, w, x)
<1>1. FromString(VersionString(v)) = v
  BY VersionSurvives
<1>2. Constructed(VersionString(v)) = v <=> v = <<0, 0, 0, 0>>
  <2>1. v # Throws
    <3>1. DOMAIN v = 1 .. 4 /\ DOMAIN Throws = 1 .. 0
      BY DEF Throws
    <3>2. 1 .. 4 # 1 .. 0
      OBVIOUS
    <3> QED BY <3>1, <3>2, Zenon
  <2>2. Constructed(VersionString(v)) = <<0, 0, 0, 0>>
    BY <1>1, <2>1, Zenon DEF Constructed
  <2> QED BY <2>2, Zenon
<1>3. Greater(v, w) => Newer(v, w) /\ ~Greater(w, v)
  <2> HAVE Greater(v, w)
  <2>1. v[1] > w[1]
    BY DEF Greater
  <2>2. Newer(v, w)
    <3>1. 1 \in 1 .. 4 /\ \A j \in 1 .. 1 - 1 : v[j] = w[j]
      OBVIOUS
    <3> QED BY <2>1, <3>1 DEF Newer
  <2> QED BY <2>1, <2>2 DEF Greater
<1>4. Greater(v, w) /\ Greater(w, x) => Greater(v, x)
  BY DEF Greater
<1>5. ~Less(v, w) => ~Newer(w, v)
  <2> SUFFICES ASSUME Equal(v, w) \/ Greater(v, w), Newer(w, v) PROVE FALSE
    BY DEF Less, GreaterOrEqual
  <2>1. PICK i \in 1 .. 4 : w[i] > v[i] /\ \A j \in 1 .. i - 1 : w[j] = v[j]
    BY DEF Newer
  <2>2. CASE Equal(v, w)
    BY <2>1, <2>2 DEF Equal
  <2>3. CASE Greater(v, w)
    <3>1. v[1] > w[1]
      BY <2>3 DEF Greater
    <3>2. CASE i = 1
      BY <2>1, <3>1, <3>2
    <3>3. CASE i # 1
      <4>1. 1 \in 1 .. i - 1
        BY <3>3
      <4>2. w[1] = v[1]
        BY <2>1, <4>1
      <4> QED BY <3>1, <4>2
    <3> QED BY <3>2, <3>3
  <2> QED BY <2>2, <2>3
<1>6. LessOrEqual(v, w) \/ GreaterOrEqual(v, w)
  BY DEF LessOrEqual, Less
<1>7. NotEqual(v, w) => Less(v, w) \/ Less(w, v)
  BY DEF NotEqual, Equal, Less, GreaterOrEqual, Greater
<1> QED BY <1>1, <1>2, <1>3, <1>4, <1>5, <1>6, <1>7 DEF VersionLaws

---------------------------------------------------------------------------
(* The conversions as a specification.                                      *)

\* The behaviours of Conversions.
ConversionsSpec == ConversionsInit /\ [][ConversionsNext]_pick

\* The arguments are always of the sets they are taken from.
LEMMA PicksOnly == ConversionsSpec => [](pick = NoPick \/ pick \in Picks)
<1>1. ConversionsInit => (pick = NoPick \/ pick \in Picks)
  BY DEF ConversionsInit
<1>2. (pick = NoPick \/ pick \in Picks) /\ [ConversionsNext]_pick => (pick = NoPick \/ pick \in Picks)'
  BY DEF ConversionsNext, NoPick, Picks
<1> QED BY <1>1, <1>2, PTL DEF ConversionsSpec

\* Poses obey the laws of rigid motions in both plugins, for all poses whose lengths are
\* doubles and whose angles are quarter turns; the plugins differ exactly in the vectors
\* whose translation overflows when Eigen sums it up (EigenPoseAlgebra.cpp:86).
THEOREM PosesObeyLaws == ConversionsSpec => []PoseLaws
<1>1. pick = NoPick \/ pick \in Picks => PoseLaws
  <2>1. CASE pick = NoPick
    BY <2>1 DEF NoPick, PoseLaws
  <2>2. CASE pick \in [kind : {"pose"}, a : Poses, b : OtherPoses]
    <3> DEFINE a == pick.a
               b == pick.b
    <3>1. a \in Poses /\ b \in OtherPoses /\ pick.kind = "pose"
      BY <2>2
    <3>2. a \in [1 .. 6 -> Doubles]
      BY <3>1, PosesAssumption
    <3>3. a \in PoseVectors
      BY <3>2 DEF PoseVectors
    <3>4. Elite!VectorFinite(a)
      BY <3>2, IntsInDoubles, NonFiniteAssumption DEF Elite!VectorFinite
    <3>5. b \in PoseVectors
      <4>1. b \in [1 .. 6 -> Doubles \cup {NonFinite}] /\ \A i \in 4 .. 6 : b[i] \in Doubles
        BY <3>1, OtherPosesAssumption
      <4> QED BY <4>1 DEF PoseVectors
    <3>6. VectorFinite(b) => Elite!VectorFinite(b)
      BY DEF VectorFinite, Elite!VectorFinite
    <3> HIDE DEF a, b
    <3>7. VectorFinite(b) => GroupLaws(a, b)
      BY <3>3, <3>4, <3>5, <3>6, GroupLawsHold
    <3>8. PluginsAgree(a, b) /\ PluginsAgree(b, a)
      BY <3>3, <3>5, Agreement
    <3> QED BY <3>1, <3>7, <3>8 DEF PoseLaws, a, b
  <2>3. CASE pick \in [kind : {"matrix"}, m : NoPoses]
    <3>1. pick.m \in NoPoses /\ pick.kind = "matrix"
      BY <2>3
    <3>2. Refused(pick.m)
      BY <3>1, NoPosesAssumption, Refusal
    <3> QED BY <3>1, <3>2 DEF PoseLaws
  <2>4. CASE pick \in [kind : {"version"}, v : Versions, w : Versions, x : Versions]
    BY <2>4 DEF PoseLaws
  <2>5. CASE pick \in [kind : {"wire"}, n : Numbers, k : Counts, cartesian : BOOLEAN]
    BY <2>5 DEF PoseLaws
  <2> QED BY <2>1, <2>2, <2>3, <2>4, <2>5 DEF Picks
<1> QED BY <1>1, PicksOnly, PTL

\* Versions compare and convert as far as their operators can be relied on, and every
\* parameter of a message of the driver reaches the script, for all versions, real
\* numbers and integers.
THEOREM ConversionsKeepValues == ConversionsSpec => []ValuesConvert
<1>1. pick = NoPick \/ pick \in Picks => ValuesConvert
  <2>1. CASE pick = NoPick
    BY <2>1 DEF NoPick, ValuesConvert
  <2>2. CASE pick \in [kind : {"pose"}, a : Poses, b : OtherPoses]
    BY <2>2 DEF ValuesConvert
  <2>3. CASE pick \in [kind : {"matrix"}, m : NoPoses]
    BY <2>3 DEF ValuesConvert
  <2>4. CASE pick \in [kind : {"version"}, v : Versions, w : Versions, x : Versions]
    <3>1. pick.v \in Versions /\ pick.w \in Versions /\ pick.x \in Versions /\ pick.kind = "version"
      BY <2>4
    <3>2. VersionLaws(pick.v, pick.w, pick.x)
      BY <3>1, VersionsAssumption, VersionsCompare
    <3> QED BY <3>1, <3>2 DEF ValuesConvert
  <2>5. CASE pick \in [kind : {"wire"}, n : Numbers, k : Counts, cartesian : BOOLEAN]
    <3>1. pick.n \in Numbers /\ pick.k \in Counts /\ pick.cartesian \in BOOLEAN /\ pick.kind = "wire"
      BY <2>5
    <3>2. WireLaws(pick.n, pick.k, pick.cartesian)
      BY <3>1, WireAssumption, MessagesReach
    <3> QED BY <3>1, <3>2 DEF ValuesConvert
  <2> QED BY <2>1, <2>2, <2>3, <2>4, <2>5 DEF Picks
<1> QED BY <1>1, PicksOnly, PTL
=============================================================================
