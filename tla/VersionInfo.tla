---------------------------- MODULE VersionInfo ----------------------------
(***************************************************************************)
(* VersionInfo.cpp: a version is <<major, minor, bugfix, build>>.  A version *)
(* string is a sequence of numbers and Dots, as StringUtils::splitString     *)
(* and std::stoi see it.                                                    *)
(***************************************************************************)
EXTENDS Integers, Sequences, FiniteSets

Dot == -1

\* splitString: the tokens between the dots, each a sequence of numbers that is
\* empty where two dots meet.  The edges of the tokens are the dots and the two
\* ends of the string, and edge n has n edges before it.
SplitString(input) ==
    LET dots    == {i \in DOMAIN input : input[i] = Dot}
        edges   == {0, Len(input) + 1} \cup dots
        Edge(n) == CHOOSE i \in edges : Cardinality({e \in edges : e < i}) = n
    IN  [n \in 1 .. Cardinality(dots) + 1 |-> SubSeq(input, Edge(n - 1) + 1, Edge(n) - 1)]

VersionString(v) == <<v[1], Dot, v[2], Dot, v[3], Dot, v[4]>>

\* fromString: fewer than two components, or one that is no number, throw; of
\* more than four only the first two are read.
Throws == <<>>

FromString(str) ==
    LET c    == SplitString(str)
        read == CASE Len(c) \in 3 .. 4 -> Len(c) [] OTHER -> 2
    IN  IF Len(c) < 2 \/ \E i \in 1 .. read : c[i] = <<>>
        THEN Throws
        ELSE [i \in 1 .. 4 |-> IF i <= read THEN c[i][1] ELSE 0]

\* The constructor from a string drops what fromString returns.
Constructed(str) == IF FromString(str) = Throws THEN Throws ELSE <<0, 0, 0, 0>>

Equal(v, w) == v = w

NotEqual(v, w) == ~Equal(v, w)

Greater(v, w) == v[1] > w[1] /\ v[2] > w[2]

GreaterOrEqual(v, w) == Equal(v, w) \/ Greater(v, w)

Less(v, w) == ~GreaterOrEqual(v, w)

LessOrEqual(v, w) == Equal(v, w) \/ Less(v, w)

---------------------------------------------------------------------------

\* v was released after w.
Newer(v, w) ==
    \E i \in 1 .. 4 : v[i] > w[i] /\ \A j \in 1 .. i - 1 : v[j] = w[j]

\* What the comparisons of VersionInfo.cpp:44-75 can be relied on for: > is an
\* order that only holds of newer versions, and what is not < is not older.  The
\* converses fail: 2.14 is not > 2.13, and each of the two is < the other.  A
\* version survives toString and fromString, but not the constructor.
VersionLaws(v, w, x) ==
    /\ FromString(VersionString(v)) = v
    /\ Constructed(VersionString(v)) = v <=> v = <<0, 0, 0, 0>>
    /\ Greater(v, w) => Newer(v, w) /\ ~Greater(w, v)
    /\ Greater(v, w) /\ Greater(w, x) => Greater(v, x)
    /\ ~Less(v, w) => ~Newer(w, v)
    /\ LessOrEqual(v, w) \/ GreaterOrEqual(v, w)
    /\ NotEqual(v, w) => Less(v, w) \/ Less(w, v)
=============================================================================
