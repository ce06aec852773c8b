---------------------------- MODULE PoseAlgebra ----------------------------
(***************************************************************************)
(* What a program that loads one of the two pose algebra plugins relies on,  *)
(* whichever of them it is.                                                 *)
(***************************************************************************)
EXTENDS PoseAlgebraBase

CONSTANT SumPair    \* the order in which Eigen's sum adds three numbers

ASSUME SumPairAssumption == SumPair \in {2, 3}

Elite == INSTANCE ElitePoseAlgebra

Eigen == INSTANCE EigenPoseAlgebra

\* Both plugins fail for the same reason or return the same value; a vector is
\* compared by the matrix it stands for, as at the gimbal lock there are many.
Same(r, s) == r.error = s.error /\ (Ok(r) => r.out = s.out)

SamePose(r, s) ==
    r.error = s.error /\ (Ok(r) => Elite!VectorToMatrix(r.out) = Elite!VectorToMatrix(s.out))

\* The laws of poses a and b, given as vectors of finite numbers (all methods of
\* ElitePoseAlgebra.cpp and EigenPoseAlgebra.cpp): a vector survives the way
\* through a matrix and back, at the gimbal lock too; the overloads on vectors
\* compute what the ones on matrices compute; inverse, product and the changes of
\* frame undo each other unless a length overflows; distance is symmetric, and 0
\* only between a pose and itself.
GroupLaws(a, b) ==
    LET A     == Elite!VectorToMatrix(a).out
        B     == Elite!VectorToMatrix(b).out
        inv   == Elite!Inverse(A)
        local == Elite!WorldToLocal(A, B)
        dist  == Elite!Distance(A, B)
    IN  /\ Elite!VectorToMatrix(Elite!MatrixToVector(A).out).out = A
        /\ Ok(inv) /\ Elite!Multiply(A, inv.out).out = Identity /\ Elite!Inverse(inv.out).out = A
        /\ SamePose(Elite!InverseV(a), Then(inv, Elite!MatrixToVector))
        /\ Ok(Elite!MultiplyV(a, b)) =>
             SamePose(Elite!MultiplyV(a, b), Then(Elite!Multiply(A, B), Elite!MatrixToVector))
        /\ Ok(local) => Elite!LocalToWorld(A, local.out).out = B
        /\ Ok(Elite!AddV(a, b)) => Elite!SubtractV(Elite!AddV(a, b).out, b).out = a
        /\ Ok(Elite!Add(A, B)) => Elite!Subtract(Elite!Add(A, B).out, B).out = A
        /\ dist = Elite!Distance(B, A) /\ dist = Elite!DistanceV(a, b)
        /\ Ok(dist) => (dist.out = [linear |-> 0, angular |-> 2] <=> A = B)

\* A finite translation whose entries sum up to no number.
Unsummable(v) == VectorFinite(v) /\ Eigen!EntriesSum(v) = NonFinite

\* Of two vectors the first has to be summed up before the second.
Overflows(a, b) == Unsummable(a) \/ (VectorFinite(a) /\ Unsummable(b))

\* The two plugins agree on every operation on matrices and on sums of vectors, the
\* error included.  On a vector they agree unless its translation overflows when it is
\* summed up: Elite takes it, Eigen answers NUMERICAL_ERROR (EigenPoseAlgebra.cpp:86).
PluginsAgree(a, b) ==
    LET A == Elite!ToMatrix(a)
        B == Elite!ToMatrix(b)
    IN  /\ SamePose(Elite!MatrixToVector(A), Eigen!MatrixToVector(A))
        /\ Same(Elite!Inverse(A), Eigen!Inverse(A))
        /\ Same(Elite!Multiply(A, B), Eigen!Multiply(A, B))
        /\ Same(Elite!Add(A, B), Eigen!Add(A, B)) /\ Same(Elite!AddV(a, b), Eigen!AddV(a, b))
        /\ Same(Elite!Subtract(A, B), Eigen!Subtract(A, B))
        /\ Same(Elite!SubtractV(a, b), Eigen!SubtractV(a, b))
        /\ Same(Elite!Distance(A, B), Eigen!Distance(A, B))
        /\ Same(Elite!WorldToLocal(A, B), Eigen!WorldToLocal(A, B))
        /\ Same(Elite!LocalToWorld(A, B), Eigen!LocalToWorld(A, B))
        /\ IF Unsummable(a)
           THEN /\ Ok(Elite!VectorToMatrix(a)) /\ Ok(Elite!InverseV(a))
                /\ \A r \in {Eigen!VectorToMatrix(a), Eigen!InverseV(a)} : r.error = "NUMERICAL_ERROR"
           ELSE /\ Same(Elite!VectorToMatrix(a), Eigen!VectorToMatrix(a))
                /\ SamePose(Elite!InverseV(a), Eigen!InverseV(a))
        /\ IF Overflows(a, b)
           THEN \A r \in {Eigen!MultiplyV(a, b), Eigen!DistanceV(a, b),
                          Eigen!WorldToLocalV(a, b), Eigen!LocalToWorldV(a, b)} :
                  r.error = "NUMERICAL_ERROR"
           ELSE /\ SamePose(Elite!MultiplyV(a, b), Eigen!MultiplyV(a, b))
                /\ Same(Elite!DistanceV(a, b), Eigen!DistanceV(a, b))
                /\ SamePose(Elite!WorldToLocalV(a, b), Eigen!WorldToLocalV(a, b))
                /\ SamePose(Elite!LocalToWorldV(a, b), Eigen!LocalToWorldV(a, b))

\* Matrices that are no poses are refused by both plugins alike, on either side.
Refused(m) ==
    /\ ~Ok(Elite!Inverse(m)) /\ Same(Elite!Inverse(m), Eigen!Inverse(m))
    /\ Same(Elite!Multiply(Identity, m), Eigen!Multiply(Identity, m))
    /\ Same(Elite!Multiply(m, Identity), Eigen!Multiply(m, Identity))
    /\ Elite!MatrixToVector(m).error = Elite!Inverse(m).error
    /\ Elite!MatrixToVector(m).error = Eigen!MatrixToVector(m).error
    /\ Elite!Inverse(m).error # "SINGULAR_MATRIX"
=============================================================================
