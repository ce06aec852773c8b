-------------------------- MODULE EigenPoseAlgebra --------------------------
(***************************************************************************)
(* The plugin EigenPoseAlgebra.cpp, which converts to Eigen's matrices and  *)
(* isometries and back.  A 4x4 Eigen matrix and a PoseMatrix are the same   *)
(* value here, as toEigenMatrix and toPoseMatrix copy entry by entry.       *)
(***************************************************************************)
EXTENDS PoseAlgebraBase

CONSTANT SumPair    \* the entry of the translation that a sum adds to the first one first

(* Eigen: products, rotations about one axis, the inverse of an isometry,   *)
(* and eulerAngles(2, 1, 0), which keeps the first angle in 0 .. 180        *)
(* degrees and then takes the pitch beyond 90 degrees.                      *)

EigenProduct(l, r) == Matrix(LAMBDA i, j : Times(l, r, i, j))

AngleAxis(q, axis) ==
    Matrix(LAMBDA i, j :
        IF {i, j} \cap {axis, 4} # {} THEN Identity[i][j]
        ELSE IF i = j THEN Cos(q)
        ELSE IF (j - i) % 3 = 1 THEN -Sin(q) ELSE Sin(q))

IsometryInverse(m) ==
    Matrix(LAMBDA i, j : IF i = 4 THEN Identity[i][j]
                          ELSE IF j = 4 THEN -ColumnDot(m, i, m, 4)
                          ELSE m[j][i])

EulerAngles210(m) ==
    LET first == Atan2(m[2][1], m[1][1])
        cosY  == Norm2(m[3][3], m[3][2])
        z     == IF first < 0 THEN first + 2 ELSE first
        y     == Atan2(-m[3][1], IF first < 0 THEN -cosY ELSE cosY)
        x     == Atan2(Sin(z) * m[1][3] - Cos(z) * m[2][3], Cos(z) * m[2][2] - Sin(z) * m[1][2])
    IN  <<z, y, x>>

---------------------------------------------------------------------------

ValidateRotation(m) ==
    IF \E i, j \in Axes : ColumnDot(m, i, m, j) # Identity[i][j] THEN "INVALID_ROTATION_MATRIX"
    ELSE IF Determinant3x3(m) = 0 THEN "SINGULAR_MATRIX"
    ELSE IF Determinant3x3(m) # 1 THEN "INVALID_ROTATION_MATRIX"
    ELSE "SUCCESS"

Valid(m) ==
    Failure(IF ~MatrixFinite(m) \/ m[4] # <<0, 0, 0, 1>> THEN "INVALID_INPUT" ELSE ValidateRotation(m), m)

\* The sum of all entries, of which those of the rotation are too small to matter.
\* The order is the compiler's: the third entry with the first when Eigen adds
\* packets, the second without.
EntriesSum(v) == Plus(Plus(v[1], v[SumPair]), v[5 - SumPair])

IsometryOf(v) ==
    LET R == EigenProduct(AngleAxis(v[6], 3), EigenProduct(AngleAxis(v[5], 2), AngleAxis(v[4], 1)))
    IN  Matrix(LAMBDA i, j : IF i # 4 /\ j = 4 THEN v[i] ELSE R[i][j])

VectorToIsometry(v) ==
    IF ~VectorFinite(v) THEN Failure("INVALID_INPUT", <<>>)
    ELSE IF EntriesSum(v) = NonFinite THEN Failure("NUMERICAL_ERROR", <<>>)
    ELSE Success(IsometryOf(v))

ToVector(m) ==
    LET zyx == EulerAngles210(m) IN <<m[1][4], m[2][4], m[3][4], zyx[3], zyx[2], zyx[1]>>

ComputeDistance(a, b) ==
    LET d == [i \in Axes |-> Minus(a[i][4], b[i][4])]
        R == [i \in Axes |-> ColumnDot(a, i, b, i)]
    IN  [linear  |-> IF VectorFinite(d) THEN Double(d[1] * d[1] + d[2] * d[2] + d[3] * d[3]) ELSE NonFinite,
         angular |-> Clamp(R[1] + R[2] + R[3] - 1, -2, 2)]

FiniteM(m) == Failure(IF MatrixFinite(m) THEN "SUCCESS" ELSE "INVALID_INPUT", m)

FiniteV(v) == Failure(IF VectorFinite(v) THEN "SUCCESS" ELSE "INVALID_INPUT", v)

Inverse(m) == Then(Valid(m), LAMBDA x : Valid(IsometryInverse(x)))

InverseV(v) ==
    Then(VectorToIsometry(v), LAMBDA x :
        LET out == ToVector(IsometryInverse(x)) IN Examined(VectorFinite(out), out))

Multiply(l, r) ==
    Then(Valid(l), LAMBDA x : Then(Valid(r), LAMBDA y : Valid(EigenProduct(x, y))))

MultiplyV(l, r) ==
    Then(VectorToIsometry(l), LAMBDA x : Then(VectorToIsometry(r), LAMBDA y :
        LET out == ToVector(EigenProduct(x, y)) IN Examined(VectorFinite(out), out)))

Add(l, r) ==
    Then(FiniteM(l), LAMBDA x : Then(FiniteM(r), LAMBDA y :
        LET out == Matrix(LAMBDA i, j : Plus(x[i][j], y[i][j])) IN Examined(MatrixFinite(out), out)))

AddV(l, r) ==
    Then(FiniteV(l), LAMBDA x : Then(FiniteV(r), LAMBDA y :
        LET out == [i \in 1 .. 6 |-> Plus(x[i], y[i])] IN Examined(VectorFinite(out), out)))

Subtract(l, r) ==
    Then(FiniteM(l), LAMBDA x : Then(FiniteM(r), LAMBDA y :
        LET out == Matrix(LAMBDA i, j : Minus(x[i][j], y[i][j])) IN Examined(MatrixFinite(out), out)))

SubtractV(l, r) ==
    Then(FiniteV(l), LAMBDA x : Then(FiniteV(r), LAMBDA y :
        LET out == [i \in 1 .. 6 |-> Minus(x[i], y[i])] IN Examined(VectorFinite(out), out)))

VectorToMatrix(v) ==
    Then(VectorToIsometry(v), LAMBDA x : Examined(Ok(Valid(x)), x))

MatrixToVector(m) ==
    Then(Valid(m), LAMBDA x : Examined(VectorFinite(ToVector(x)), ToVector(x)))

Distance(a, b) ==
    Then(Valid(a), LAMBDA x : Then(Valid(b), LAMBDA y :
        LET out == ComputeDistance(x, y) IN Examined(out.linear # NonFinite, out)))

DistanceV(a, b) ==
    Then(VectorToIsometry(a), LAMBDA x : Then(VectorToIsometry(b), LAMBDA y :
        LET out == ComputeDistance(x, y) IN Examined(out.linear # NonFinite, out)))

WorldToLocal(ref, pose) == Then(Inverse(ref), LAMBDA x : Multiply(x, pose))

WorldToLocalV(ref, pose) ==
    Then(VectorToMatrix(ref), LAMBDA x : Then(VectorToMatrix(pose), LAMBDA y :
        Then(WorldToLocal(x, y), MatrixToVector)))

LocalToWorld(ref, pose) == Multiply(ref, pose)

LocalToWorldV(ref, pose) ==
    Then(VectorToMatrix(ref), LAMBDA x : Then(VectorToMatrix(pose), LAMBDA y :
        Then(LocalToWorld(x, y), MatrixToVector)))
=============================================================================
