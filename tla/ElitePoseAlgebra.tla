-------------------------- MODULE ElitePoseAlgebra --------------------------
(***************************************************************************)
(* The plugin ElitePoseAlgebra.cpp, which computes on PoseMatrix itself.    *)
(* An operator whose name ends in V is the overload on vectors              *)
(* <<x, y, z, roll, pitch, yaw>>.                                           *)
(***************************************************************************)
EXTENDS PoseAlgebraBase

\* validatePoseMatrix: the error code of the first check that fails.
Validate(m) ==
    IF ~MatrixFinite(m) \/ m[4] # <<0, 0, 0, 1>> THEN "INVALID_INPUT"
    ELSE IF \E i, j \in Axes : ColumnDot(m, i, m, j) # Identity[i][j] THEN "INVALID_ROTATION_MATRIX"
    ELSE IF Determinant3x3(m) = 0 THEN "SINGULAR_MATRIX"
    ELSE IF Determinant3x3(m) # 1 THEN "INVALID_ROTATION_MATRIX"
    ELSE "SUCCESS"

Valid(m) == Failure(Validate(m), m)

FillRotationFromRpy(roll, pitch, yaw) ==
    LET cr == Cos(roll)   sr == Sin(roll)
        cp == Cos(pitch)  sp == Sin(pitch)
        cy == Cos(yaw)    sy == Sin(yaw)
    IN  << <<cy * cp, cy * sp * sr - sy * cr, cy * sp * cr + sy * sr>>,
           <<sy * cp, sy * sp * sr + cy * cr, sy * sp * cr - cy * sr>>,
           <<-sp, cp * sr, cp * cr>> >>

ToMatrix(v) ==
    LET R == FillRotationFromRpy(v[4], v[5], v[6])
    IN  Matrix(LAMBDA i, j : IF i = 4 THEN Identity[i][j] ELSE IF j = 4 THEN v[i] ELSE R[i][j])

\* At the gimbal lock the yaw is 0 and the roll comes from the second column.
ToVectorFaulty(m) ==
    LET pitch == Atan2(-m[3][1], Norm2(m[1][1], m[2][1]))
    IN  IF Cos(pitch) # 0
        THEN <<m[1][4], m[2][4], m[3][4], Atan2(m[3][2], m[3][3]), pitch, Atan2(m[2][1], m[1][1])>>
        ELSE <<m[1][4], m[2][4], m[3][4], Atan2(m[1][2], m[2][2]), pitch, 0>>

ToVector(m) ==
    LET pitch == Atan2(-m[3][1], Norm2(m[1][1], m[2][1]))
        twist == Atan2(m[1][2], m[2][2])
    IN  IF Cos(pitch) # 0
        THEN <<m[1][4], m[2][4], m[3][4], Atan2(m[3][2], m[3][3]), pitch, Atan2(m[2][1], m[1][1])>>
        ELSE <<m[1][4], m[2][4], m[3][4], IF pitch > 0 THEN twist ELSE -twist, pitch, 0>>

Product(l, r) == Matrix(LAMBDA i, j : Times(l, r, i, j))

Transposed(m) ==
    Matrix(LAMBDA i, j : IF i = 4 THEN Identity[i][j]
                          ELSE IF j = 4 THEN -ColumnDot(m, i, m, 4)
                          ELSE m[j][i])

\* The square of the linear distance, which may overflow, and twice the cosine of the angular one.
ComputeDistance(a, b) ==
    LET d     == [i \in Axes |-> Minus(a[i][4], b[i][4])]
        trace == ColumnDot(a, 1, b, 1) + ColumnDot(a, 2, b, 2) + ColumnDot(a, 3, b, 3)
    IN  [linear  |-> IF VectorFinite(d) THEN Double(d[1] * d[1] + d[2] * d[2] + d[3] * d[3]) ELSE NonFinite,
         angular |-> Clamp(trace - 1, -2, 2)]

---------------------------------------------------------------------------

FiniteV(v) == Failure(IF VectorFinite(v) THEN "SUCCESS" ELSE "INVALID_INPUT", v)

FiniteM(m) == Failure(IF MatrixFinite(m) THEN "SUCCESS" ELSE "INVALID_INPUT", m)

Inverse(m) ==
    Then(Valid(m), LAMBDA x : Valid(Transposed(x)))

InverseV(v) ==
    Then(FiniteV(v), LAMBDA x :
        LET out == ToVector(Transposed(ToMatrix(x))) IN Examined(VectorFinite(out), out))

Multiply(l, r) ==
    Then(Valid(l), LAMBDA x : Then(Valid(r), LAMBDA y : Valid(Product(x, y))))

MultiplyV(l, r) ==
    Then(FiniteV(l), LAMBDA x : Then(FiniteV(r), LAMBDA y :
        LET out == ToVector(Product(ToMatrix(x), ToMatrix(y))) IN Examined(VectorFinite(out), out)))

Add(l, r) ==
    Then(FiniteM(l), LAMBDA x : Then(FiniteM(r), LAMBDA y :
        LET out == Matrix(LAMBDA i, j : Plus(x[i][j], y[i][j])) IN Examined(MatrixFinite(out), out)))

AddV(l, r) ==
    Then(FiniteV(l), LAMBDA x : Then(FiniteV(r), LAMBDA y :
        LET out == [i \in 1 .. 6 |-> Plus(x[i], y[i])] IN Examined(VectorFinite(out), out)))

Subtract(l, r) ==
    Then(FiniteM(l), LAMBDA x : Then(FiniteM(r), LAMBDA y :
        LET out == Matrix(LAMBDA i, j : Minus(x[i][j], y[i][j])) IN Examined(MatrixFinite(out), out)))

SubtractV(l, r) ==
    Then(FiniteV(l), LAMBDA x : Then(FiniteV(r), LAMBDA y :
        LET out == [i \in 1 .. 6 |-> Minus(x[i], y[i])] IN Examined(VectorFinite(out), out)))

VectorToMatrix(v) ==
    Then(FiniteV(v), LAMBDA x : Examined(Validate(ToMatrix(x)) = "SUCCESS", ToMatrix(x)))

MatrixToVector(m) ==
    Then(Valid(m), LAMBDA x : Examined(VectorFinite(ToVector(x)), ToVector(x)))

Distance(a, b) ==
    Then(Valid(a), LAMBDA x : Then(Valid(b), LAMBDA y :
        LET out == ComputeDistance(x, y) IN Examined(out.linear # NonFinite, out)))

DistanceV(a, b) ==
    Then(FiniteV(a), LAMBDA x : Then(FiniteV(b), LAMBDA y :
        LET out == ComputeDistance(ToMatrix(x), ToMatrix(y)) IN Examined(out.linear # NonFinite, out)))

WorldToLocal(ref, pose) == Then(Inverse(ref), LAMBDA x : Multiply(x, pose))

WorldToLocalV(ref, pose) ==
    Then(VectorToMatrix(ref), LAMBDA x : Then(VectorToMatrix(pose), LAMBDA y :
        Then(WorldToLocal(x, y), MatrixToVector)))

LocalToWorld(ref, pose) == Multiply(ref, pose)

LocalToWorldV(ref, pose) ==
    Then(VectorToMatrix(ref), LAMBDA x : Then(VectorToMatrix(pose), LAMBDA y :
        Then(LocalToWorld(x, y), MatrixToVector)))
=============================================================================
