-------------------------- MODULE PoseAlgebraBase --------------------------
(***************************************************************************)
(* What the two pose algebra plugins share (PoseAlgebraBase.hpp), in exact   *)
(* arithmetic: lengths are integers up to Huge, the largest double, and     *)
(* angles are quarter turns, so that every sine and cosine is -1, 0 or 1.   *)
(* NonFinite stands for NaN and infinity.  The quarter turns contain the    *)
(* cases in which the conversions branch: the gimbal lock at a pitch of     *)
(* plus and minus 90 degrees, and the half turns.                           *)
(*                                                                         *)
(* An operation returns its error code and its output parameter, <<>> if it *)
(* returned before it assigned the output.                                  *)
(***************************************************************************)
EXTENDS Integers, Sequences

CONSTANTS NonFinite,    \* a NaN or an infinity
          Huge          \* what is longer overflows

ASSUME HugeAssumption == Huge \in Nat \ {0}

ASSUME NonFiniteAssumption == NonFinite \notin Int

Axes == 1 .. 3

Rows == 1 .. 4

Double(x) == IF x \in -Huge .. Huge THEN x ELSE NonFinite

Cos(q) == CASE q % 4 = 0 -> 1 [] q % 4 = 2 -> -1 [] OTHER -> 0

Sin(q) == Cos(q - 1)

\* atan2 of two numbers of which one is 0, in quarter turns.
Atan2(y, x) == CASE y > 0 -> 1 [] y < 0 -> -1 [] y = 0 /\ x < 0 -> 2 [] OTHER -> 0

Norm2(x, y) == IF x = 0 /\ y = 0 THEN 0 ELSE 1

\* PoseMatrix: rows of columns; default constructed, the identity.
Matrix(Entry(_, _)) == [i \in Rows |-> [j \in Rows |-> Entry(i, j)]]

Identity == Matrix(LAMBDA i, j : IF i = j THEN 1 ELSE 0)

\* setError and setSuccess.
Failure(error, out) == [error |-> error, out |-> out]

Success(out) == [error |-> "SUCCESS", out |-> out]

Ok(r) == r.error = "SUCCESS"

VectorFinite(v) == \A i \in DOMAIN v : v[i] # NonFinite

MatrixFinite(m) == \A i, j \in Rows : m[i][j] # NonFinite

\* An output that is examined once more for values that are not finite.
Examined(isFinite, out) ==
    IF isFinite THEN Success(out) ELSE Failure("NUMERICAL_ERROR", out)

\* The output of one operation is the input of the next; the first failure is
\* the failure of the whole.
Then(r, Op(_)) == IF Ok(r) THEN Op(r.out) ELSE Failure(r.error, <<>>)

ColumnDot(l, i, r, j) == l[1][i] * r[1][j] + l[2][i] * r[2][j] + l[3][i] * r[3][j]

Determinant3x3(m) ==
      m[1][1] * (m[2][2] * m[3][3] - m[2][3] * m[3][2])
    - m[1][2] * (m[2][1] * m[3][3] - m[2][3] * m[3][1])
    + m[1][3] * (m[2][1] * m[3][2] - m[2][2] * m[3][1])

Clamp(x, low, high) == IF x < low THEN low ELSE IF x > high THEN high ELSE x

\* One entry of a product, sum or difference of matrices and vectors.
Times(l, r, i, j) ==
    IF NonFinite \in {l[i][k] : k \in Rows} \cup {r[k][j] : k \in Rows}
    THEN NonFinite
    ELSE Double(l[i][1] * r[1][j] + l[i][2] * r[2][j] + l[i][3] * r[3][j] + l[i][4] * r[4][j])

Plus(x, y) == IF NonFinite \in {x, y} THEN NonFinite ELSE Double(x + y)

Minus(x, y) == IF NonFinite \in {x, y} THEN NonFinite ELSE Double(x - y)
=============================================================================
