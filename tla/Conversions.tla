---------------------------- MODULE Conversions ----------------------------
(***************************************************************************)
(* The parts of the SDK that are functions: the pose algebra of the plugins, *)
(* the comparison and conversion of versions, and the words of the messages  *)
(* to the robot's script.  A behaviour picks arguments for one of them.      *)
(***************************************************************************)
EXTENDS PoseAlgebra, VersionInfo, WireFormat

CONSTANTS Poses,        \* poses of finite numbers
          OtherPoses,   \* poses whose translation need not be finite
          NoPoses,      \* matrices that are no poses
          Versions,
          Numbers,      \* real numbers in half steps of the fixed point
          Counts        \* integers

Doubles == -Huge .. Huge

ASSUME PosesAssumption == Poses \subseteq [1 .. 6 -> Doubles]

ASSUME OtherPosesAssumption ==
    \A v \in OtherPoses :
      v \in [1 .. 6 -> Doubles \cup {NonFinite}] /\ \A i \in 4 .. 6 : v[i] \in Doubles

\* The matrix of a finite translation and of a rotation by quarter turns.
IsPose(m) ==
    /\ MatrixFinite(m)
    /\ \E roll, pitch, yaw \in -1 .. 2 :
         m = Elite!ToMatrix(<<m[1][4], m[2][4], m[3][4], roll, pitch, yaw>>)

\* Their determinants do not overflow.
ASSUME NoPosesAssumption ==
    \A m \in NoPoses :
      /\ m \in [Rows -> [Rows -> Doubles \cup {NonFinite}]] /\ ~IsPose(m)
      /\ \A i, j \in Axes : m[i][j] = NonFinite \/ 6 * m[i][j] * m[i][j] * m[i][j] \in Doubles

ASSUME VersionsAssumption == Versions \subseteq [1 .. 4 -> Nat]

\* The words of WireLaws fit.
ASSUME WireAssumption ==
    /\ Numbers \subseteq Int /\ Counts \subseteq Int
    /\ \A n \in Numbers : -MaxWord <= n /\ n + 18 <= MaxWord
    /\ \A k \in Counts : -MaxWord <= k * Ratio /\ (k + 6) * Ratio <= MaxWord

VARIABLE pick

Picks ==
    [kind : {"pose"}, a : Poses, b : OtherPoses]
    \cup [kind : {"matrix"}, m : NoPoses]
    \cup [kind : {"version"}, v : Versions, w : Versions, x : Versions]
    \cup [kind : {"wire"}, n : Numbers, k : Counts, cartesian : BOOLEAN]

NoPick == [kind |-> "none"]

ConversionsInit == pick = NoPick

ConversionsNext == pick = NoPick /\ pick' \in Picks

---------------------------------------------------------------------------

\* Poses obey the laws of rigid motions, computed by either plugin with the same
\* result and the same errors, except for vectors that only Elite takes (PoseAlgebra:
\* GroupLaws, PluginsAgree, Refused).
PoseLaws ==
    /\ pick.kind = "pose" =>
         /\ VectorFinite(pick.b) => GroupLaws(pick.a, pick.b)
         /\ PluginsAgree(pick.a, pick.b) /\ PluginsAgree(pick.b, pick.a)
    /\ pick.kind = "matrix" => Refused(pick.m)

\* Versions compare and convert as far as their operators can be relied on, and
\* every parameter of a message of the driver reaches the script (VersionInfo:
\* VersionLaws, WireFormat: WireLaws).
ValuesConvert ==
    /\ pick.kind = "version" => VersionLaws(pick.v, pick.w, pick.x)
    /\ pick.kind = "wire" => WireLaws(pick.n, pick.k, pick.cartesian)
=============================================================================
