----------------------------- MODULE WireFormat -----------------------------
(***************************************************************************)
(* The messages of ScriptCommandInterface.cpp, TrajectoryInterface.cpp and   *)
(* ReverseInterface.cpp, and how external_control.script takes them apart:   *)
(* arrays of 32-bit words, numbered from 0 by the driver and from 1 by the   *)
(* script, whose element 0 is the number of words.                          *)
(*                                                                         *)
(* Real numbers are counted in half steps of the fixed point, so a word is   *)
(* half of the number, cut off or rounded.  Ratio is COMMON_ZOOM_RATIO.     *)
(***************************************************************************)
EXTENDS Integers, Sequences

CONSTANT Ratio

ASSUME RatioAssumption == Ratio \in Nat \ {0}

\* The largest int32_t.  What a number beyond it becomes is undefined, and left out.
MaxWord == 2147483647

Truncated(x) == IF x >= 0 THEN x \div 2 ELSE -((-x) \div 2)

Rounded(x) == IF x >= 0 THEN (x + 1) \div 2 ELSE -((1 - x) \div 2)

\* A buffer of n words, all 0 behind the ones given.
Buffer(n, words) == [i \in 1 .. n |-> IF i <= Len(words) THEN words[i] ELSE 0]

Map(Op(_), s) == [i \in DOMAIN s |-> Op(s[i])]

---------------------------------------------------------------------------
(* The driver.                                                              *)

ScriptWords(words) == Buffer(26, words)

ZeroFTSensor == ScriptWords(<<0>>)

SetPayload(mass, cog) == ScriptWords(<<1, Truncated(mass)>> \o Map(Truncated, cog))

SetToolVoltage(vol) == ScriptWords(<<2, vol * Ratio>>)

StartForceModeFaulty(frame, selection, wrench, mode, limits) ==
    ScriptWords(<<3>> \o Map(Truncated, frame) \o selection \o Map(Truncated, wrench)
                \o <<mode>> \o Map(Truncated, limits))

StartForceMode(frame, selection, wrench, mode, limits) ==
    ScriptWords(<<3>> \o Map(Truncated, frame) \o Map(LAMBDA n : n * Ratio, selection)
                \o Map(Truncated, wrench) \o <<mode>> \o Map(Truncated, limits))

EndForceMode == ScriptWords(<<4>>)

WritePoint(positions, time, radius, cartesian, speed, acceleration) ==
    [i \in 1 .. 21 |->
       CASE i <= 6 -> Rounded(positions[i])
         [] i = 7  -> Rounded(speed)
         [] i = 8  -> Rounded(acceleration)
         [] i = 19 -> Rounded(time)
         [] i = 20 -> Rounded(radius)
         [] i = 21 -> IF cartesian THEN 1 ELSE 0
         [] OTHER  -> 0]

WriteJointCommand(positions, mode, timeout) == <<timeout>> \o Map(Rounded, positions) \o <<mode>>

---------------------------------------------------------------------------
(* The script.  A word divided by the ratio is a real number again; an       *)
(* integer that was multiplied with it is one once more.                     *)

Real(w) == 2 * w

Whole(w) == w \div Ratio

ScriptCommand(raw) ==
    CASE raw[1] = 0 -> <<"zero_ftsensor">>
      [] raw[1] = 1 -> <<"set_payload", Real(raw[2]), Map(Real, SubSeq(raw, 3, 5))>>
      [] raw[1] = 2 -> <<"set_tool_voltage", Whole(raw[2])>>
      [] raw[1] = 3 -> <<"force_mode", Map(Real, SubSeq(raw, 2, 7)), Map(Whole, SubSeq(raw, 8, 13)),
                         Map(Real, SubSeq(raw, 14, 19)), raw[20], Map(Real, SubSeq(raw, 21, 26))>>
      [] raw[1] = 4 -> <<"end_force_mode">>

\* The move the trajectory thread makes: by time, or by speed and acceleration,
\* or by neither; the last point has no blend radius.
TrajectoryMove(raw, isLast) ==
    [move  |-> IF raw[21] = 0 THEN "movej" ELSE "movel",
     point |-> Map(Real, SubSeq(raw, 1, 6)),
     r     |-> IF isLast THEN 0 ELSE Real(raw[20]),
     by    |-> CASE raw[19] > 0 -> <<Real(raw[19])>>
                 [] raw[19] <= 0 /\ raw[7] > 0 /\ raw[8] > 0 -> <<Real(raw[7]), Real(raw[8])>>
                 [] OTHER -> <<>>]

ReverseCommand(raw) ==
    [timeout |-> raw[1], target |-> Map(Real, SubSeq(raw, 2, 7)), mode |-> raw[8]]

---------------------------------------------------------------------------

Near(x, y, d) == x - y \in -d .. d

AllNear(s, t, d) == Len(s) = Len(t) /\ \A i \in DOMAIN s : Near(s[i], t[i], d)

\* The six numbers that follow n.
Six(n) == [i \in 1 .. 6 |-> n + i]

\* The robot does what the driver was asked for: each parameter comes out where
\* it went in, integers exactly, a parameter of a script command off by less than
\* one step of the fixed point and never larger than asked, a point or a joint
\* command by at most half a step (ScriptCommandInterface.cpp:19-70,
\* TrajectoryInterface.cpp:55-77, ReverseInterface.cpp:22-36).  n is any number
\* and k a small integer, from which every parameter is made different.
WireLaws(n, k, cartesian) ==
    LET payload == ScriptCommand(SetPayload(n, <<n + 1, n + 2, n + 3>>))
        force   == ScriptCommand(StartForceMode(Six(n), Six(k), Six(n + 6), k, Six(n + 12)))
        point   == WritePoint(Six(n), n + 8, n + 9, cartesian, n + 10, n + 11)
        joints  == ReverseCommand(WriteJointCommand(Six(n), k, k + 1))
    IN  /\ payload[1] = "set_payload" /\ Near(payload[2], n, 1)
        /\ AllNear(payload[3], <<n + 1, n + 2, n + 3>>, 1)
        /\ n >= 0 => payload[2] <= n
        /\ ScriptCommand(SetToolVoltage(k)) = <<"set_tool_voltage", k>>
        /\ ScriptCommand(ZeroFTSensor) = <<"zero_ftsensor">>
        /\ ScriptCommand(EndForceMode) = <<"end_force_mode">>
        /\ force[1] = "force_mode" /\ force[3] = Six(k) /\ force[5] = k
        /\ AllNear(force[2], Six(n), 1) /\ AllNear(force[4], Six(n + 6), 1)
        /\ AllNear(force[6], Six(n + 12), 1)
        /\ LET m == TrajectoryMove(point, FALSE)
           IN  /\ m.move = (IF cartesian THEN "movel" ELSE "movej")
               /\ AllNear(m.point, Six(n), 1) /\ Near(m.r, n + 9, 1)
               /\ n + 8 > 0 => AllNear(m.by, <<n + 8>>, 1)
        /\ TrajectoryMove(point, TRUE).r = 0
        /\ joints.timeout = k + 1 /\ joints.mode = k /\ AllNear(joints.target, Six(n), 1)
=============================================================================
