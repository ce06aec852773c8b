----------------------------- MODULE RtsiRecipe -----------------------------
(***************************************************************************)
(* The values of RTSI recipes: how RtsiRecipeInternal keeps them by name and *)
(* type and turns them into bytes and back (EndianUtils), and the getters    *)
(* and setters of RtsiIOInterface on top of it.  A setter is one step here;  *)
(* how its parts interleave with the receive thread is the subject of RtsiIO. *)
(*                                                                         *)
(* A byte has Base values, so that with Base = 4 a uint8_t holds two bits.   *)
(* A value is a sequence of numbers, of length 1 unless it is a vector; a    *)
(* double is counted in the smallest step of the levels of analog outputs.   *)
(***************************************************************************)
EXTENDS Integers, Sequences, TLC

CONSTANTS
    Base,           \* values of a byte
    TypeAnswers,    \* what robots answer: functions from variables to names of types
    InputLists,     \* input recipes
    OutputLists,    \* output recipes
    Samples,        \* numbers the robot sends
    Levels,         \* numbers the setters are called with
    MaxRecipeCalls, \* bound: setter calls and data packages
    Garbage         \* a value nobody wrote

ASSUME BaseAssumption == Base \in {4, 8, 16, 32, 64, 128, 256}

VARIABLES
    input, output,  \* input_recipe_ and output_recipe_, of no names while not set up
    failed,         \* setting up a recipe threw
    newCommand,     \* input_new_cmd_
    io,             \* what the robot's outputs do
    touched,        \* outputs a setter was called for
    last,           \* the last setter call: its output, the asked state, its return value
    sample,         \* the number in the last data package for the output recipe
    used

recipeVars == <<input, output, failed, newCommand, io, touched, last, sample, used>>

---------------------------------------------------------------------------
(* Types, and bytes in the order of the network.                            *)

\* EndianUtils::pack and unpack reverse the bytes of the host's numbers.
Width == [BOOL |-> 1, UINT8 |-> 1, UINT16 |-> 2, UINT32 |-> 4, INT32 |-> 4, UINT64 |-> 8, DOUBLE |-> 8]

\* The types parserTypePackage knows, as an element type and a length.
Shape ==
    [BOOL |-> <<"BOOL", 1>>, UINT8 |-> <<"UINT8", 1>>, UINT16 |-> <<"UINT16", 1>>,
     UINT32 |-> <<"UINT32", 1>>, INT32 |-> <<"INT32", 1>>, UINT64 |-> <<"UINT64", 1>>,
     DOUBLE |-> <<"DOUBLE", 1>>, VECTOR3D |-> <<"DOUBLE", 3>>, VECTOR6D |-> <<"DOUBLE", 6>>,
     VECTOR6INT32 |-> <<"INT32", 6>>, VECTOR6UINT32 |-> <<"UINT32", 6>>]

Signed(t) == t \in {"INT32", "DOUBLE"}

Unsigned == {"UINT8", "UINT16", "UINT32", "UINT64"}

Power(b) == LET p[k \in 0 .. 8] == IF k = 0 THEN 1 ELSE b * p[k - 1] IN p

Pack(n, w) == [k \in 1 .. w |-> (n \div Power(Base)[w - k]) % Base]

\* The number of bytes that are shifted in one after the other.
Joined(bytes) ==
    LET n[k \in 0 .. Len(bytes)] == IF k = 0 THEN 0 ELSE n[k - 1] * Base + bytes[k] IN n[Len(bytes)]

\* A bool takes any other byte than 0 for true.
Unpack(bytes, t) ==
    LET n     == Joined(bytes)
        range == Power(Base)[Len(bytes)]
    IN  CASE t = "BOOL" -> IF n = 0 THEN 0 ELSE 1
          [] Signed(t) /\ 2 * n >= range -> n - range
          [] OTHER -> n

PackValue(t, v) ==
    LET w == Width[Shape[t][1]]
    IN  [k \in 1 .. w * Len(v) |-> Pack(v[(k - 1) \div w + 1], w)[((k - 1) % w) + 1]]

UnpackValue(t, bytes) ==
    LET w == Width[Shape[t][1]]
    IN  [i \in 1 .. Shape[t][2] |-> Unpack(SubSeq(bytes, (i - 1) * w + 1, i * w), Shape[t][1])]

\* What an assignment to a variable of the type makes of a number.
Convert(t, n) ==
    CASE t = "BOOL" -> IF n = 0 THEN 0 ELSE 1
      [] t = "DOUBLE" -> n
      [] OTHER -> Unpack(Pack(n, Width[t]), t)

---------------------------------------------------------------------------
(* RtsiRecipeInternal and RtsiRecipe.                                       *)

NoRecipe == [id |-> 0, list |-> <<>>, type |-> <<>>, value |-> <<>>]

IsSet(r) == r # NoRecipe

Names(list) == {list[i] : i \in DOMAIN list}

Place(list, n) == CHOOSE i \in DOMAIN list : list[i] = n

\* parserTypePackage: a list of another length and an unknown type throw.
ParserTypePackage(id, list, types) ==
    IF Len(types) # Len(list) \/ \E i \in DOMAIN types : types[i] \notin DOMAIN Shape
    THEN NoRecipe
    ELSE LET type == [n \in Names(list) |-> types[Place(list, n)]]
         IN  [id |-> id, list |-> list, type |-> type,
              value |-> [n \in Names(list) |-> [i \in 1 .. Shape[type[n]][2] |-> 0]]]

Size(type, n) == Width[Shape[type[n]][1]] * Shape[type[n]][2]

\* Where in a package the i-th variable begins, after the recipe's id.
Offset(list, type, i) ==
    LET offset[k \in 0 .. Len(list)] == IF k = 0 THEN 1 ELSE offset[k - 1] + Size(type, list[k])
    IN  offset[i - 1]

\* parserDataPackage: a package of another recipe is left alone.
ParserDataPackage(r, package) ==
    IF package[1] # r.id THEN r
    ELSE [r EXCEPT !.value = [n \in Names(r.list) |->
           LET before == Offset(r.list, r.type, Place(r.list, n))
           IN  UnpackValue(r.type[n], SubSeq(package, before + 1, before + Size(r.type, n)))]]

PackToBytes(r) ==
    LET bytes[k \in 0 .. Len(r.list)] ==
          IF k = 0 THEN <<r.id>>
          ELSE bytes[k - 1] \o PackValue(r.type[r.list[k]], r.value[r.list[k]])
    IN  bytes[Len(r.list)]

\* setVariantValue: a number fits every scalar type, a vector only its own.
Accepts(t, v, isVector) == IF isVector THEN Shape[t] = <<"DOUBLE", Len(v)>> ELSE Shape[t][2] = 1

\* setValue: whether it succeeds, and what the recipe then holds.
Takes(r, w) == w.name \in DOMAIN r.value /\ Accepts(r.type[w.name], w.value, w.vector)

Taken(r, w) == IF w.vector THEN w.value ELSE <<Convert(r.type[w.name], w.value[1])>>

\* The writes of a setter, until one fails; each is to a variable of its own.
Done(r, writes) == {k \in DOMAIN writes : \A j \in 1 .. k : Takes(r, writes[j])}

SetValues(r, writes) ==
    [r EXCEPT !.value = [n \in DOMAIN @ |->
       IF \E k \in Done(r, writes) : writes[k].name = n
       THEN Taken(r, writes[CHOOSE k \in Done(r, writes) : writes[k].name = n])
       ELSE @[n]]]

---------------------------------------------------------------------------
(* The getters: for each variable they read, the type they ask for.  A       *)
(* getter returns the value of the recipe, and what its result was           *)
(* initialised with if the recipe does not hold the variable.                *)

MotionGetters ==
    [n \in {"timestamp", "payload_mass"} |-> "DOUBLE"] @@
    [n \in {"payload_cog"} |-> "VECTOR3D"] @@
    [n \in {"target_joint_positions", "target_joint_speeds", "actual_joint_positions",
            "actual_joint_torques", "actual_joint_speeds", "actual_joint_current",
            "joint_temperatures", "actual_TCP_pose", "actual_TCP_speed", "actual_TCP_force",
            "target_TCP_pose", "target_TCP_speed"} |-> "VECTOR6D"] @@
    [n \in {"script_control_line"} |-> "UINT32"]

StatusGetters ==
    [n \in {"actual_digital_input_bits", "actual_digital_output_bits", "runtime_state",
            "robot_status_bits", "safety_status_bits", "analog_io_types"} |-> "UINT32"] @@
    [n \in {"robot_mode", "safety_status"} |-> "INT32"] @@
    [n \in {"joint_mode"} |-> "VECTOR6INT32"] @@
    [n \in {"speed_scaling", "target_speed_fraction", "actual_robot_voltage",
            "actual_robot_current"} |-> "DOUBLE"] @@
    [n \in {"elbow_position", "elbow_velocity"} |-> "VECTOR3D"]

ToolGetters ==
    [n \in {"standard_analog_input0", "standard_analog_input1", "standard_analog_output0",
            "standard_analog_output1", "io_current", "tool_analog_input", "tool_analog_output",
            "tool_output_voltage", "tool_output_current", "tool_temperature"} |-> "DOUBLE"] @@
    [n \in {"tool_mode", "tool_analog_input_types", "tool_analog_output_types"} |-> "UINT32"] @@
    [n \in {"tool_digital_mode", "tool_digital0_mode", "tool_digital1_mode",
            "tool_digital2_mode", "tool_digital3_mode"} |-> "UINT8"]

\* One register of each kind stands for the ones of its kind.
RegisterGetters ==
    [n \in {"output_bit_registers0_to_31", "output_bit_registers32_to_63",
            "input_bit_registers0_to_31", "input_bit_registers32_to_63"} |-> "UINT32"] @@
    [n \in {"input_bit_register64", "output_bit_register64"} |-> "BOOL"] @@
    [n \in {"input_int_register0", "output_int_register0"} |-> "INT32"] @@
    [n \in {"input_double_register0", "output_double_register0"} |-> "DOUBLE"]

Getters == MotionGetters @@ StatusGetters @@ ToolGetters @@ RegisterGetters

Uninitialised == {"payload_cog", "joint_mode"}

\* getRecipeValue and getValue: another type than the recipe's is an exception, <<>>.
Get(n) ==
    IF n \in DOMAIN output.value
    THEN IF output.type[n] = Getters[n] THEN output.value[n] ELSE <<>>
    ELSE IF n \in Uninitialised THEN <<Garbage>> ELSE [i \in 1 .. Shape[Getters[n]][2] |-> 0]

---------------------------------------------------------------------------
(* The setters.                                                             *)

Write(name, n) == [name |-> name, value |-> <<n>>, vector |-> FALSE]

Bit(i, type) == Convert(type, Power(2)[i])

SetSpeedScaling(n) ==
    [out |-> <<"speed", 0>>, state |-> <<n>>,
     writes |-> <<Write("speed_slider_mask", 1), Write("speed_slider_fraction", n)>>]

\* setStandardDigital, setConfigureDigital and setToolDigitalOutput: the mask
\* loses the bits of an index that is too large.
DigitalVariable ==
    [standard |-> "standard_digital_output", configurable |-> "configurable_digital_output",
     tool |-> "tool_digital_output"]

DigitalMask ==
    [standard |-> "standard_digital_output_mask", configurable |-> "configurable_digital_output_mask",
     tool |-> "tool_digital_output_mask"]

SetDigital(kind, i, level) ==
    LET type == IF kind = "standard" THEN "UINT16" ELSE "UINT8"
    IN  [out |-> <<kind, i>>, state |-> <<level>>,
         writes |-> <<Write(DigitalMask[kind], Bit(i, type)),
                      Write(DigitalVariable[kind], IF level = 1 THEN Bit(i, type) ELSE 0)>>]

\* setAnalogOutputVoltage and setAnalogOutputCurrent: the level of an output is
\* counted in 1/80 of its range, which is 10 V, or 16 mA above 4 mA.
AnalogType(kind) == IF kind = "voltage" THEN 1 ELSE 0

AnalogLevel(kind, n) == IF kind = "voltage" THEN n * 8 ELSE (n - 4) * 5

SetAnalogOutputFaulty(kind, i, n) ==
    [out |-> <<"analog", i>>, state |-> <<AnalogType(kind), AnalogLevel(kind, n)>>,
     writes |-> <<Write("standard_analog_output_type", 3 * AnalogType(kind))>> \o
                CASE i = 0 -> <<Write("standard_analog_output_mask", 1),
                                Write("standard_analog_output_0", AnalogLevel(kind, n))>>
                  [] i = 1 -> <<Write("standard_analog_output_mask", 1),
                                Write("standard_analog_output_1", AnalogLevel(kind, n))>>
                  [] OTHER -> <<Write("standard_analog_output_mask", 0)>>]

SetAnalogOutput(kind, i, n) ==
    [out |-> <<"analog", i>>, state |-> <<AnalogType(kind), AnalogLevel(kind, n)>>,
     writes |-> <<Write("standard_analog_output_type", 3 * AnalogType(kind))>> \o
                CASE i = 0 -> <<Write("standard_analog_output_mask", 1),
                                Write("standard_analog_output_0", AnalogLevel(kind, n))>>
                  [] i = 1 -> <<Write("standard_analog_output_mask", 2),
                                Write("standard_analog_output_1", AnalogLevel(kind, n))>>
                  [] OTHER -> <<Write("standard_analog_output_mask", 0)>>]

SetExternalForceTorque(v) ==
    [out |-> <<"force", 0>>, state |-> v,
     writes |-> <<[name |-> "external_force_torque", value |-> v, vector |-> TRUE]>>]

SetterCalls ==
    {SetSpeedScaling(n) : n \in Levels}
    \cup {SetDigital(kind, i, level) : kind \in DOMAIN DigitalMask, i \in {0, 1, 4}, level \in {0, 1}}
    \cup {SetAnalogOutput(kind, i, n) : kind \in {"voltage", "current"}, i \in 0 .. 2, n \in Levels}
    \cup {SetExternalForceTorque([i \in 1 .. 6 |-> n - i]) : n \in Levels}

---------------------------------------------------------------------------
(* The robot: what its outputs do, by the input data it was sent.            *)

AllOutputs ==
    {<<"speed", 0>>, <<"force", 0>>, <<"analog", 0>>, <<"analog", 1>>}
    \cup ({"standard"} \X (0 .. 3)) \cup ({"configurable", "tool"} \X (0 .. 1))

BitSet(n, i) == (n \div Power(2)[i]) % 2 = 1

AnalogVariable == <<"standard_analog_output_0", "standard_analog_output_1">>

\* The variables of an output, and whether its mask is set.
Commanded(r, o) ==
    LET has(n) == n \in DOMAIN r.value
        num(n) == r.value[n][1]
    IN  CASE o[1] = "speed" ->
               has("speed_slider_mask") /\ has("speed_slider_fraction") /\ num("speed_slider_mask") = 1
          [] o[1] = "force" -> has("external_force_torque")
          [] o[1] = "analog" ->
               /\ has("standard_analog_output_mask") /\ has(AnalogVariable[o[2] + 1])
               /\ BitSet(num("standard_analog_output_mask"), o[2])
          [] OTHER ->
               /\ has(DigitalMask[o[1]]) /\ has(DigitalVariable[o[1]])
               /\ BitSet(num(DigitalMask[o[1]]), o[2])

Command(r, o) ==
    LET num(n)    == r.value[n][1]
        bit(n)    == IF BitSet(num(n), o[2]) THEN 1 ELSE 0
    IN  CASE o[1] = "speed" -> r.value["speed_slider_fraction"]
          [] o[1] = "force" -> r.value["external_force_torque"]
          [] o[1] = "analog" -> <<bit("standard_analog_output_type"), num(AnalogVariable[o[2] + 1])>>
          [] OTHER -> <<bit(DigitalVariable[o[1]])>>

Obeys(r, o) == IF Commanded(r, o) THEN Command(r, o) ELSE io[o]

---------------------------------------------------------------------------
(* What the setters rely on: the types robots give to their variables, and   *)
(* the numbers the setters and the robot use.                                *)

BitVariables ==
    {"speed_slider_mask", "standard_analog_output_mask", "standard_analog_output_type",
     "standard_digital_output_mask", "standard_digital_output", "configurable_digital_output_mask",
     "configurable_digital_output", "tool_digital_output_mask", "tool_digital_output"}

LevelVariables == {"speed_slider_fraction", "standard_analog_output_0", "standard_analog_output_1"}

\* A robot that knows a variable gives masks and bits an unsigned type, levels a double.
ASSUME TypesAssumption ==
    \A a \in TypeAnswers : \A n \in DOMAIN a : a[n] \in DOMAIN Shape =>
      /\ n \in BitVariables => a[n] \in Unsigned
      /\ n \in LevelVariables => a[n] = "DOUBLE"

ASSUME ListsAssumption ==
    \A list \in InputLists \cup OutputLists :
      list \in Seq(STRING) \ {<<>>} /\ \A a \in TypeAnswers : Names(list) \subseteq DOMAIN a

\* A double has room for the levels and for what is computed from them.
ASSUME NumbersAssumption ==
    \A n \in Samples \cup Levels : n \in Int /\ 10 * n \in -Power(Base)[7] .. Power(Base)[7]

---------------------------------------------------------------------------

RecipeInit ==
    /\ input = NoRecipe /\ output = NoRecipe /\ failed = FALSE /\ newCommand = FALSE
    /\ io = [o \in AllOutputs |-> <<>>] /\ touched = {}
    /\ last = [out |-> <<"none", 0>>, state |-> <<>>, ok |-> FALSE, sent |-> FALSE]
    /\ sample = <<>> /\ used = 0

\* The answer to a list: a type for each variable, or not as many.
TypesFor(list) ==
    LET all == {[i \in DOMAIN list |-> a[list[i]]] : a \in TypeAnswers} IN all \cup {Tail(ts) : ts \in all}

\* setupRecipe: the input recipe, then the output recipe; the first one that
\* fails throws.
SetupRecipe ==
    /\ ~failed /\ ~IsSet(input) /\ ~IsSet(output)
    /\ \E inList \in InputLists, outList \in OutputLists :
       \E inTypes \in TypesFor(inList), outTypes \in TypesFor(outList) :
         /\ input' = ParserTypePackage(1, inList, inTypes)
         /\ output' = IF IsSet(input') THEN ParserTypePackage(2, outList, outTypes) ELSE NoRecipe
         /\ failed' = ~(IsSet(input') /\ IsSet(output'))
    /\ UNCHANGED <<newCommand, io, touched, last, sample, used>>

\* A setter without a recipe returns true.
CallSetter(call) ==
    /\ used < MaxRecipeCalls /\ ~failed
    /\ used' = used + 1
    /\ touched' = touched \cup {call.out}
    /\ IF IsSet(input)
       THEN /\ input' = SetValues(input, call.writes) /\ newCommand' = TRUE
            /\ last' = [out |-> call.out, state |-> call.state, sent |-> FALSE,
                        ok |-> Done(input, call.writes) = DOMAIN call.writes]
       ELSE UNCHANGED <<input, newCommand, last>>
    /\ UNCHANGED <<output, failed, io, sample>>

\* The receive thread sends what is new.
SendInputRecipe ==
    /\ newCommand
    /\ newCommand' = FALSE
    /\ LET r == ParserDataPackage([input EXCEPT !.value = [n \in DOMAIN @ |-> <<>>]], PackToBytes(input))
       IN  io' = [o \in AllOutputs |-> Obeys(r, o)]
    /\ last' = [last EXCEPT !.sent = TRUE]
    /\ UNCHANGED <<input, output, failed, touched, sample, used>>

\* A data package: each variable holds the number its type makes of n.  One of
\* another recipe does not change this one.
ReceiveDataPackage(n, id) ==
    /\ IsSet(output) /\ used < MaxRecipeCalls
    /\ used' = used + 1
    /\ LET sent == [id |-> id, list |-> output.list, type |-> output.type,
                    value |-> [v \in DOMAIN output.value |->
                      [i \in DOMAIN output.value[v] |-> Convert(Shape[output.type[v]][1], n + i)]]]
       IN  output' = ParserDataPackage(output, PackToBytes(sent))
    /\ sample' = IF id = output.id THEN <<n>> ELSE sample
    /\ UNCHANGED <<input, failed, newCommand, io, touched, last>>

RecipeNext ==
    \/ SetupRecipe \/ SendInputRecipe
    \/ \E call \in SetterCalls : CallSetter(call)
    \/ \E n \in Samples, id \in {2, 3} : ReceiveDataPackage(n, id)

---------------------------------------------------------------------------

\* Through masks, conversions and bytes, a setter reaches the output it was
\* called for and no other (RtsiIOInterface.cpp:111-242): if it returned true and
\* the recipe was sent, the output does what was asked, unless the index has no
\* bit in the mask; and an output no setter was called for stays as it was, also
\* when a setter failed half-way.
SettersReachRobot ==
    /\ last.ok /\ last.sent /\ last.out \in AllOutputs => io[last.out] = last.state
    /\ \A o \in AllOutputs : io[o] # <<>> => o \in touched \/ o[1] = "force"

\* A getter returns what the last data package of its own recipe held for its
\* variable, 0 before that and for a variable the recipe does not hold
\* (RtsiIOInterface.cpp:244-606); getPayloadCog and getJointMode return memory
\* nobody wrote in that case, and a getter of another type than the robot named
\* throws.
GettersReadRobot ==
    \A n \in DOMAIN Getters :
      \/ n \in DOMAIN output.value /\ output.type[n] # Getters[n]
      \/ n \in Uninitialised /\ n \notin DOMAIN output.value
      \/ Get(n) = [i \in 1 .. Shape[Getters[n]][2] |->
                     IF sample = <<>> \/ n \notin DOMAIN output.value THEN 0
                     ELSE Convert(Shape[Getters[n]][1], sample[1] + i)]

\* What is written to the one recipe reaches the robot and what the robot sends
\* comes out of the other.
RecipesCarryValues == SettersReachRobot /\ GettersReadRobot
=============================================================================
