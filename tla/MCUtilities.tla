---------------------------- MODULE MCUtilities ----------------------------
(***************************************************************************)
(* The parts of the SDK that do not interact with each other, in one run: a  *)
(* behaviour belongs to one of them, chosen at the start, and the others     *)
(* stay in their initial states.  The last part is the functions, for which  *)
(* a behaviour picks arguments.                                              *)
(***************************************************************************)
EXTENDS ScriptSender, SerialLink, Rs485, RemoteShell, PluginHost, RtsiRecipe, Conversions

CONSTANTS c1, c2, c3, u1, u2, d1, d2, d3, libA, libB

VARIABLE part

vars == <<part, pick, senderVars, serialVars, rs485Vars, shellVars, pluginVars, recipeVars>>

Parts == {"sender", "serial", "rs485", "shell", "plugin", "recipe", "values"}

---------------------------------------------------------------------------
(* Values of the constants.                                                 *)

MCClients == {c1, c2, c3}
MCThreads == {u1, u2}

\* Port 6 is 60000 and port 60 another port whose pattern also fits it, as 6000.
MCTcpPorts == {6, 60}
MCFits == {<<6, 6>>, <<60, 60>>, <<6, 60>>}

MCLoaders == {d1, d2, d3}
MCLibraries == {libA, libB}
MCLibOf == d1 :> libA @@ d2 :> libA @@ d3 :> libB
MCClassesOf == libA :> {"Kdl"} @@ libB :> {"Kdl", "Pose"}

MCSizes == {1, 2}
MCFileSizes == {0, 2, 4}

TypesOfController ==
    [n \in {"timestamp", "speed_slider_fraction", "standard_analog_output_0",
            "standard_analog_output_1"} |-> "DOUBLE"] @@
    [n \in {"payload_cog"} |-> "VECTOR3D"] @@ [n \in {"external_force_torque"} |-> "VECTOR6D"] @@
    [n \in {"joint_mode"} |-> "VECTOR6INT32"] @@ [n \in {"robot_mode"} |-> "INT32"] @@
    [n \in {"input_bit_register64"} |-> "BOOL"] @@
    [n \in {"standard_digital_output_mask", "standard_digital_output"} |-> "UINT16"] @@
    [n \in {"speed_slider_mask", "configurable_digital_output_mask", "configurable_digital_output",
            "tool_digital_output_mask", "tool_digital_output", "standard_analog_output_mask",
            "standard_analog_output_type", "tool_digital_mode"} |-> "UINT8"]

\* A controller that knows every variable, and one with an older protocol.
MCTypeAnswers ==
    {TypesOfController,
     [TypesOfController EXCEPT !["tool_digital_mode"] = "NOT_FOUND", !["robot_mode"] = "UINT32"]}

\* The example's input recipe, and one that lacks variables of some setters.
MCInputLists ==
    {<<"speed_slider_mask", "speed_slider_fraction", "standard_digital_output_mask",
       "standard_digital_output", "configurable_digital_output_mask", "configurable_digital_output",
       "tool_digital_output_mask", "tool_digital_output", "standard_analog_output_mask",
       "standard_analog_output_type", "standard_analog_output_0", "standard_analog_output_1",
       "external_force_torque">>,
     <<"standard_digital_output_mask", "standard_analog_output_type", "standard_digital_output",
       "speed_slider_mask">>}

MCOutputLists ==
    {<<"timestamp", "robot_mode", "input_bit_register64", "payload_cog">>,
     <<"joint_mode", "tool_digital_mode">>}

MCSamples == {0, 3}

\* Two levels, with which every kind of analog output has one that is in its range.
MCLevels == {10, 20}

---------------------------------------------------------------------------
(* Arguments.                                                               *)

MCPoses ==
    {<<1, -2, 3>> \o r : r \in (-1 .. 2) \X (-1 .. 2) \X (-1 .. 2)}

\* Some rotations; translations that overflow in products, when they are summed up (in
\* whatever order, and in one order only) and when a distance is squared; no numbers.
MCOtherPoses ==
    {<<0, 3, -1>> \o r : r \in {<<0, 0, 0>>, <<1, 1, 0>>, <<-1, -1, 2>>, <<2, 0, 1>>}}
    \cup {<<Huge, 0, -Huge, 0, 1, 1>>, <<Huge, Huge, 0, 0, 1, 0>>, <<Huge, -Huge, Huge, 0, 0, 1>>,
          <<7, -9, 3, 0, 0, 0>>, <<0, 0, NonFinite, 0, 0, 0>>}

\* A reflection, no rotation, a scaled one, a last row of a projection, no number.
MCNoPoses ==
    {[Identity EXCEPT ![1][1] = -1], [Identity EXCEPT ![2][2] = 0], [Identity EXCEPT ![3][3] = 2],
     [Identity EXCEPT ![4][1] = 1], [Identity EXCEPT ![1][2] = NonFinite]}

MCVersions == {<<ma, mi, bug, 0>> : ma \in 1 .. 2, mi \in 1 .. 3, bug \in 0 .. 1}

MCNumbers == -20 .. 5

MCCounts == 0 .. 3

---------------------------------------------------------------------------

Init ==
    /\ part \in Parts
    /\ SenderInit /\ SerialInit /\ Rs485Init /\ PluginInit /\ RecipeInit /\ ConversionsInit
    /\ IF part = "shell"
       THEN ShellInit
       ELSE /\ job = CHOOSE j \in Jobs : TRUE
            /\ calls = <<>> /\ at = JobDone /\ owned = {} /\ size = 0 /\ moved = 0
            /\ told = FALSE /\ hungUp = FALSE /\ path = "none" /\ value = "none"

\* The driver makes a sender, robots come, and the driver goes again.
SenderStep ==
    /\ part = "sender"
    /\ \/ sender = "absent" /\ Construct
       \/ \E c \in Clients : ClientConnects(c)
       \/ SenderHandler
    /\ UNCHANGED <<part, pick, serialVars, rs485Vars, shellVars, pluginVars, recipeVars>>

SerialStep ==
    /\ part = "serial" /\ SerialNext
    /\ UNCHANGED <<part, pick, senderVars, rs485Vars, shellVars, pluginVars, recipeVars>>

Rs485Step ==
    /\ part = "rs485" /\ Rs485Next
    /\ UNCHANGED <<part, pick, senderVars, serialVars, shellVars, pluginVars, recipeVars>>

ShellWorks ==
    /\ part = "shell" /\ ShellStep
    /\ UNCHANGED <<part, pick, senderVars, serialVars, rs485Vars, pluginVars, recipeVars>>

RobotHangsUp ==
    /\ part = "shell" /\ HangsUp
    /\ UNCHANGED <<part, pick, senderVars, serialVars, rs485Vars, pluginVars, recipeVars>>

PluginStep ==
    /\ part = "plugin" /\ PluginNext
    /\ UNCHANGED <<part, pick, senderVars, serialVars, rs485Vars, shellVars, recipeVars>>

RecipeStep ==
    /\ part = "recipe" /\ RecipeNext
    /\ UNCHANGED <<part, pick, senderVars, serialVars, rs485Vars, shellVars, pluginVars>>

PickValues ==
    /\ part = "values" /\ ConversionsNext
    /\ UNCHANGED <<part, senderVars, serialVars, rs485Vars, shellVars, pluginVars, recipeVars>>

Next ==
    \/ SenderStep \/ SerialStep \/ Rs485Step \/ ShellWorks \/ RobotHangsUp
    \/ PluginStep \/ RecipeStep \/ PickValues

Spec == Init /\ [][Next]_vars /\ WF_vars(ShellWorks)
=============================================================================
