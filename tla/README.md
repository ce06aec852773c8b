# Formal model of the Elite Robots CS SDK

The SDK is a C++ library with which a program on a PC controls an Elite CS robot.
This directory holds TLA+ modules for its parts, the TLC configurations that
model-check them, and TLAPS proofs of the properties that matter most.

    tlc -workers 2 -config MCTcpServer_oneport.cfg MCTcpServer      # one run
    tlapm TcpServerProofs.tla                                       # the proofs of one module

## 1. The system

A program links the SDK, creates an `EliteDriver`, and the SDK sends a control script
(`source/resources/external_control.script`) to the robot, or offers it for fetching. The
robot runs it, connects *back* to servers in the PC, and from then on executes what arrives
there. Next to the driver stand independent clients: the primary port (state packages,
scripts, commands), RTSI (cyclic data exchange), the dashboard (power, programs, safety), and
tools: RS-485 lines, log download, upgrade, plugins for kinematics and poses.

| Component | State it keeps | Operations | What is hard |
|---|---|---|---|
| `TcpServer` (`source/Common/TcpServer.cpp`) | acceptor, current client socket, receive buffer, callback; one io thread shared by all servers | construct, listen, write, (un)set callback, destroy, shutdown | handlers of the io thread against user threads; objects kept alive by handlers; shared buffer; blocking write under a mutex |
| `EliteDriver` | configuration, three servers, script sender, primary port, the script | init, send the script, stopControl, destroy | each step of init may throw; the robot comes, goes and comes again during stopControl |
| `ScriptSender` | its own accept and read loop, one request buffer | serve the script on request | raw `this` in handlers; re-arming after errors; one buffer for all connections |
| Control script, `ReverseInterface`, `TrajectoryInterface` | motion mode, running thread, trajectory counters, read timeout | write a command, write a point, stop; mode switch, trajectory thread, feedback | commands and points on two sockets; a thread stopped anywhere; watchdog |
| `ScriptCommandInterface` | a `TcpServer` | force mode, payload, tool voltage, zero the sensor | words scaled by one side and unscaled by the other |
| Servo set-points in the script | set-point, extrapolation and hold state | set a set-point, take the next point each cycle | numeric |
| `PrimaryPort`, `PrimaryPackage` | socket, registry of awaited packages, receive thread | connect, disconnect, send script, getPackage, exceptions callback | a waiter and the receive thread meet at a registry with timeouts; reconnect against disconnect |
| Primary port commands | none of their own | power, brakes, program, safety, speed | poll loops against stale, short and refused packages |
| `RtsiClient`, `RtsiIOInterface` | protocol state, recipes, receive thread | connect, negotiate, set up recipes, start, get, set | hand-shake order; input command flag written by two threads; loss of the connection |
| `RtsiRecipe`, `EndianUtils` | values by name and type | parse types, parse and pack data, getters and setters | types, widths, masks, a setter that fails half-way |
| `DashboardClient` | socket and its mutex | connect, disconnect, some thirty commands: one request and its reply, often followed by polls | replies of several lines that come in parts; calls that use the socket without the mutex; a wait without end |
| `SerialCommunication` | TCP client of a socat process | connect, disconnect, read, write | a read that timed out stays outstanding |
| RS-485 commands of `EliteDriver` | processes on the robot | start, end | a process is looked for, started and looked for again |
| `SshUtils`, `RemoteUpgrade`, `ControllerLog` | SSH session, channel, files, child process | execute, upload, download | an error path per library call |
| `ClassLoader`, `ClassRegistry`, `SharedLibrary` | library handles, one registry of factories | load, create, destroy | who keeps a library mapped; factories that outlive it |
| Pose algebra plugins, kinematics plugin | none; the chain of joints | group operations on poses; FK, IK | gimbal lock, two implementations of one interface |
| `VersionInfo`, `StringUtils` | none | parse, format, compare | the order of versions |
| `Log`, `Logger`, `RtUtils`, `EliteException` | little | output, system calls | - |

How they interact: `EliteDriver` owns the `TcpServer`s of the reverse, trajectory and
script-command ports and the `ScriptSender`, all on one `StaticResource` (one
io_context, one thread), and owns a `PrimaryPort` through which it sends the script.
User threads call the driver; the io thread calls the user's trajectory callbacks. The
script's main loop talks to the move and trajectory threads through global variables.

### What makes each component correct

| Component | Correct means |
|---|---|
| `TcpServer` | one client at a time; a robot that connects gets its turn; a hang-up is noticed; a write goes to one client; nothing runs on a destroyed object; `shutdown()` returns and leaves nothing |
| `EliteDriver` | init gives everything or leaves nothing; the script finds the servers; stopControl returns, and true means stopped |
| `ScriptSender` | the script is written to a robot only after its whole request, and one that goes in the middle of its request costs at most one other robot its answer; no handler uses the sender after its destruction (they do: `driver_freed`) |
| Control script with the driver's commands | one source of motion; points belong to the trajectory that was announced; a trajectory is answered, in order; silence and `stopControl` end the script |
| `ScriptCommandInterface` and the other frames | each parameter comes out where it went in |
| `PrimaryPort` | a waiter is served or times out and leaves nothing; a wanted connection comes back; an unwanted one ends; losses are reported once |
| Primary commands | true is returned only after the robot showed the state; every command returns |
| RTSI | the hand-shake either ends connected or not at all; the thread always has a socket; `isConnected()` is right; what is set is sent, as it was set; what is read is what the robot sent |
| `DashboardClient` | a reply belongs to its request; an operation that reports success has reached its state; a call returns, and never uses a socket that is gone |
| Serial line, RS-485 | bytes in order, without a gap; a handle serves the line it was asked for |
| SSH jobs | nothing leaks on any path; true means the whole file; a job ends |
| Plugins | a loaded library stays mapped; poses form a group, and both plugins compute the same (except where a sum overflows in one of them) |
| `VersionInfo` | the comparison operators agree with the order of versions (they do in part) |

## 2. Modules

| Module | Models | Extends / composes |
|---|---|---|
| `TcpServer` | `TcpServer.cpp`, the shared thread, the order of destruction in `EliteDriver` | - |
| `ClientSlot` | abstract: what a `TcpServer` promises its owner | `TcpServer` implements it (`ImplementsClientSlot`) |
| `ScriptSender` | `ScriptSender.cpp` | - |
| `Driver` | `EliteDriver.cpp`: init, script, stopControl, destruction, with the robot and the network | extends `ScriptSender` |
| `ExternalControl` | `external_control.script` (main loop, move threads, trajectory thread) composed with `ReverseInterface`/`TrajectoryInterface` and their user | - |
| `WireFormat` | the frames of all three interfaces, encoded by the driver and decoded by the script | - |
| `PrimaryPort` | `PrimaryPort.cpp` connection, message loop, `getPackage`, `sendScript` | - |
| `PrimaryCommands` | the commands on top of it, and `PrimaryStatePackage.cpp` as far as they read it | - |
| `RtsiIO` | `RtsiIOInterface` and the `RtsiClient` under it: session and threads | - |
| `RtsiRecipe` | `RtsiRecipeInternal`, `RtsiRecipe.hpp`, `EndianUtils.hpp`, getters and setters: values | - |
| `Dashboard` | `DashboardClient.cpp` | - |
| `SerialLink` | `SerialCommunicationImpl.cpp` | - |
| `Rs485` | the four RS-485 functions of `EliteDriver.cpp` | - |
| `RemoteShell` | `SshUtils.cpp`, `RemoteUpgrade.cpp`, `ControllerLog.cpp` | - |
| `PluginHost` | `ClassLoader`, `ClassRegistry`, `SharedLibrary`, calls of the kinematics plugin | - |
| `PoseAlgebraBase`, `ElitePoseAlgebra`, `EigenPoseAlgebra` | `PoseAlgebraBase.hpp` and the two plugins, function by function | the plugins extend the base |
| `PoseAlgebra` | the laws both plugins keep and where they agree | instances of both |
| `VersionInfo` | `VersionInfo.cpp`, `StringUtils.cpp` | - |
| `Conversions` | the functions as a specification: a behaviour picks arguments for one of them | extends `PoseAlgebra`, `VersionInfo`, `WireFormat` |
| `TcpServerProofs`, `ExternalControlProofs`, `PrimaryPortProofs`, `PrimaryCommandsProofs`, `DashboardProofs`, `DriverProofs` | theorems | the module they are named after, `TLAPS` |
| `RtsiIOProofs` | theorems about both RTSI modules | `RtsiIO`, `RtsiRecipe`, `TLAPS` |
| `UtilitiesProofs` | theorems about the parts of `MCUtilities` | `ScriptSender`, `SerialLink`, `Rs485`, `RemoteShell`, `PluginHost`, `Conversions`, `TLAPS` |
| `MCTcpServer`, `MCDriver`, `MCExternalControl`, `MCPrimaryPort`, `MCPrimaryCommands`, `MCRtsiIO`, `MCDashboard` | instances for TLC | the module they are named after |
| `MCUtilities` | one instance of all parts that stand alone | `ScriptSender`, `SerialLink`, `Rs485`, `RemoteShell`, `PluginHost`, `RtsiRecipe`, `Conversions` |

An operator named `...Faulty` stands before the operator it spoils: a plausible mistake in
that piece of code. The list of mutants in `PROJECT.json` says which property catches it.

### TcpServer

State. `life[s]` is the object and the `shared_ptr` its user holds ("orphaned" = the user
has let go, a handler still holds it); `accepting`, `reading` are outstanding `async_accept`
and `async_read` operations; `socket[s]` is `socket_`; `sock[c]` is the state of each
accepted socket; `queue` is what the operating system has posted to the io_context; `io` is
the handler that runs, the server whose `shared_ptr` it has locked, and its connection;
`cb`/`listener` are the receive callback and the object it captured; `res` is
`StaticResource`.

Atomicity. A section that holds a mutex and cannot block is one action, enabled only when
the mutex is free. Two sections block with a mutex held and are therefore states: a user
in `writeClient` (`socket_mutex_`) and the thread in the receive callback
(`receive_cb_mutex_`). `doAccept`, which takes the mutex a second time at the end of the
accept handler, is a step of its own, so that writers come in between.

Actions of the io thread: `HandlerOfDeadServer` (weak pointer not locked), `AcceptHandler`
then `AcceptNewClient` / `AcceptThrows` / `AcceptError` then `DoAccept`, `ReadHandler` then
`CallbackReturns`, `ReadErrorHandler`, `ReleaseSelf` (the handler's `shared_ptr` goes, and
with the last one the destructor runs *on the io thread*), `ThreadExits`. Of users:
`Construct`, `StartListen`, `SetReceiveCallback`, `UnsetReceiveCallback`, `DestroyListener`,
`WriteBegin`, `WriteEnd`, `Release`, `Shutdown`, `Join`. Of the network: the rest.

`ServerOf` maps a connection to the port it was made to. How many servers and which have a
callback are parameters, because the driver uses three `TcpServer`s in two different ways.

### ExternalControl

State: the two sockets as sequences (`rev` of command frames, `pts` of points); the main
loop (`pc`, `cmd`, `mode`, `readTimeout`); the script's globals (`num`, `total`, `active`);
the threads (`traj`, `move`), freedrive; and the history that the properties speak about
(`starts`, `target`, `moved`, `answers`, `cancels`, `feedback`).

A point is known by its trajectory and how many points follow it. That suffices to say
that the thread moves to the right one. The words of a frame are reduced to mode, action,
count and timeout. Each part of the main loop (leave the old mode, enter the new one,
update, read off points one by one, begin a trajectory) is an action, since the trajectory
thread runs in between. `start_thread`, `stop_thread` and `join_thread` belong to the robot
controller: a stopped thread ends where it waits. `late`, chosen once per behaviour, says
whether a read of the trajectory socket may time out (0.5 s); the behaviours with `late`
include the punctual ones.

### PrimaryPort

State: the socket and what is on it (`sock`, `inq`, `wire`), the thread (`alive`, `thread`,
`last`, `subs`), the controlling user (`ctl`), the registry `parser_sub_msg_` and for each
caller of `getPackage` its step, type, package object and that object's `ready_`.

A message is two halves of a head and a body, whose content is the list of sub-package
types in it. The mutex `socket_mutex_` is held by the thread from the head to the end of
the body (`Held`). `mutex_` is never held across a wait, so each section under it is one
action: `GetPackage` registers, `WaitReturns`/`WaitTimesOut` is the condition variable,
`EraseAfterTimeout` the clean-up. The loop is `LoopCheck`, `ParserMessage`,
`BodyArrives`/`BodyFails`, `ParserSub` (one sub-package), `BodyEnds`, `Report`, `Reconnect`
or `ReconnectThrows`. The switches `ReusePackages`, `HeadsMaySplit` and `BodiesMayBeLate`
allow what the code allows and a given question may want to leave out.

### RtsiIO

State: the client's socket and `connection_state`; the step of `connect()`/`disconnect()`
(`ctl`), its result; `is_recv_thread_alive_` (`alive`), the thread, the promise it keeps
for `connect()`; the input recipe, `input_new_cmd_` and what each setter is doing; the
packet last sent and the level of the robot's outputs.

Every request of the hand-shake is a step (`Negotiate`, `GetVersion`, `SetupInput`,
`SetupOutput`, `Start`) that may instead be refused (`Refused`, `RecipeRefused`) or throw
(`HandShakeThrows`). The receive thread is `FirstData`/`FirstFails` (no
package, or one of another recipe, for which `receiveData` answers false), `LoopCheck`,
`ReceiveData`/`ReceiveFails`, `TestNewCmd`, `SendInput`/`SendFails`, `ClearNewCmd`. One
setter, `setStandardDigital`, is modelled in its four steps: mask, flag, level, flag. `setSpeedScaling`,
`setConfigureDigital` and `setToolDigitalOutput` have this form too; the analog setters and
`setExternalForceTorque` are, with all values, in `RtsiRecipe`. `setInputRecipeValue` writes
the value under the recipe's mutex and the flag outside it.

### Dashboard

State: `socket_ptr_` (`socket`), `socket_mutex_` (`mutex`), the lines that have arrived
(`inbox`); for each thread the step it is at, its operation, the command under way and its
number, the polls left, and the robot's states since it began (`seen`); the robot's
unanswered commands and its one `state`. `taint` remembers what can put a connection out of
step: a reply that was read in part ("cut"), a call without the mutex that overlapped with
another ("overlap"), `sendAndReceive()` without a connection ("unconnected"). A
`connect()` on its own clears it.

The operations differ in four things only, the table `Op`: the first command, whether an
unexpected reply is an exception, what is made of the empty response that
`sendAndRequest` returns without a connection, and what follows. The actions are the steps
between which other threads run: `RequestLocks` (lock and check), `SendCommand`,
`StartRead`, `ReadLines` or `ReadFails` with the whole treatment of the response
(`Respond`), `QuitResets`; `ConnectLocks` and `Dial` for `connect()`, which then reads the
greeting with the mutex released. A use of a null `socket_ptr_` ends the program
(`crashed`).


### Driver and ScriptSender

`Driver` follows `init()` (EliteDriver.cpp:175-230) step by step: the connection of the
primary port, the local address, the script with its placeholders, the three servers, each
of which may find its port taken, and then the sending of the script in headless mode or the
sender that offers it otherwise. Each step may throw, and then `~Impl` runs from where
the members are. The robot opens its three sockets one after another under the ports the
script names, loops, and closes them on STOP or silence; the network may break a connection of it, or a
server closes one after a failed accept (`cut`, `AcceptFails`), and the primary port may be
lost before or after the address is read (`lost`). `stopControl` begins to write STOP
(`StopControl`), which blocks until the robot takes it or the connection ends (`WriteStop`;
meanwhile the accept handler of that server waits for `socket_mutex_`), and then polls the
three servers one by one. A server is its port and the script connected to it (`linked`);
inside it is `TcpServer`.

`ScriptSender` is the accept handler, the read handler and the one buffer: `place` and `put`
say where an outstanding read stores and where the buffer ends, since
`async_read_until` of two connections on one `streambuf` overwrite each other. A request is
two pieces, of which only the second ends the line. The answer is one `write_some`: `reply` says
whether it was the whole script, a part of it, or failed, after which the handler returns and the
socket goes. `mixed` is up from the moment when pieces of two robots meet in the buffer, or a
read is out of place, until nothing of that is left; `spoiled` are the robots of which a piece came
in meanwhile. `RequestsAnswered` counts: of the other robots no more go without an answer than
others hung up in the middle of their request. `usedFreed` records a handler that runs after the
destructor.

### PrimaryCommands

Each command is its steps: read the mode, maybe return, send the script, wait, poll. A
poll is a `getPackage` that takes the type (`waiting`), is refused, or gets a package with
what the robot reports at that moment; or one that is too short, after which the caller
reads the members' defaults. The robot executes scripts whenever it likes (`RobotExecutes`), obeys them or
not, and may end its program and lose its power by itself at any time (`RobotChanges`).
`seen` says what the last package a call has read had shown.

### RtsiRecipe

A recipe is its names, types and values; `PackToBytes`, `ParserDataPackage` and
`ParserTypePackage` are the functions of that name on bytes of `Base` values, which keeps
widths, order, sign and overflow. A setter is the list of its writes, a getter the variable
and the type it asks for. The robot obeys what arrives (`Obeys`, external): an output
follows its value if its mask says so. `Offset` and `PackToBytes` are functions by recursion over the
variables, `Power` and `Joined` over the places of a number.

Of the constants, `Base` is 4, 8, ... or 256 (`BaseAssumption`); 256 is the code's, a small one
lets TLC reach overflows. `TypesAssumption`: a robot that knows a variable of a setter gives masks
and bits an unsigned type and levels a `DOUBLE`; it may not know it, or leave out a type, and
every other variable may have any type. `ListsAssumption`: recipes are not empty and robots answer
for all names, if only by a name of no type. `NumbersAssumption`: 8 bytes have room for ten times
a level or a sample, a double being counted in its smallest step. Of the digital outputs the
ones in `AllOutputs` are looked at, four standard ones and two of each other kind.

### Serial line, RS-485, SSH jobs, plugins

`SerialLink` numbers the bytes of a connection; `reads` is the queue of outstanding
asynchronous reads, of which one at most belongs to the call under way (`own`). `Rs485` has
the processes on the robot, and the pattern by which the driver looks for them (`Fits`: a
port's pattern also fits a longer number). `RemoteShell` writes each function as a list of
library calls, each with the resource it takes and what its error path releases
(`ExecuteCommand`, `DownloadFile`, `UploadFile`), followed by the transfer loop; the build
without libssh forks `scp`. `PluginHost` counts references per library and numbers its
mappings, so that a factory of an older mapping is told from a new one.

### Conversions

`WireFormat`, `VersionInfo` and the pose modules are pure operators. Reals are counted in
half steps of the fixed point, so that truncation and rounding differ; angles are quarter
turns and lengths integers up to `Huge`, so that sines and cosines are exact and the branches
of the conversion (gimbal lock, half turns) all occur; NaN and overflow are `NonFinite`. Sums,
products and the squares of a distance may overflow. Eigen adds up all entries of a transform to
test them (`EntriesSum`), so a finite translation may still be refused; `SumPair` is the order in which
the compiler adds three numbers, with packets or without.
`Conversions` makes a specification of them: a behaviour picks arguments out of `Picks`, and
`PoseLaws` and `ValuesConvert` say what the functions make of them. The sets of arguments are
constants: finite poses, poses whose translation may be NaN or infinite, matrices that are no
poses (of finite entries that form no rotation, or with entries that are not finite),
versions of natural numbers, and numbers whose words fit into an `int32_t`. What a larger
number becomes is undefined in C++; it is left out, by `WireAssumption`.

## 3. Runs

Deadlock is checked in the runs of `PrimaryPort` and `RtsiIO`, whose user can always make
another call. The others may really stop: `TcpServer` after `shutdown()`, `ExternalControl`
after the script has exited, `Dashboard` after a null pointer was used, `Driver` when the
driver is gone, `PrimaryCommands` when each thread has made its calls, and the parts of
`MCUtilities` when a job has ended or a value was picked.

| Run | Checks | Shows |
|---|---|---|
| `tcp_oneport` | `OneClient`, `MemorySafe`, `ServesItsClient`, `WriteTargetStable`, `ImplementsClientSlot` | Three robots, one port, a writer, a callback, destruction at any moment, one accept error: the server is a slot for one client, and nothing outlives it. |
| `tcp_twoports` | `ConnectionsServed`, `ShutdownReturns` | Two servers on one thread: nobody starves, although writers block the thread. |
| `external_control` | `OneMotionSource`, `ResultsExplained`, `FeedbackInOrder`, `ScriptEnds`, `TrajectoryEndsAnswered` | Three commands of any kind, two of them STARTs, and their points, in any order on the two sockets, punctual or late: points, results and feedback fit the trajectories, and the loop never gets stuck. |
| `primary_callers` | `RegistryInStep`, `RefusedForAReason` | Two callers and two types against messages, time-outs, outages, connects and disconnects: no caller loses its entry, leaves one, or is refused for nothing. |
| `primary_outages` | `ReportsHaveConnections`, `DisconnectReturns`, `Reconnects` | Two outages, an exception while a socket is set up, split heads and late bodies: the thread comes back, or ends when told to, and reports a loss once. |
| `primary_commands` | `TrueWasSeen`, `CommandsReturn` | Two threads with any command each, an outage, short packages: a command returns, and returns true only after a package said so. |
| `rtsi_session` | `ThreadHasSocket`, `ConnectedIsReal`, `CallsReturn`, `LossNoticed` | Three connects and any number of disconnects, two losses, one refusal at any step, and a flag of the thread that starts as TRUE or FALSE. |
| `rtsi_torn` | `OutputsWereAsked` (violated) | Finding 1. |
| `dashboard_calls` | `NullUseExplained`, `OwnReply`, `AnswersAreCurrent`, `CallsReturn` | Two threads, any three calls, replies in parts, a lost or refused connection: calls that keep to the mutex get their own replies, report and wait for real states, and return. |
| `driver_life` | `InitAllOrNothing`, `StopTrueMeansStopped`, `StopControlReturns`, `ScriptConnects` | A driver from `init()` to its end, in both modes, with a taken port or a missing file, a primary port that is lost, an accept that fails, a robot that runs two scripts. |
| `driver_freed` | `NoUseAfterFree` (violated) | Finding 2. |
| `utilities` | `RequestsAnswered`, `BytesInOrder`, `HandleServesItsLine`, `JobsAreClean`, `JobsEnd`, `LoadedStaysMapped`, `RecipesCarryValues`, `PoseLaws`, `ValuesConvert` | One behaviour per part: the script sender, the serial line, RS-485, SSH jobs, plugins, recipes, and arguments for the conversions. |

Some of these are conjunctions of named parts, which the proofs treat one by one:
`MemorySafe` is `NoReadIntoFreedBuffer`, `CallbackTargetAlive` and `CleanAfterJoin`;
`ServesItsClient` is `AlwaysListening`, `ReadChain` and `OwnFrame`; `ConnectionsServed` is
`ClientAccepted` and `HangUpNoticed`; `RegistryInStep` is `StaysRegistered` and
`NothingLeftBehind`; `ResultsExplained` is `PointsInSync` and `ResultsAccounted`;
`JobsAreClean` is `NothingLeaks` and `TrueMeansWhole`; `RecipesCarryValues` is
`SettersReachRobot` and `GettersReadRobot`.

### Bounds

* `TcpServer`: three connections to one port are the least with a client that is replaced
  while its own predecessor's aborted read is still queued; one frame per connection is
  enough for two frames of different clients to meet in the shared buffer; one accept error.
  Two servers and three connections in the liveness run: the thread can be held up by one
  server's writer while the other server's robot waits. `MaxFrames = 0` there, since frames
  play no part in those properties.
* `ExternalControl`: two STARTs, of 0 or 2 points, with three commands: a trajectory can be
  replaced, cancelled or left between any two of its points and be followed by another one.
  One frame in flight on the reverse socket; the main loop is a queue of its own for what
  comes next. Two move modes stand for five, which the script treats alike.
* `PrimaryPort`: two callers and two types, two calls each: a caller meets its own late
  package and another caller for the same type. A message carries up to two sub-packages,
  also unknown or malformed ones. One message, one outage and two connects; two outages and
  an exception in the run about reconnecting.
* `PrimaryCommands`: two threads with one call each, so that every pair of commands meets;
  the robot starts in any of six states, obeys each script or not and may lose its power at any
  time. A package that is too short stands for every state the robot does not report.
* `RtsiIO`: three connects (one after a failed one after a lost one), two losses, one
  refusal, one setter call. One output is enough for the finding: its level before the
  call is arbitrary.
* `Dashboard`: three calls are the least with a connection, a reply that is read in part and
  a call that meets the rest, or with two calls that overlap on a connection; two polls, so
  that one may fail and the next succeed; one change of the robot's state, one loss. One
  goal and two states; every one of the nine forms of operations, and the calls without the mutex.
* `Driver`: at most one port taken; two scripts in headless mode, so that a second one
  connects while stopControl looks at the first; one fetched script; the primary connection
  is lost once; the network or a failed accept breaks one connection. A script is sent only as
  long as the robot would start it.
* `MCUtilities`: three robots fetch the script: one that leaves a piece behind, one that pays
  for it, and one that must not; two connects and three reads of one or two
  bytes, so that a read outlives its call and a reconnect; two threads, two ports of which
  one's pattern fits the other, three starts; files of 0 chunks, fewer and more than fit an
  int; three loaders on two libraries, four loads; two calls of setters or data packages with
  bytes of two bits, so that masks overflow, and two levels; all 64 rotations by quarter turns
  about three axes, once with each of nine other poses, among them translations that overflow in
  one order of summation only, and when they are squared.

### Fairness

Only liveness runs use `FairSpec`; invariants are checked of every behaviour in the runs
that use `Spec`, and fairness takes no reachable state away in those that use `FairSpec`.

* `TcpServer`: strong fairness of the io thread. It waits for `socket_mutex_`, which a
  control loop takes and frees over and over; the thread runs at the highest FIFO priority
  (`RtUtils`), it is awake and gets the mutex in one of the pauses. Weak fairness of the
  operating system's completions and of the end of a blocking write: the robot reads what it
  is sent or goes away. Nothing is assumed of users, who may hold on to a server for ever.
* `ExternalControl`: weak fairness of the main loop and of the trajectory thread, both
  threads of the robot's controller; a motion ends. Nothing is assumed of the user. The
  liveness properties are stated for behaviours with `late`, which may be punctual too.
* `Driver`: weak fairness of the user's thread inside `init()`, `~Impl` and `stopControl`, of a
  robot that has started to open or close its sockets, and of the servers' thread (what
  `tcp_twoports` shows of it). The blocking write of the STOP ends if the robot's script is in its
  loop, where it reads its commands, or the connection has ended; nothing is assumed of it else. Strong fairness of the end of stopControl's time: its wait is
  finite, so it does not go round its loop for ever. Nothing makes the user call anything.
* `PrimaryCommands`: weak fairness of each thread inside a command, and strong fairness of the
  end of its time, for the same reason. The robot need not do anything.
* `MCUtilities`: weak fairness of the steps of an SSH job: library calls return.
* `PrimaryPort`: weak fairness of the thread, of the arrival of what the robot sent, and of
  `join`, which returns when the thread has ended.
* `Dashboard`: weak fairness of each thread inside a call, and of the robot's answers.
  `asyncReadLine` has no end of its own, so a robot that is silent on an open connection
  holds a call, and the mutex, for ever; `CallsReturn` is about a robot that answers or goes.
  `std::mutex` is not fair: that a waiting call gets it rests on the other thread's calls
  being bounded.
* `RtsiIO`: weak fairness of the receive thread (a robot that is there sends a package each
  cycle; one that is not lets the 1 s time-out pass) and of a call that was begun.

### Findings

1. **A torn set-point** (`rtsi_torn`, `RtsiIOInterface.cpp:127`). Mask and level are two recipe
   values written one after the other; the thread may send the new mask with the old level.
2. **A script sender that is used after its end** (`driver_freed`, `ScriptSender.cpp:21`). The
   handlers of the `ScriptSender` hold a raw `this`. `~Impl` destroys it while the thread of its
   io_context still runs, and only then stops that thread: the cancelled accept handler, or a
   read handler, runs on freed memory.

Other disagreements that the models reach, without a run of their own:

* *External control.* A mode change during the motion to the last point ends a trajectory
  without a result (`external_control.script:438`: the count is lowered when a point is read);
  `doc/API/en/EliteDriver.en.md:139` promises the callback. `ResultsAccounted` names this case
  as its exception. A late point is counted and skipped, and the trajectory is still reported
  as a success (`PointsInSync` is about punctual points).
* *RTSI.* The flag is cleared after the send, so a value that is set in between waits for the
  next call of some setter (`RtsiIOInterface.cpp:658`). No constructor writes
  `is_recv_thread_alive_`, and after a first `connect()` that is refused `isConnected()` reads it; if it
  happens to be TRUE, the client claims a thread that was never started (the exception in
  `ConnectedIsReal`). With `HasOutput = FALSE`: without an output recipe `connect()`
  always fails, because the thread waits for a first data package, although
  `doc/API/en/RTSI.en.md:210` allows it. A setter returns true without an input recipe and for an index
  beyond its mask; `getPayloadCog` and `getJointMode` return memory nobody wrote if the recipe lacks
  the variable. `EndianUtils::unpack` of a one-byte type overwrites its result with an
  uninitialised union in the C++17 build (`EndianUtils.hpp:73-76`); no caller in the SDK
  unpacks one byte that way.
* *Primary port.* A head that arrives in two parts loses the first one (`PrimaryPort.cpp:274`
  takes a partial read for "nothing there"), and the stream is out of step until the reconnect.
  A body that is more than 500 ms late: the length check at line 412 returns before the branch
  for the time-out, and the handler of the read, which refers to locals of the call, is left to
  a later use of the io_context. A `disconnect()` may return connected (line 475): a thread that is past
  the check of its flag connects again and only then ends. `ready_` is never reset
  (`PrimaryPackage.hpp:68`), so with `ReusePackages = TRUE` a second `getPackage` with the same
  object returns at once with old data and leaves its entry (`RegistryInStep` fails);
  `test/PrimaryPortTest.cpp:52` uses one object in a loop. `safetySystemRestart` returns true for a
  package from before the restart (`PrimaryPortInterface.hpp:124`). One `write_some` may take a part of a
  long script, and `sendScript` returns true. The exception callback runs under
  `socket_mutex_` (line 449), so `sendScript` or `disconnect` called from it never returns.
* *Dashboard.* `connect` never returns false (`DashboardClient.cpp:71`), as its header says it
  does: a refused connection goes on to read the greeting, and the read throws.
  `getTaskStatus()`, `taskIsRunning()`, `isTaskSaved()` and `isConfigurationModify()` answer
  without a connection as if the robot had: STOPPED, false, false, true (the result "default").
* *Serial line.* `isConnected()` is true after a `connect()` that failed
  (`SerialCommunication.hpp:117`). A read that timed out writes to variables of a call that is over, and
  takes the bytes of later ones.
* *SSH.* `downloadFile` returns true after a read error, and never returns once the robot has closed
  the channel; the pipe stays open if `fork` fails; a transfer that fails without a callback throws.
* *Poses.* A finite translation whose entries sum up to no double, like (DBL_MAX, DBL_MAX, 0), is an
  argument for the Elite plugin and a `NUMERICAL_ERROR` for the Eigen plugin
  (`EigenPoseAlgebra.cpp:86`), whose test for finiteness is the sum (`PluginsAgree`).
* *Plugins.* A factory stays in the registry after its library was unloaded, and shadows the
  new one after it was loaded again. `SINGULAR_MATRIX` (`doc/API/en/PoseAlgebraBase.en.md:49`) is never
  returned.
* *Versions.* `operator>` needs both a greater major and a greater minor version, so that 2.14
  and 2.13 are each less than the other; the constructor from a string drops what it parsed
  (`doc/API/en/VersionInfo.en.md:32`); of more than four components only two are read.

## 4. Proofs

`tlapm` proves, for every value of the constants that satisfies the named `ASSUME`s:

| Theorem | Says | Assumes |
|---|---|---|
| `TcpServerProofs!TypeCorrect` | `[]TypeOK` | `ServerOfType`, `ListenedType`, `BoundsType`, `NoneIsNew` |
| `...!OneClientAtATime` | `[]OneClient` | same |
| `...!BufferOutlivesReads` | `[]NoReadIntoFreedBuffer` | same |
| `...!CallbackSafe` | `[]CallbackTargetAlive` | same |
| `...!ShutdownIsClean` | `[]CleanAfterJoin` | same |
| `...!MemoryIsSafe` | `[]MemorySafe`, the three together | same |
| `...!WritesGoToOneClient` | `WriteTargetStable` | same |
| `...!ServerServes` | `[]ServesItsClient` | same |
| `...!ServerIsASlot` | `ImplementsClientSlot`, the refinement | same |
| `ExternalControlProofs!OneSource` | `[]OneMotionSource` | the bounds and point counts are numbers, the move modes are none of the script's own |
| `...!ResultsAreExplained` | `[]ResultsExplained` | same |
| `...!FeedbackComesInOrder` | `FeedbackInOrder` | same |
| `PrimaryPortProofs!TypeCorrect` | `[]TypeOK` | the bounds are numbers |
| `...!WaitersStayRegistered` | `[]StaysRegistered` | no package object is passed twice |
| `...!CallsLeaveNothingBehind` | `[]NothingLeftBehind` | same |
| `...!RegistryStaysInStep` | `[]RegistryInStep`, the two together | same |
| `...!RefusalsAreJust` | `RefusedForAReason` | same |
| `...!ReportedOnce` | `[]ReportsHaveConnections` | the bounds are numbers |
| `RtsiIOProofs!TypeCorrect` | `[]TypeOK` | the bounds are numbers |
| `...!SocketForThread` | `[]ThreadHasSocket` | same |
| `...!ConnectedMeansConnected` | `[]ConnectedIsReal` | same |
| `...!RecipesCarry` | `[]RecipesCarryValues` | `BaseAssumption`, `TypesAssumption`, `ListsAssumption`, `NumbersAssumption` (see RtsiRecipe) |
| `PrimaryCommandsProofs!TrueIsEarned` | `[]TrueWasSeen` | nothing |
| `...!PackagesDecide` | `TrueNeedsPackage` (stated there): a command turns true only when a package is delivered to it | same |
| `DashboardProofs!NullUseIsExplained` | `[]NullUseExplained` | `DashboardNames`: goals are states, and no word the client itself returns is one |
| `...!RepliesAreOwn` | `OwnReply` | same |
| `...!AnswersOfTheCall` | `AnswersAreCurrent` | same |
| `DriverProofs!DriverAllOrNothing` | `[]InitAllOrNothing` | nothing |
| `...!StopIsReal` | `[]StopTrueMeansStopped` | the bounds are numbers |
| `UtilitiesProofs!SenderAnswers` | `[]RequestsAnswered` | `ClientsAssumption`: finitely many connections |
| `...!BytesComeInOrder` | `[]BytesInOrder` | `SerialSizes`: sizes are numbers |
| `...!HandlesServe` | `[]HandleServesItsLine` | nothing |
| `...!JobsLeaveNothing` | `[]JobsAreClean` | `ShellSizes`: sizes are numbers |
| `...!LibrariesStay` | `[]LoadedStaysMapped` | `PluginFiles`: finitely many loaders, each with a library |
| `...!PosesObeyLaws` | `[]PoseLaws` | `HugeAssumption`, `NonFiniteAssumption`, `SumPairAssumption`: `Huge` is positive, not finite is no number, and three numbers are added in one of two orders; `PosesAssumption`, `OtherPosesAssumption`, `NoPosesAssumption`: the arguments are of the kinds their names say, and the determinants of the latter do not overflow |
| `...!ConversionsKeepValues` | `[]ValuesConvert` | `VersionsAssumption`: numbers in a version are natural; `RatioAssumption`, `WireAssumption`: the fixed point is positive, numbers fit |

**TcpServer.** None of the properties is inductive alone: a freed buffer is safe because the
read was cancelled, which happened because the socket in `socket_` was the only open one,
which `OneClient` says and the replacement of `socket_` in the accept handler keeps. The
inductive invariant `IInv` is the conjunction of

* `QueueLive`: a completion in the queue belongs to a server that has started to listen; `AcceptLive`: only servers that exist have an accept outstanding;
* `IoShape`: what the thread is doing fits the server and connection it does it for;
* `OrphanHeld`: a server without a user is held by the handler that runs;
* `SocketHome`, `OneClient`, `ReadsOpen`: a socket is where it belongs, open ones are in
  `socket_`, outstanding reads are on open sockets;
* `WriterOwns`: a writer's server exists; `CallbackSet`: a callback that is set or runs has its object;
* `ShutdownOrder`: once the thread is told to stop, no user holds a server.

`ServesItsClient` needs `ServeInv` on top of it. The clients of a server share one read
buffer, so a frame is its sender's own only because an accept is posted once
(`AcceptedOnce`), its socket is nobody's client before its handler runs (`AcceptedFresh`),
and a replaced client's read is aborted before the next one starts (`FramesServed`,
`BufferCurrent`); `Listens` and `Reading` say where the next completion of an accept or a read
comes from. The refinement maps a server to its slot and every step to a step of
`ClientSlot` or a stutter; the steps that serve, replace or hang up on a client use
`OneClient` and `AcceptedFresh`.

**ExternalControl.** `ScriptInv` has a layer for each property. `MotionInv`: the place of the
main loop tells which threads it has stopped, which makes `OneMotionSource` inductive.
`FeedbackInv`: the last feedback frame tells what the trajectory thread is doing.
`ResultInv` and `MovedInv`: a trajectory that has had its result has no points left or was
cancelled, and while points come in time the thread has moved to what it has read.
`StreamInv` is what `PointsInSync` needs: commands and points travel on two sockets, and there
is a numbering of the commands that are on their way under which the points on the other
socket are exactly those the trajectories still have to read, one after the other. It is
stated with two functions, `no` and `off`, that count trajectories and points up to each
command; they are witnesses, so that no sum over a sequence is needed.

**PrimaryPort.** `StaysRegistered` needs the converse, `RegistryHome`: every entry is the
current object of a caller that is inside `getPackage`, for the type it asked for, not
parsed yet. With both, an erase after a time-out can only hit the caller's own entry.
`ReportsHaveConnections` needs `Unreported`: while the loop believes in its connection,
that connection (or the exception instead of one) is still to be accounted for.

**PrimaryCommands.** `CommandInv` adds `WaitersRead` (the thread the registry knows for a type
is at a step that reads that type) and `NoResultYet`, so that a package is always taken for
the question that was asked.

**RtsiIO.** `ThreadHasSocket` rests on `HandShakeAlone` (no thread runs during a
hand-shake), `FirstAwaited` (`connect()` waits while the thread makes its first receive),
`LoopHasSocket` (a thread whose flag is up has a socket) and `FlagHasThread` (a flag that is up has a
running thread, or was never written and no thread started). The thread itself drops the socket when a receive times out, and is saved
by the exception handler, which lowers the flag before the loop looks again.

**RtsiRecipe.** `RtsiIOProofs` ends with the recipes, a specification (`RecipeSpec`) made of the
actions that `MCUtilities` composes. The values of a number's places and the bytes of a recipe are
defined by recursion, and what they are needs an induction; the library's induction theorems take an
operator as a parameter, which the provers cannot give them. So induction is done on the set
of the numbers at which a statement holds (`CountingUp`, from `WFMin`), and `RecursionDefines`
says that a recursion up to a bound defines a function. *Numbers.* The bytes of a number,
shifted in one after the other, give its remainder by a power of `Base` (`PackJoined`); so a
number that its type can hold comes back from its bytes (`PackUnpack`), and any other becomes
one that does (`Converts`). *Recipes.* A variable stands in a package at the sum of the sizes
before it (`Offsets`), and stays there while the ones behind it are written (`PackageIs`), so
`ParserDataPackage` reads each one from where `PackToBytes` put it (`RoundTrip`).
The inductive invariant `RecipeInv` then says: a recipe is unset or well formed, with values
its types can hold (`RecipesAre`); the output recipe holds the last sample (`Holds`); if the last
setter returned true, the values in the input recipe command what it asked for, or, once
sent, the robot does it (`LastObeyed`); and a mask that is set belongs to an output some
setter was called for, so that an output that does something does too (`MasksTouched`,
`OutputsTouched`).

**Driver.** `InitAllOrNothing` follows from `LifeInv`: which servers, which state of the
primary port, which address in the script and which thread there are at each step of
`init()` and `~Impl`. `StopTrueMeansStopped` needs `StopInv`. `stopControl` asks the three
ports one after another, so what it saw of the first may be wrong when it asks the last; it
is right all the same because the reverse connection of the script that was sent the STOP
does not end before that script has left its loop or was cut off (`StopUnderWay`). That in turn rests on the
order in which the script opens its sockets (`ReverseLink`, `SocketsOfProgram`), on the ports
written into it (`ScriptNamesPorts`), and on connections being accepted in the order of their
scripts (`ScriptNumbers`, `ReverseLink`).

**Dashboard.** `DashInv` is the types of the calls with `Calm` and `InStep`. `Calm`: as long as no
call without the mutex overlapped with another, the socket is used by the holder of the
mutex or by a call that is alone, and is not null. `InStep`: as long as nothing has put the
connection out of step, all that is on its way in either direction belongs to the one call
that awaits a reply, and tells of a state the robot was in during that call. Both follow the
ghost `taint`, which names the events that end the promise.

**Utilities.** `UtilitiesProofs` gives each part a specification of its own, of the actions
that `MCUtilities` composes; the sender's also has the end of the driver that `Driver` adds.
`SenderInv`: without mixed pieces the shared buffer holds only first pieces, of which one at most is
of a robot that is in the middle of its request; every other one was left by a robot that went, and
the ignored requests and these together are no more than the robots that went (`InTurn`).
`SerialInv`: an outstanding read of the running call continues what was returned, and
without a time-out nothing lies between. `Rs485Inv`: two starts that overlap know it
(`StartsKnowEachOther`), and one that does not finds the process it launched. `ShellInv`:
the error path of the next library call releases everything the calls before it took
(`ErrorPathsRelease`, for each of the three functions), and an upgrade goes on to its commands
only with the whole file moved. `PluginInv`: references are counted (`RefsCounted`), and code
in the registry or in an instance is of a mapping that was there.

**Conversions.** These two theorems are about functions, and the work is in the lemmas.
*Poses.* A matrix passes the plugins' check exactly if it is an isometry: finite, with the last row of the
identity, and with columns that are perpendicular unit vectors of determinant 1
(`ValidIsIsometry`). Over integers such columns have entries -1, 0 and 1 (`UnitEntries`), so
the angles the conversion back reads off are quarter turns, and both plugins' choice gives the
same matrix again, at a pitch of a quarter turn as well (`RoundTripElite`, `RoundTripEigen`).
Products and inverses of isometries are isometries as long as nothing overflows
(`ProductPose`, `TransposedPose`), which gives the group laws: `InverseUndoes`, `FrameUndoes`,
`SumLaws`, `DistanceLaws`. `Agreement` goes through every operation of the two plugins, with
their errors, and `OverflowRefused` through those for which Eigen's sum overflows; `Refusal` through
those that take a matrix that is no pose.
*Messages.* A message is a list of parts at their places in the buffer; `Extended` and
`StayPlaced` say that a part stays where it is when the next one is written, and
`CommandRead` and `ReadAgain` that the script reads each part from where it is
(`PayloadReaches`, `ForceReaches`, `JointsReach`, `PointReaches`).
*Versions.* The text of four numbers has three dots, so its edges can be counted
(`EdgeCounts`) and the tokens between them are the four numbers (`VersionTokens`).
`WireFormat` and `VersionInfo` are written with functions and filters where a fold would have
served TLC as well, because the provers cannot instantiate what the library says of folds.

Only model-checked: all liveness (`ConnectionsServed`, `ShutdownReturns`, `ScriptEnds`,
`TrajectoryEndsAnswered`, `DisconnectReturns`, `Reconnects`, `CommandsReturn`, `CallsReturn`,
`LossNoticed`, `StopControlReturns`, `ScriptConnects`, `JobsEnd`: out of the prover's reach).

## 5. Not modelled, and the plan

Not modelled: the servo set-points of the control script (lines 60-107 and 219-318:
interpolation and extrapolation of reals on the controller's own motion functions), `Log` and
`Logger` (output), `RtUtils` and `EliteException` (system calls and texts), the computation of the
kinematics plugin (done by KDL), and the decoding of packages no command reads
(`RobotConfPackage`). In the modelled parts: time as such (a time-out is a choice), rounding of
doubles in the pose plugins, user code inside callbacks other than its duration, and the
data race on the recipe pointers when `connect()` is called while setters run (the model
replaces a recipe in one step).

Next, in order:

1. Abstract specifications: a request/reply channel (dashboard), and a cell that is sent as it
   was set (the RTSI setters, which the code does not implement, see finding 1).
2. `Driver` on the full `TcpServer` instead of its servers' summary, at the size TLC allows.
