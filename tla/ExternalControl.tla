-------------------------- MODULE ExternalControl --------------------------
(***************************************************************************)
(* The control script that the driver runs on the robot                     *)
(* (source/resources/external_control.script) and the commands the driver   *)
(* sends it (ReverseInterface.cpp, TrajectoryInterface.cpp).                *)
(*                                                                          *)
(* The script's main loop reads command frames from the reverse socket and  *)
(* switches the motion mode; a move thread (servoj, pose, speedj, speedl)   *)
(* or the trajectory thread moves the robot meanwhile.  Trajectory points   *)
(* arrive on a second socket, so a command and the points that belong to it *)
(* are not ordered with one another.  start_thread, stop_thread and         *)
(* join_thread are the controller's: a stopped thread ends where it waits   *)
(* (for a point, or for a motion to end), and does not run after the join.  *)
(***************************************************************************)
EXTENDS Integers, Sequences

CONSTANTS
    MoveModes,        \* the modes served by a move thread
    Lengths,          \* point counts a START may announce
    MaxCommands,      \* bound: command frames the user writes
    MaxStarts,        \* bound: START frames among them
    MaxInFlight       \* bound: command frames on their way at a time

ASSUME ModesAreNew ==
    MoveModes \cap {"none", "uninitialized", "idle", "trajectory", "freedrive", "stopped"} = {}
ASSUME BoundsAreNat == /\ Lengths \subseteq Nat /\ MaxCommands \in Nat
                       /\ MaxStarts \in Nat /\ MaxInFlight \in Nat

VARIABLES
    \* the sockets
    rev,        \* reverse socket: command frames on their way to the robot
    pts,        \* trajectory socket: points on their way to the robot
    open,       \* the script has its sockets open
    \* the driver and its user
    late,       \* FALSE: every point comes before the read of it times out;
                \* TRUE: it may also come later, or never
    driverUp,   \* the driver object exists
    commands,   \* command frames written so far
    uploads,    \* START frames written so far
    left,       \* points still to be written for the last of them
    \* the script's main loop
    pc, cmd, then, mode, readTimeout,
    \* what the main loop shares with its threads
    num,        \* trajectory_point_num
    total,      \* trajectory_total_points
    active,     \* trajectory_active_point_index
    traj,       \* the trajectory thread: "none", "run" or "move"
    move,       \* the move thread: "none" or the mode it runs
    freedrive,  \* freedrive_mode() is on
    \* history
    starts,     \* trajectories begun
    target,     \* the point the trajectory thread is moving to
    moved,      \* points of the current trajectory that were moved to
    answers,    \* RESULT frames sent for each trajectory
    cancels,    \* CANCEL commands handled for each trajectory
    feedback    \* the last feedback frame sent

driverVars == <<late, driverUp, commands, uploads, left>>
trajVars   == <<num, total, active, traj, starts, target, moved, answers, cancels, feedback>>
motionVars == <<move, freedrive>>
loopVars   == <<pc, cmd, then, mode, readTimeout>>
vars == <<rev, pts, open, driverVars, loopVars, trajVars, motionVars>>

\* A command frame: writeJointCommand, writeTrajectoryControlAction,
\* writeFreedrive and stopControl fill its eight words.
Frame(m, act, n, timeout) == [mode |-> m, act |-> act, n |-> n, timeout |-> timeout]
Timeouts == {"finite", "forever"}
Commands ==
    {Frame(m, "noop", 0, t) : m \in MoveModes \cup {"idle"}, t \in Timeouts}
    \cup {Frame("trajectory", "start", n, t) : n \in Lengths, t \in Timeouts}
    \cup {Frame("trajectory", a, 0, t) : a \in {"noop", "cancel"}, t \in Timeouts}
    \cup {Frame("freedrive", a, 0, t) : a \in {"start", "noop", "end"}, t \in Timeouts}
    \cup {Frame("stopped", "noop", 0, "forever")}

Message(type, idx) == [type |-> type, idx |-> idx, traj |-> starts]
NoPoint == <<0, 0>>
Trajectories == 0..MaxStarts

Init ==
    /\ rev = <<>> /\ pts = <<>> /\ open = TRUE
    /\ late \in BOOLEAN /\ driverUp = TRUE /\ commands = 0 /\ uploads = 0 /\ left = 0
    /\ pc = "top" /\ then = "top" /\ mode = "uninitialized" /\ readTimeout = "forever"
    /\ cmd = Frame("idle", "noop", 0, "forever")
    /\ num = 0 /\ total = 0 /\ active = -1 /\ traj = "none"
    /\ move = "none" /\ freedrive = FALSE
    /\ starts = 0 /\ target = NoPoint /\ moved = 0
    /\ answers = [k \in Trajectories |-> 0]
    /\ cancels = [k \in Trajectories |-> 0]
    /\ feedback = [type |-> "none", idx |-> -1, traj |-> 0]

----------------------------------------------------------------------------
(* The driver's user.  A START is followed by its points, all of them before *)
(* the next START; other commands may be written in between.                *)

WriteCommand(c) ==
    /\ driverUp /\ open /\ commands < MaxCommands /\ Len(rev) < MaxInFlight
    /\ c.act = "start" /\ c.mode = "trajectory" => left = 0 /\ uploads < MaxStarts
    /\ commands' = commands + 1
    /\ rev' = Append(rev, c)
    /\ IF c.mode = "trajectory" /\ c.act = "start"
       THEN uploads' = uploads + 1 /\ left' = c.n
       ELSE UNCHANGED <<uploads, left>>
    /\ UNCHANGED <<pts, open, late, driverUp, loopVars, trajVars, motionVars>>

\* A point, known by its trajectory and how many points still follow it.
WriteTrajectoryPoint ==
    /\ driverUp /\ open /\ left > 0
    /\ pts' = Append(pts, <<uploads, left - 1>>)
    /\ left' = left - 1
    /\ UNCHANGED <<rev, open, late, driverUp, commands, uploads, loopVars, trajVars, motionVars>>

CloseDriver ==
    /\ driverUp
    /\ driverUp' = FALSE
    /\ UNCHANGED <<rev, pts, open, late, commands, uploads, left, loopVars, trajVars, motionVars>>

----------------------------------------------------------------------------
(* The main loop.                                                           *)

ReadCommand ==
    /\ pc = "top" /\ mode # "stopped" /\ rev # <<>>
    /\ cmd' = Head(rev)
    /\ rev' = Tail(rev)
    /\ readTimeout' = Head(rev).timeout
    /\ pc' = IF mode # Head(rev).mode THEN "leave" ELSE "update"
    /\ UNCHANGED <<pts, open, driverVars, then, mode, trajVars, motionVars>>

\* The frame is short: the timeout of the last command expired, or the driver
\* closed the socket.
ReadTimesOut ==
    /\ pc = "top" /\ mode # "stopped" /\ rev = <<>>
    /\ readTimeout = "finite" \/ ~driverUp
    /\ mode' = "stopped"
    /\ UNCHANGED <<rev, pts, open, driverVars, pc, cmd, then, readTimeout, trajVars, motionVars>>

\* sendTrajectoryFeedback with a RESULT.
SendResult(type, idx) ==
    /\ feedback' = Message(type, idx)
    /\ answers' = [answers EXCEPT ![starts] = @ + 1]

\* Faulty form: the thread is not stopped.
StopTrajectoryFaulty == UNCHANGED traj

\* stop_thread and join_thread of the trajectory thread.
StopTrajectory == traj' = "none"

\* Leaving trajectory mode: a trajectory with points left is reported as
\* cancelled, and its points are read off the socket.
LeaveTrajectory ==
    /\ pc = "leave" /\ mode = "trajectory"
    /\ StopTrajectory
    /\ then' = "enter"
    /\ IF num > 0
       THEN /\ SendResult("canceled", active)
            /\ pc' = "clear"
       ELSE /\ pc' = "enter"
            /\ UNCHANGED <<feedback, answers>>
    /\ UNCHANGED <<rev, pts, open, driverVars, cmd, mode, readTimeout, num, total, active,
                   starts, target, moved, cancels, motionVars>>

LeaveFreedrive ==
    /\ pc = "leave" /\ mode = "freedrive"
    /\ freedrive' = FALSE
    /\ pc' = "enter"
    /\ UNCHANGED <<rev, pts, open, driverVars, cmd, then, mode, readTimeout, trajVars, move>>

\* Faulty form: the move thread of the old mode is left running.
LeaveMotionFaulty ==
    /\ pc = "leave" /\ mode \notin {"trajectory", "freedrive"}
    /\ pc' = "enter"
    /\ UNCHANGED <<rev, pts, open, driverVars, cmd, then, mode, readTimeout, trajVars, motionVars>>

LeaveMotion ==
    /\ pc = "leave" /\ mode \notin {"trajectory", "freedrive"}
    /\ move' = "none"
    /\ pc' = "enter"
    /\ UNCHANGED <<rev, pts, open, driverVars, cmd, then, mode, readTimeout, trajVars, freedrive>>

EnterMode ==
    /\ pc = "enter"
    /\ mode' = cmd.mode
    /\ move' = CASE cmd.mode \in MoveModes   -> cmd.mode
                 [] cmd.mode = "trajectory"  -> "none"
                 [] OTHER                    -> move
    /\ pc' = "update"
    /\ UNCHANGED <<rev, pts, open, driverVars, cmd, then, readTimeout, trajVars, freedrive>>

\* New set points for a move thread, a NOOP, an idle or a stopped command.
UpdateNothing ==
    /\ pc = "update"
    /\ mode \in {"trajectory", "freedrive"} => cmd.act = "noop"
    /\ pc' = "top"
    /\ UNCHANGED <<rev, pts, open, driverVars, cmd, then, mode, readTimeout, trajVars, motionVars>>

UpdateFreedrive ==
    /\ pc = "update" /\ mode = "freedrive" /\ cmd.act \in {"start", "end"}
    /\ freedrive' = (cmd.act = "start")
    /\ pc' = "top"
    /\ UNCHANGED <<rev, pts, open, driverVars, cmd, then, mode, readTimeout, trajVars, move>>

UpdateCancel ==
    /\ pc = "update" /\ mode = "trajectory" /\ cmd.act = "cancel"
    /\ StopTrajectory
    /\ SendResult("canceled", active)
    /\ cancels' = [cancels EXCEPT ![starts] = @ + 1]
    /\ pc' = "clear" /\ then' = "top"
    /\ UNCHANGED <<rev, pts, open, driverVars, cmd, mode, readTimeout, num, total, active,
                   starts, target, moved, motionVars>>

UpdateStart ==
    /\ pc = "update" /\ mode = "trajectory" /\ cmd.act = "start"
    /\ StopTrajectory
    /\ pc' = "clear" /\ then' = "begin"
    /\ UNCHANGED <<rev, pts, open, driverVars, cmd, mode, readTimeout, num, total, active,
                   starts, target, moved, answers, cancels, feedback, motionVars>>

BeginTrajectory ==
    /\ pc = "begin"
    /\ num' = cmd.n /\ total' = cmd.n /\ active' = -1
    /\ traj' = "run"
    /\ starts' = starts + 1 /\ moved' = 0
    /\ pc' = "top"
    /\ UNCHANGED <<rev, pts, open, driverVars, cmd, then, mode, readTimeout, target, answers,
                   cancels, feedback, motionVars>>

\* Faulty form: the points of the old trajectory stay on the socket.
ClearPointFaulty ==
    /\ pc = "clear" /\ num > 0 /\ pts # <<>>
    /\ num' = num - 1
    /\ UNCHANGED <<rev, pts, open, driverVars, loopVars, total, active, traj, starts, target,
                   moved, answers, cancels, feedback, motionVars>>

\* trajectoryClearPoints reads as many points as were not executed; each read
\* returns a point, or times out.
ClearPoint ==
    /\ pc = "clear" /\ num > 0 /\ pts # <<>>
    /\ pts' = Tail(pts)
    /\ num' = num - 1
    /\ UNCHANGED <<rev, open, driverVars, loopVars, total, active, traj, starts, target,
                   moved, answers, cancels, feedback, motionVars>>

\* Faulty form: the read waits for points that were never written.
ClearTimesOutFaulty == FALSE /\ UNCHANGED vars

ClearTimesOut ==
    /\ pc = "clear" /\ num > 0 /\ pts = <<>> /\ late
    /\ num' = num - 1
    /\ UNCHANGED <<rev, pts, open, driverVars, loopVars, total, active, traj, starts, target,
                   moved, answers, cancels, feedback, motionVars>>

ClearEnds ==
    /\ pc = "clear" /\ num <= 0
    /\ pc' = then
    /\ UNCHANGED <<rev, pts, open, driverVars, cmd, then, mode, readTimeout, trajVars, motionVars>>

\* Every thread is stopped, then the sockets are closed.
Exit ==
    /\ pc = "top" /\ mode = "stopped"
    /\ StopTrajectory
    /\ move' = "none" /\ open' = FALSE /\ pc' = "exited"
    /\ UNCHANGED <<rev, pts, driverVars, cmd, then, mode, readTimeout, num, total, active,
                   starts, target, moved, answers, cancels, feedback, freedrive>>

----------------------------------------------------------------------------
(* The trajectory thread.                                                   *)

ReadPoint ==
    /\ traj = "run" /\ num > 0 /\ pts # <<>>
    /\ pts' = Tail(pts)
    /\ target' = Head(pts)
    /\ num' = num - 1
    /\ active' = total - num
    /\ feedback' = Message("active", total - num)
    /\ traj' = "move"
    /\ UNCHANGED <<rev, open, driverVars, loopVars, total, starts, moved, answers, cancels,
                   motionVars>>

\* Faulty form: the thread waits for the missing point.
PointTimesOutFaulty == FALSE /\ UNCHANGED vars

\* No point within half a second: the loop counts it and goes on.
PointTimesOut ==
    /\ traj = "run" /\ num > 0 /\ pts = <<>> /\ late
    /\ num' = num - 1
    /\ UNCHANGED <<rev, pts, open, driverVars, loopVars, total, active, traj, starts, target,
                   moved, answers, cancels, feedback, motionVars>>

MoveEnds ==
    /\ traj = "move"
    /\ feedback' = Message("done", active)
    /\ moved' = moved + 1
    /\ traj' = "run"
    /\ UNCHANGED <<rev, pts, open, driverVars, loopVars, num, total, active, starts, target,
                   answers, cancels, motionVars>>

TrajectoryEnds ==
    /\ traj = "run" /\ num <= 0
    /\ SendResult("success", total)
    /\ traj' = "none"
    /\ UNCHANGED <<rev, pts, open, driverVars, loopVars, num, total, active, starts, target,
                   moved, cancels, motionVars>>

MainLoop ==
    \/ ReadCommand \/ ReadTimesOut \/ LeaveTrajectory \/ LeaveFreedrive \/ LeaveMotion
    \/ EnterMode \/ UpdateNothing \/ UpdateFreedrive \/ UpdateCancel \/ UpdateStart
    \/ BeginTrajectory \/ ClearPoint \/ ClearTimesOut \/ ClearEnds \/ Exit

TrajectoryThread == ReadPoint \/ PointTimesOut \/ MoveEnds \/ TrajectoryEnds

User == (\E c \in Commands : WriteCommand(c)) \/ WriteTrajectoryPoint \/ CloseDriver

Next == MainLoop \/ TrajectoryThread \/ User

Spec == Init /\ [][Next]_vars

\* The script's loop and its thread run; a motion ends.  Nothing is assumed of
\* the user.
Fairness == WF_vars(MainLoop) /\ WF_vars(TrajectoryThread)

FairSpec == Spec /\ Fairness

----------------------------------------------------------------------------
(* Properties.                                                              *)

\* One thing moves the robot at a time: a move thread only in its own mode, the
\* trajectory thread only in trajectory mode, freedrive only in freedrive mode
\* (or once the read timed out, until the script exits); and nothing moves it by
\* a thread of the script when the script has closed its sockets.
OneMotionSource ==
    /\ move # "none" => mode \in {move, "stopped"} /\ traj = "none" /\ ~freedrive
    /\ traj # "none" => mode \in {"trajectory", "stopped"} /\ ~freedrive
    /\ freedrive => mode \in {"freedrive", "stopped"}
    /\ pc = "exited" => traj = "none" /\ move = "none" /\ ~open

\* While points come in time, the point the thread moves to as number i of
\* trajectory k is the i-th point the user wrote for its k-th START (no point is
\* lost to, or left over from, another trajectory when one is replaced, cancelled
\* or interrupted), and a trajectory reported as a success ("Successful execution",
\* DataType.hpp:106) moved to every point it announced.
PointsInSync ==
    ~late => /\ traj = "move" => target = <<starts, total - 1 - active>>
             /\ feedback.type = "success" /\ feedback.traj = starts => moved = total

\* "When the execution is completed, the callback function registered here will be
\* triggered" (doc/API/en/EliteDriver.en.md:139): no more results than a trajectory's
\* end and its CANCELs account for, and once the robot runs another mode the last
\* trajectory has had one.  The exception: the change of mode met it when its last
\* point had been read, and its last motion or its RESULT was still to come (or when
\* the missing points had been counted off).
ResultsAccounted ==
    /\ \A k \in Trajectories : answers[k] <= 1 + cancels[k]
    /\ pc = "top" /\ mode \notin {"trajectory", "stopped"} /\ starts > 0 /\ answers[starts] = 0
         => late \/ active = total - 1

\* Every trajectory moves to its own points, and the results the user is given are
\* those of what happened: PointsInSync and ResultsAccounted.
ResultsExplained == PointsInSync /\ ResultsAccounted

\* Feedback frames tell of one trajectory after the other, and within one of its
\* points in order: active, done, and nothing after the result but a result.
FeedbackInOrder ==
    [][feedback' # feedback =>
         \/ feedback'.traj > feedback.traj
         \/ /\ feedback'.traj = feedback.traj
            /\ CASE feedback'.type = "active" ->
                      feedback.type \in {"none", "done"} /\ feedback'.idx > feedback.idx
                 [] feedback'.type = "done" ->
                      feedback.type = "active" /\ feedback'.idx = feedback.idx
                 [] feedback'.type = "success" -> feedback.type \in {"none", "done"}
                 [] OTHER -> TRUE]_vars

\* The script ends when it must: with a finite timeout, a user that goes silent
\* stops the robot unless another command arrives (the note on the command timeout
\* in Let-Robot-Move.en.md), and the frame of stopControl() makes the script close
\* its sockets whatever is running.
ScriptEnds ==
    /\ (late /\ rev = <<>> /\ readTimeout = "finite" /\ pc = "top")
         ~> (pc = "exited" \/ rev # <<>> \/ readTimeout = "forever")
    /\ (late /\ \E i \in 1..Len(rev) : rev[i].mode = "stopped") ~> ~open

\* A trajectory that is left alone (no mode change, no other START) ends with a
\* result, however many of its points arrive too late.
TrajectoryEndsAnswered ==
    \A k \in 1..MaxStarts :
        late /\ [](starts = k => mode = "trajectory") /\ <>[](starts = k) => <>(answers[k] > 0)
=============================================================================
