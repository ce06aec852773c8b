----------------------- MODULE ExternalControlProofs -----------------------
(***************************************************************************)
(* Proofs about ExternalControl for any move modes, trajectory lengths and  *)
(* numbers of commands, on their way at a time or in all.                   *)
(*                                                                         *)
(* The invariant has three layers: which thread may run at each place of the *)
(* main loop (MotionInv), what the last feedback frame says of the           *)
(* trajectory thread (FeedbackInv, ResultInv), and which points are still on *)
(* the socket, told from the STARTs that are still on their way (StreamInv). *)
(***************************************************************************)
EXTENDS ExternalControl, SequenceTheorems, TLAPS

Modes == MoveModes \cup {"uninitialized", "idle", "trajectory", "freedrive", "stopped"}
Places == {"top", "leave", "enter", "update", "clear", "begin", "exited"}
Kinds == {"none", "active", "done", "success", "canceled"}

\* Every variable stays in its type.
TypeInv ==
    /\ rev \in Seq(Commands) /\ pts \in Seq(Nat \X Nat)
    /\ open \in BOOLEAN /\ late \in BOOLEAN
    /\ uploads \in 0..MaxStarts /\ left \in Nat
    /\ pc \in Places /\ then \in Places /\ mode \in Modes /\ cmd \in Commands
    /\ num \in Nat /\ total \in Nat /\ active \in Int
    /\ traj \in {"none", "run", "move"} /\ move \in MoveModes \cup {"none"}
    /\ freedrive \in BOOLEAN
    /\ starts \in Nat /\ moved \in Nat
    /\ answers \in [Trajectories -> Nat] /\ cancels \in [Trajectories -> Nat]
    /\ feedback \in [type : Kinds, idx : Int, traj : Nat]

\* Where the main loop is tells what it has stopped, and why it is there.
MotionInv ==
    /\ OneMotionSource
    /\ pc \in {"enter", "clear", "begin"} => traj = "none"
    /\ pc = "enter" => move = "none" /\ ~freedrive
    /\ pc \in {"clear", "begin"} => mode = "trajectory"
    /\ pc = "leave" => mode # "stopped"
    /\ pc = "update" => mode = cmd.mode
    /\ pc = "clear" => then \in {"enter", "begin", "top"}
    /\ pc = "clear" /\ then = "top" => cmd.act = "cancel"

IsStart(c) == c.mode = "trajectory" /\ c.act = "start"

\* The main loop holds a START whose trajectory has not begun.
Coming == pc \notin {"top", "exited"} /\ IsStart(cmd)

\* The loop is about to begin the next trajectory, whose points are next on the
\* socket.
BeginsNext ==
    (pc = "clear" /\ then = "begin") \/ pc = "begin" => IsStart(cmd) /\ (pc = "begin" => num = 0)

\* The last feedback frame tells what the trajectory thread is doing.
FeedbackInv ==
    /\ feedback.traj <= starts
    /\ starts = 0 => traj = "none"
    /\ traj = "move" => feedback = Message("active", active) /\ active < total - num
    /\ traj = "run" /\ feedback.traj = starts =>
           feedback.type = "done" /\ feedback.idx < total - num

\* A trajectory that has had its result has no points left, or was cancelled.
ResultInv ==
    /\ \A k \in Trajectories : /\ answers[k] <= 1 + cancels[k]
                               /\ k > starts => answers[k] = 0
    /\ (traj # "none" \/ (num > 0 /\ pc # "clear")) => answers[starts] <= cancels[starts]

\* While points come in time, the thread has moved to what it has read.
MovedInv ==
    ~late => /\ traj = "run" => moved = total - num
                                /\ (num = 0 => active = total - 1)
             /\ traj = "move" => /\ moved = total - num - 1 /\ active = total - num - 1
                                 /\ target = <<starts, num>>
             /\ feedback.type = "success" /\ feedback.traj = starts => moved = total
             /\ starts > 0 /\ answers[starts] = 0 /\ traj = "none"
                  /\ pc \notin {"begin", "exited"} /\ ~(pc = "clear" /\ then = "begin")
                => active = total - 1

\* no[i] is the number of the last trajectory announced up to the i-th command on
\* its way, where 0 stands for the commands that were read.
Numbered(no) ==
    /\ no[0] = starts + (IF Coming THEN 1 ELSE 0)
    /\ no[Len(rev)] = uploads
    /\ \A i \in 1..Len(rev) : no[i] = no[i - 1] + (IF IsStart(rev[i]) THEN 1 ELSE 0)

\* off[i] is how many points the socket still owes to these trajectories.
Measured(off) ==
    /\ off[0] = num + (IF Coming THEN cmd.n ELSE 0)
    /\ off[Len(rev)] = Len(pts) + left
    /\ \A i \in 1..Len(rev) : off[i] = off[i - 1] + (IF IsStart(rev[i]) THEN rev[i].n ELSE 0)
    /\ \A i, j \in 0..Len(rev) : i <= j => off[i] <= off[j]

\* The points that are not written yet are the last ones of the last trajectory.
LeftLast(no, off) ==
    /\ \A i \in 0..Len(rev) : IF no[i] = uploads THEN off[i] = Len(pts) + left
                                                 ELSE off[i] <= Len(pts)
    /\ Coming => (IF no[0] = uploads THEN num <= Len(pts) ELSE TRUE)

\* The points on the socket are those of the trajectories, one after the other.
Streamed(no, off) ==
    \A x \in 1..Len(pts) :
        /\ x <= num => pts[x] = <<starts, num - x>>
        /\ num < x /\ x <= off[0] => pts[x] = <<starts + 1, off[0] - x>>
        /\ \A i \in 1..Len(rev) :
               off[i - 1] < x /\ x <= off[i] => pts[x] = <<no[i], off[i] - x>>

StreamInv ==
    \E no \in [0..Len(rev) -> 0..uploads] :
        /\ Numbered(no)
        /\ ~late => \E off \in [0..Len(rev) -> 0..Len(pts) + left] :
                       Measured(off) /\ LeftLast(no, off) /\ Streamed(no, off)

ScriptInv == /\ TypeInv /\ MotionInv /\ BeginsNext /\ FeedbackInv /\ ResultInv /\ MovedInv
             /\ StreamInv

----------------------------------------------------------------------------
\* What a command frame carries.
LEMMA CommandShape ==
    ASSUME NEW c \in Commands
    PROVE  /\ c.mode \in Modes /\ c.n \in Nat
           /\ c.mode = "trajectory" => c.act \in {"start", "noop", "cancel"}
           /\ c.mode = "freedrive" => c.act \in {"start", "noop", "end"}
BY BoundsAreNat DEF Commands, Frame, Modes, Timeouts

\* The names of the modes differ.
LEMMA ModeNames ==
    /\ "none" \notin MoveModes /\ "uninitialized" \notin MoveModes /\ "idle" \notin MoveModes
    /\ "trajectory" \notin MoveModes /\ "freedrive" \notin MoveModes /\ "stopped" \notin MoveModes
BY ModesAreNew

\* The parts of the invariant, for citation.
LEMMA ScriptParts ==
    ScriptInv => /\ TypeInv /\ MotionInv /\ BeginsNext /\ FeedbackInv /\ ResultInv /\ MovedInv
                 /\ StreamInv
BY DEF ScriptInv

\* Types.
LEMMA TypeStep == TypeInv /\ [Next]_vars => TypeInv'
<1> SUFFICES ASSUME TypeInv, [Next]_vars PROVE TypeInv'
  OBVIOUS
<1> USE DEF TypeInv, driverVars, trajVars, motionVars, loopVars, Places, Modes
<1>1. ASSUME NEW c \in Commands, WriteCommand(c) PROVE TypeInv'
  <2>1. rev' \in Seq(Commands)
    BY <1>1, AppendProperties DEF WriteCommand
  <2>2. uploads' \in 0..MaxStarts /\ left' \in Nat
    BY <1>1, CommandShape, BoundsAreNat DEF WriteCommand
  <2> QED BY <1>1, <2>1, <2>2 DEF WriteCommand
<1>2. CASE WriteTrajectoryPoint
  BY <1>2, BoundsAreNat DEF WriteTrajectoryPoint
<1>3. CASE CloseDriver
  BY <1>3 DEF CloseDriver
<1>4. CASE ReadCommand
  BY <1>4 DEF ReadCommand
<1>5. CASE ReadTimesOut
  BY <1>5 DEF ReadTimesOut
<1>6. ASSUME NEW i \in Int, SendResult("canceled", i) \/ SendResult("success", i)
      PROVE  /\ answers' \in [Trajectories -> Nat]
             /\ feedback' \in [type : Kinds, idx : Int, traj : Nat]
  <2>1. feedback' \in [type : Kinds, idx : Int, traj : Nat]
    BY <1>6 DEF SendResult, Message, Kinds
  <2>2. answers' = [answers EXCEPT ![starts] = @ + 1]
    BY <1>6 DEF SendResult
  <2>3. ASSUME NEW k \in Trajectories PROVE answers'[k] \in Nat
    BY <2>2
  <2> QED BY <2>1, <2>2, <2>3
<1>7. CASE LeaveTrajectory
  BY <1>6, <1>7 DEF LeaveTrajectory, StopTrajectory
<1>8. CASE LeaveFreedrive \/ LeaveMotion
  BY <1>8 DEF LeaveFreedrive, LeaveMotion
<1>9. CASE EnterMode
  BY <1>9, CommandShape, ModeNames DEF EnterMode
<1>10. CASE UpdateNothing \/ UpdateFreedrive \/ UpdateStart
  BY <1>10 DEF UpdateNothing, UpdateFreedrive, UpdateStart, StopTrajectory
<1>11. CASE UpdateCancel
  <2>0. cancels' = [cancels EXCEPT ![starts] = @ + 1]
    BY <1>11 DEF UpdateCancel
  <2>1. cancels' \in [Trajectories -> Nat]
    <3>1. ASSUME NEW k \in Trajectories PROVE cancels'[k] \in Nat
      BY <2>0
    <3> QED BY <2>0, <3>1
  <2> QED BY <1>6, <1>11, <2>1 DEF UpdateCancel, StopTrajectory
<1>12. CASE BeginTrajectory
  BY <1>12, CommandShape DEF BeginTrajectory
<1>13. CASE ClearPoint \/ ClearTimesOut \/ ClearEnds
  <2>1. pts # <<>> => Tail(pts) \in Seq(Nat \X Nat)
    BY HeadTailProperties
  <2>2. num > 0 => num - 1 \in Nat
    OBVIOUS
  <2>3. CASE ClearPoint
    BY <2>1, <2>2, <2>3 DEF ClearPoint
  <2>4. CASE ClearTimesOut
    BY <2>2, <2>4 DEF ClearTimesOut
  <2>5. CASE ClearEnds
    BY <2>5 DEF ClearEnds
  <2> QED BY <1>13, <2>3, <2>4, <2>5
<1>14. CASE Exit
  BY <1>14 DEF Exit, StopTrajectory
<1>15. CASE ReadPoint
  <2>1. pts # <<>> => Tail(pts) \in Seq(Nat \X Nat)
    BY HeadTailProperties
  <2> QED BY <1>15, <2>1 DEF ReadPoint, Message, Kinds
<1>16. CASE PointTimesOut
  BY <1>16 DEF PointTimesOut
<1>19. CASE MoveEnds
  BY <1>19 DEF MoveEnds, Message, Kinds
<1>17. CASE TrajectoryEnds
  BY <1>6, <1>17 DEF TrajectoryEnds
<1>18. CASE UNCHANGED vars
  BY <1>18 DEF vars
<1> QED BY <1>1, <1>2, <1>3, <1>4, <1>5, <1>7, <1>8, <1>9, <1>10, <1>11, <1>12, <1>13, <1>14, <1>15,
           <1>16, <1>17, <1>18, <1>19 DEF Next, MainLoop, TrajectoryThread, User

\* Threads.
LEMMA MotionStep == TypeInv /\ MotionInv /\ [Next]_vars => MotionInv'
<1> SUFFICES ASSUME TypeInv, MotionInv, [Next]_vars PROVE MotionInv'
  OBVIOUS
<1> USE ModeNames DEF TypeInv, MotionInv, OneMotionSource, driverVars, trajVars, motionVars, loopVars,
                      Places, Modes
<1>1. CASE User
  <2>1. UNCHANGED <<open, loopVars, trajVars, motionVars>>
    BY <1>1 DEF User, WriteCommand, WriteTrajectoryPoint, CloseDriver
  <2> QED BY <2>1
<1>2. CASE ReadCommand
  BY <1>2 DEF ReadCommand
<1>3. CASE ReadTimesOut
  BY <1>3 DEF ReadTimesOut
<1>4. CASE LeaveTrajectory
  BY <1>4 DEF LeaveTrajectory, StopTrajectory
<1>5. CASE LeaveFreedrive \/ LeaveMotion
  BY <1>5 DEF LeaveFreedrive, LeaveMotion
<1>6. CASE EnterMode
  BY <1>6, CommandShape DEF EnterMode
<1>7. CASE UpdateNothing \/ UpdateFreedrive
  BY <1>7 DEF UpdateNothing, UpdateFreedrive
<1>8. CASE UpdateCancel \/ UpdateStart
  BY <1>8 DEF UpdateCancel, UpdateStart, StopTrajectory
<1>9. CASE BeginTrajectory
  BY <1>9 DEF BeginTrajectory
<1>10. CASE ClearPoint \/ ClearTimesOut \/ ClearEnds
  <2>1. CASE ClearPoint
    BY <2>1 DEF ClearPoint
  <2>2. CASE ClearTimesOut
    BY <2>2 DEF ClearTimesOut
  <2>3. CASE ClearEnds
    BY <2>3 DEF ClearEnds
  <2> QED BY <1>10, <2>1, <2>2, <2>3
<1>11. CASE Exit
  BY <1>11 DEF Exit, StopTrajectory
<1>12. CASE TrajectoryThread
  BY <1>12, SMTT(30) DEF TrajectoryThread, ReadPoint, PointTimesOut, MoveEnds, TrajectoryEnds
<1>13. CASE UNCHANGED vars
  BY <1>13 DEF vars
<1> QED BY <1>1, <1>2, <1>3, <1>4, <1>5, <1>6, <1>7, <1>8, <1>9, <1>10, <1>11, <1>12, <1>13
        DEF Next, MainLoop

\* The loop holds a START when it is about to begin a trajectory.
LEMMA BeginsStep == TypeInv /\ MotionInv /\ BeginsNext /\ [Next]_vars => BeginsNext'
<1> SUFFICES ASSUME TypeInv, MotionInv, BeginsNext, [Next]_vars PROVE BeginsNext'
  OBVIOUS
<1> USE DEF TypeInv, MotionInv, BeginsNext, driverVars, trajVars, motionVars, loopVars, IsStart
<1>1. CASE User \/ UNCHANGED vars
  <2>1. UNCHANGED <<pc, then, cmd, num>>
    BY <1>1 DEF User, WriteCommand, WriteTrajectoryPoint, CloseDriver, vars
  <2> QED BY <2>1
<1>2. CASE TrajectoryThread
  BY <1>2 DEF TrajectoryThread, ReadPoint, PointTimesOut, MoveEnds, TrajectoryEnds
<1>3. CASE ClearPoint \/ ClearTimesOut \/ ClearEnds
  BY <1>3, SMTT(30) DEF ClearPoint, ClearTimesOut, ClearEnds
<1>4. CASE UpdateStart
  BY <1>4 DEF UpdateStart
<1>5. CASE MainLoop
  BY <1>3, <1>4, <1>5
     DEF MainLoop, ReadCommand, ReadTimesOut, LeaveTrajectory, LeaveFreedrive, LeaveMotion,
         EnterMode, UpdateNothing, UpdateFreedrive, UpdateCancel, BeginTrajectory, Exit
<1> QED BY <1>1, <1>2, <1>5 DEF Next

\* Feedback.
LEMMA FeedbackStep == TypeInv /\ FeedbackInv /\ [Next]_vars => FeedbackInv'
<1> SUFFICES ASSUME TypeInv, FeedbackInv, [Next]_vars PROVE FeedbackInv'
  OBVIOUS
<1> USE DEF TypeInv, FeedbackInv, driverVars, trajVars, motionVars, loopVars, Message
<1>1. CASE UNCHANGED trajVars
  BY <1>1
<1>2. CASE LeaveTrajectory \/ UpdateCancel \/ UpdateStart \/ Exit
  BY <1>2 DEF LeaveTrajectory, UpdateCancel, UpdateStart, Exit, StopTrajectory, SendResult
<1>3. CASE BeginTrajectory
  BY <1>3, CommandShape DEF BeginTrajectory
<1>4. CASE ClearPoint \/ ClearTimesOut
  BY <1>4 DEF ClearPoint, ClearTimesOut
<1>5. CASE ReadPoint
  BY <1>5 DEF ReadPoint
<1>6. CASE PointTimesOut
  BY <1>6 DEF PointTimesOut
<1>7. CASE MoveEnds
  BY <1>7 DEF MoveEnds
<1>8. CASE TrajectoryEnds
  BY <1>8 DEF TrajectoryEnds, SendResult
<1>9. CASE MainLoop
  BY <1>1, <1>2, <1>3, <1>4, <1>9
     DEF MainLoop, ReadCommand, ReadTimesOut, LeaveFreedrive, LeaveMotion, EnterMode,
         UpdateNothing, UpdateFreedrive, ClearEnds
<1>10. CASE User \/ UNCHANGED vars
  BY <1>1, <1>10 DEF User, WriteCommand, WriteTrajectoryPoint, CloseDriver, vars
<1> QED BY <1>5, <1>6, <1>7, <1>8, <1>9, <1>10 DEF Next, TrajectoryThread

\* Results.
LEMMA ResultStep ==
    ASSUME TypeInv, MotionInv, BeginsNext, ResultInv, [Next]_vars,
           starts \in Trajectories, starts' \in Trajectories
    PROVE  ResultInv'
<1> USE DEF TypeInv, ResultInv, driverVars, trajVars, motionVars, loopVars
<1>1. ASSUME UNCHANGED <<answers, cancels, starts>>,
             traj' # "none" => traj # "none",
             num' > 0 /\ pc' # "clear" => traj # "none" \/ (num > 0 /\ pc # "clear")
      PROVE  ResultInv'
  BY <1>1
<1>2. CASE UNCHANGED trajVars /\ (pc = "clear" => pc' = "clear" \/ num <= 0)
  BY <1>1, <1>2
<1>3. ASSUME NEW t, NEW i, SendResult(t, i)
      PROVE  \A k \in Trajectories : answers'[k] = answers[k] + (IF k = starts THEN 1 ELSE 0)
  BY <1>3, SMTT(30) DEF SendResult
<1>4. CASE LeaveTrajectory
  <2>1. CASE num > 0
    <3>1. /\ \A k \in Trajectories : answers'[k] = answers[k] + (IF k = starts THEN 1 ELSE 0)
          /\ pc' = "clear" /\ traj' = "none" /\ UNCHANGED <<starts, cancels, num>>
      BY <1>3, <1>4, <2>1 DEF LeaveTrajectory, StopTrajectory
    <3>2. answers[starts] <= cancels[starts]
      BY <1>4, <2>1 DEF LeaveTrajectory
    <3> QED BY <3>1, <3>2
  <2>2. CASE ~(num > 0)
    BY <1>1, <1>4, <2>2 DEF LeaveTrajectory, StopTrajectory
  <2> QED BY <2>1, <2>2
<1>5. CASE UpdateCancel
  <2>1. /\ \A k \in Trajectories : answers'[k] = answers[k] + (IF k = starts THEN 1 ELSE 0)
        /\ cancels' = [cancels EXCEPT ![starts] = @ + 1]
        /\ pc' = "clear" /\ traj' = "none" /\ UNCHANGED <<starts, num>>
    BY <1>3, <1>5 DEF UpdateCancel, StopTrajectory
  <2>2. \A k \in Trajectories : cancels'[k] = cancels[k] + (IF k = starts THEN 1 ELSE 0)
    BY <2>1
  <2> QED BY <2>1, <2>2
<1>6. CASE UpdateStart \/ Exit
  BY <1>1, <1>6 DEF UpdateStart, Exit, StopTrajectory
<1>7. CASE BeginTrajectory
  <2>1. starts' = starts + 1 /\ UNCHANGED <<answers, cancels>>
    BY <1>7 DEF BeginTrajectory
  <2>2. answers[starts + 1] = 0 /\ cancels[starts + 1] \in Nat
    BY <2>1
  <2> QED BY <2>1, <2>2
<1>8. CASE ClearPoint \/ ClearTimesOut
  BY <1>1, <1>8 DEF ClearPoint, ClearTimesOut
<1>9. CASE ReadPoint \/ PointTimesOut \/ MoveEnds
  BY <1>1, <1>9 DEF ReadPoint, PointTimesOut, MoveEnds
<1>10. CASE TrajectoryEnds
  <2>1. /\ \A k \in Trajectories : answers'[k] = answers[k] + (IF k = starts THEN 1 ELSE 0)
        /\ traj' = "none" /\ UNCHANGED <<starts, cancels, num>> /\ num <= 0 /\ traj # "none"
    BY <1>3, <1>10 DEF TrajectoryEnds
  <2> QED BY <2>1
<1>11. CASE MainLoop
  BY <1>2, <1>4, <1>5, <1>6, <1>7, <1>8, <1>11
     DEF MainLoop, ReadCommand, ReadTimesOut, LeaveFreedrive, LeaveMotion, EnterMode,
         UpdateNothing, UpdateFreedrive, ClearEnds
<1>12. CASE User \/ UNCHANGED vars
  BY <1>2, <1>12 DEF User, WriteCommand, WriteTrajectoryPoint, CloseDriver, vars
<1> QED BY <1>9, <1>10, <1>11, <1>12 DEF Next, TrajectoryThread

\* Motions.
LEMMA MovedStep ==
    ASSUME TypeInv, MotionInv, BeginsNext, FeedbackInv, ResultInv, MovedInv, [Next]_vars,
           starts \in Trajectories, starts' \in Trajectories,
           ~late /\ num > 0 /\ pts # <<>> => Head(pts) = <<starts, num - 1>>
    PROVE  MovedInv'
<1> USE DEF TypeInv, MovedInv, driverVars, trajVars, motionVars, loopVars
<1>0. late' = late
  BY DEF Next, MainLoop, TrajectoryThread, User, vars, ReadCommand, ReadTimesOut, LeaveTrajectory,
         LeaveFreedrive, LeaveMotion, EnterMode, UpdateNothing, UpdateFreedrive, UpdateCancel,
         UpdateStart, BeginTrajectory, ClearPoint, ClearTimesOut, ClearEnds, Exit, ReadPoint,
         PointTimesOut, MoveEnds, TrajectoryEnds, WriteCommand, WriteTrajectoryPoint, CloseDriver
<1>1. CASE late
  BY <1>0, <1>1
<1> SUFFICES ASSUME ~late PROVE MovedInv'
  BY <1>1
<1> USE <1>0
<1>2. CASE UNCHANGED trajVars /\ pc' \notin {"begin", "exited"} /\ pc' # "clear"
           /\ pc \notin {"begin", "exited"} /\ ~(pc = "clear" /\ then = "begin")
  BY <1>2
<1>3. CASE LeaveTrajectory
  <2>1. CASE num > 0
    <3>1. /\ answers' = [answers EXCEPT ![starts] = @ + 1] /\ traj' = "none"
          /\ feedback'.type = "canceled" /\ starts' = starts
      BY <1>3, <2>1 DEF LeaveTrajectory, StopTrajectory, SendResult, Message
    <3>2. answers'[starts] # 0
      BY <3>1
    <3> QED BY <3>1, <3>2
  <2>2. CASE num = 0
    <3>1. /\ traj' = "none" /\ pc = "leave"
          /\ UNCHANGED <<starts, moved, total, active, answers, feedback>>
      BY <1>3, <2>2 DEF LeaveTrajectory, StopTrajectory
    <3> QED BY <2>2, <3>1
  <2> QED BY <2>1, <2>2
<1>4. CASE UpdateCancel
  <2>1. /\ answers' = [answers EXCEPT ![starts] = @ + 1] /\ traj' = "none"
        /\ feedback'.type = "canceled" /\ starts' = starts
    BY <1>4 DEF UpdateCancel, StopTrajectory, SendResult, Message
  <2>2. answers'[starts] # 0
    BY <2>1
  <2> QED BY <2>1, <2>2
<1>5. CASE UpdateStart \/ Exit
  BY <1>5 DEF UpdateStart, Exit, StopTrajectory
<1>6. CASE BeginTrajectory
  <2>1. /\ starts' = starts + 1 /\ num' = cmd.n /\ total' = cmd.n /\ active' = -1 /\ traj' = "run"
        /\ moved' = 0 /\ feedback' = feedback /\ cmd.n \in Nat
    BY <1>6, CommandShape DEF BeginTrajectory
  <2>2. feedback.traj # starts'
    BY <2>1 DEF FeedbackInv
  <2> QED BY <2>1, <2>2
<1>7. CASE ClearPoint \/ ClearTimesOut
  BY <1>7 DEF ClearPoint, ClearTimesOut, MotionInv
<1>8. CASE ClearEnds
  BY <1>8 DEF ClearEnds, MotionInv
<1>9. CASE ReadPoint
  BY <1>9 DEF ReadPoint, Message
<1>10. CASE PointTimesOut
  BY <1>10 DEF PointTimesOut
<1>11. CASE MoveEnds
  BY <1>11 DEF MoveEnds, Message
<1>12. CASE TrajectoryEnds
  <2>1. /\ answers' = [answers EXCEPT ![starts] = @ + 1] /\ traj' = "none"
        /\ UNCHANGED <<starts, moved, total>> /\ traj = "run" /\ num = 0
    BY <1>12 DEF TrajectoryEnds, SendResult
  <2>2. answers'[starts] # 0
    BY <2>1
  <2> QED BY <2>1, <2>2
<1>13. CASE UNCHANGED <<trajVars, pc, then>>
  BY <1>13
<1>14. CASE MainLoop
  BY <1>2, <1>3, <1>4, <1>5, <1>6, <1>7, <1>8, <1>13, <1>14
     DEF MainLoop, ReadCommand, ReadTimesOut, LeaveFreedrive, LeaveMotion, EnterMode,
         UpdateNothing, UpdateFreedrive
<1>15. CASE User \/ UNCHANGED vars
  BY <1>13, <1>15 DEF User, WriteCommand, WriteTrajectoryPoint, CloseDriver, vars
<1> QED BY <1>9, <1>10, <1>11, <1>12, <1>14, <1>15 DEF Next, TrajectoryThread

----------------------------------------------------------------------------
(* The points on the socket.  Each lemma is for the steps that change one of *)
(* the ends of the two streams.                                             *)

\* The next point on the socket is the next one of the current trajectory.
LEMMA HeadPoint ==
    ASSUME TypeInv, StreamInv, ~late, num > 0, pts # <<>>
    PROVE  Head(pts) = <<starts, num - 1>>
<1>1. 1 \in 1..Len(pts) /\ Head(pts) = pts[1]
  BY EmptySeq, LenProperties DEF TypeInv
<1>2. pts[1] = <<starts, num - 1>>
  BY <1>1 DEF TypeInv, StreamInv, Streamed
<1> QED BY <1>1, <1>2

\* No more trajectories begin than were announced.
LEMMA StartsBounded ==
    ASSUME TypeInv, StreamInv
    PROVE  starts \in Trajectories /\ starts <= uploads /\ (Coming => starts < uploads)
<1>1. PICK no \in [0..Len(rev) -> 0..uploads] : Numbered(no)
  BY DEF StreamInv
<1>2. Len(rev) \in Nat /\ 0 \in 0..Len(rev)
  BY LenProperties DEF TypeInv
<1>3. no[0] \in 0..uploads
  BY <1>2
<1> QED BY <1>1, <1>3, BoundsAreNat DEF TypeInv, Numbered, Trajectories

\* Steps that move neither stream.
LEMMA StreamQuiet ==
    ASSUME TypeInv, StreamInv, UNCHANGED <<rev, pts, late, uploads, left, num, starts>>,
           Coming' = Coming, Coming => cmd'.n = cmd.n
    PROVE  StreamInv'
<1>1. ASSUME NEW no PROVE Numbered(no)' <=> Numbered(no)
  BY DEF Numbered
<1>2. ASSUME NEW no, NEW off
      PROVE  /\ Measured(off)' <=> Measured(off)
             /\ LeftLast(no, off)' <=> LeftLast(no, off)
             /\ Streamed(no, off)' <=> Streamed(no, off)
  BY DEF Measured, LeftLast, Streamed
<1> QED BY <1>1, <1>2 DEF StreamInv

\* The main loop reads a command.
LEMMA StreamReadCommand ==
    ASSUME TypeInv, StreamInv, ReadCommand
    PROVE  StreamInv'
<1>1. /\ pc = "top" /\ pc' \in {"leave", "update"} /\ rev # <<>> /\ cmd' = Head(rev)
      /\ rev' = Tail(rev) /\ UNCHANGED <<pts, late, uploads, left, num, starts>>
  BY DEF ReadCommand, driverVars, trajVars
<1>2. /\ Len(rev) \in Nat /\ Len(rev) > 0 /\ Len(rev') = Len(rev) - 1 /\ cmd' = rev[1]
      /\ \A i \in 1..Len(rev') : rev'[i] = rev[i + 1]
      /\ Len(pts) \in Nat /\ cmd' \in Commands
  BY <1>1, HeadTailProperties, EmptySeq, LenProperties DEF TypeInv
<1>3. ~Coming /\ (Coming' <=> IsStart(rev[1]))
  BY <1>1, <1>2 DEF Coming
<1>4. PICK no \in [0..Len(rev) -> 0..uploads] :
        /\ Numbered(no)
        /\ ~late => \E off \in [0..Len(rev) -> 0..Len(pts) + left] :
                       Measured(off) /\ LeftLast(no, off) /\ Streamed(no, off)
  BY DEF StreamInv
<1> PICK no2 : no2 = [i \in 0..Len(rev') |-> no[i + 1]]
  OBVIOUS
<1>5. no2 \in [0..Len(rev') -> 0..uploads]
  BY <1>2
<1>6. Numbered(no2)'
  <2>1. \A i \in 1..Len(rev) : no[i] = no[i - 1] + (IF IsStart(rev[i]) THEN 1 ELSE 0)
    BY <1>4 DEF Numbered
  <2>2. no[0] = starts /\ no[Len(rev)] = uploads
    BY <1>3, <1>4 DEF Numbered, TypeInv
  <2>3. no2[0] = starts + (IF Coming' THEN 1 ELSE 0)
    <3>1. 0 \in 0..Len(rev') /\ 1 \in 1..Len(rev) /\ 1 - 1 = 0 /\ 0 + 1 = 1
      BY <1>2
    <3>2. no2[0] = no[1] /\ no[1] = no[0] + (IF IsStart(rev[1]) THEN 1 ELSE 0)
      BY <2>1, <3>1
    <3> QED BY <1>3, <2>2, <3>2
  <2>4. no2[Len(rev')] = uploads
    BY <1>2, <2>2
  <2>5. ASSUME NEW i \in 1..Len(rev')
        PROVE  no2[i] = no2[i - 1] + (IF IsStart(rev'[i]) THEN 1 ELSE 0)
    <3>1. /\ i + 1 \in 1..Len(rev) /\ i \in 0..Len(rev') /\ i - 1 \in 0..Len(rev')
          /\ (i + 1) - 1 = i /\ (i - 1) + 1 = i
      BY <1>2
    <3>2. no[i + 1] = no[i] + (IF IsStart(rev[i + 1]) THEN 1 ELSE 0)
      BY <2>1, <3>1
    <3>3. no2[i] = no[i + 1] /\ no2[i - 1] = no[i] /\ rev'[i] = rev[i + 1]
      BY <1>2, <3>1
    <3> QED BY <3>2, <3>3
  <2> QED BY <1>1, <2>3, <2>4, <2>5 DEF Numbered, IsStart
<1>7. ASSUME ~late
      PROVE  \E off \in [0..Len(rev') -> 0..Len(pts) + left] :
                 Measured(off)' /\ LeftLast(no2, off)' /\ Streamed(no2, off)'
  <2>1. PICK off \in [0..Len(rev) -> 0..Len(pts) + left] :
               Measured(off) /\ LeftLast(no, off) /\ Streamed(no, off)
    BY <1>4, <1>7
  <2> PICK off2 : off2 = [i \in 0..Len(rev') |-> off[i + 1]]
    OBVIOUS
  <2>2. off2 \in [0..Len(rev') -> 0..Len(pts) + left]
    BY <1>2
  <2>3. /\ off[0] = num /\ off[Len(rev)] = Len(pts) + left
        /\ \A i \in 1..Len(rev) : off[i] = off[i - 1] + (IF IsStart(rev[i]) THEN rev[i].n ELSE 0)
    BY <1>3, <2>1 DEF Measured, TypeInv
  <2>4. \A i \in 1..Len(rev') : /\ i + 1 \in 1..Len(rev) /\ i \in 0..Len(rev')
                                /\ i - 1 \in 0..Len(rev') /\ (i + 1) - 1 = i
    BY <1>2
  <2>5. /\ off2[0] = off[1] /\ no2[0] = no[1] /\ 0 \in 0..Len(rev') /\ 1 \in 1..Len(rev)
        /\ \A i \in 1..Len(rev') : /\ off2[i] = off[i + 1] /\ off2[i - 1] = off[i]
                                   /\ no2[i] = no[i + 1]
    BY <1>2, <2>4
  <2>6. Measured(off2)'
    <3>1. off2[0] = num + (IF Coming' THEN cmd'.n ELSE 0)
      BY <1>2, <1>3, <2>3, <2>5
    <3>2. off2[Len(rev')] = Len(pts) + left
      BY <1>2, <2>3
    <3>3. \A i \in 1..Len(rev') :
             off2[i] = off2[i - 1] + (IF IsStart(rev'[i]) THEN rev'[i].n ELSE 0)
      <4> TAKE i \in 1..Len(rev')
      <4>1. off[i + 1] = off[(i + 1) - 1] + (IF IsStart(rev[i + 1]) THEN rev[i + 1].n ELSE 0)
        BY <2>3, <2>4
      <4> QED BY <1>2, <2>4, <2>5, <4>1
    <3>4. ASSUME NEW i \in 0..Len(rev'), NEW j \in 0..Len(rev'), i <= j PROVE off2[i] <= off2[j]
      <4>1. i + 1 \in 0..Len(rev) /\ j + 1 \in 0..Len(rev) /\ i + 1 <= j + 1
        BY <1>2, <3>4
      <4>2. off[i + 1] <= off[j + 1]
        BY <2>1, <4>1 DEF Measured
      <4> QED BY <4>2
    <3> QED BY <1>1, <3>1, <3>2, <3>3, <3>4 DEF Measured, IsStart
  <2>7. LeftLast(no2, off2)'
    <3>1. ASSUME NEW i \in 0..Len(rev')
          PROVE  IF no2[i] = uploads THEN off2[i] = Len(pts) + left ELSE off2[i] <= Len(pts)
      <4>1. i + 1 \in 0..Len(rev)
        BY <1>2
      <4> QED BY <2>1, <4>1 DEF LeftLast
    <3>2. Coming' /\ no2[0] = uploads => num <= Len(pts)
      <4>1. no[0] = starts /\ no[1] = no[0] + (IF IsStart(rev[1]) THEN 1 ELSE 0)
        BY <1>3, <1>4, <2>5 DEF Numbered, TypeInv
      <4>2. Coming' /\ no2[0] = uploads => no[0] # uploads
        BY <1>3, <2>5, <4>1 DEF TypeInv
      <4>3. no[0] # uploads => off[0] <= Len(pts)
        BY <2>1, <1>2 DEF LeftLast
      <4> QED BY <2>3, <4>2, <4>3
    <3> QED BY <1>1, <3>1, <3>2 DEF LeftLast
  <2>8. Streamed(no2, off2)'
    <3> SUFFICES ASSUME NEW x \in 1..Len(pts)
                 PROVE  /\ x <= num => pts[x] = <<starts, num - x>>
                        /\ num < x /\ x <= off2[0] => pts[x] = <<starts + 1, off2[0] - x>>
                        /\ \A i \in 1..Len(rev') : off2[i - 1] < x /\ x <= off2[i] =>
                                                      pts[x] = <<no2[i], off2[i] - x>>
      BY <1>1 DEF Streamed
    <3>1. x <= num => pts[x] = <<starts, num - x>>
      BY <2>1 DEF Streamed
    <3>2. ASSUME NEW i \in 1..Len(rev'), off2[i - 1] < x, x <= off2[i]
          PROVE  pts[x] = <<no2[i], off2[i] - x>>
      BY <2>1, <2>4, <2>5, <3>2 DEF Streamed
    <3>3. ASSUME num < x, x <= off2[0] PROVE pts[x] = <<starts + 1, off2[0] - x>>
      <4>1. off[1 - 1] < x /\ x <= off[1]
        BY <2>3, <2>5, <3>3
      <4>2. pts[x] = <<no[1], off[1] - x>>
        BY <2>1, <2>5, <4>1 DEF Streamed
      <4>3. IsStart(rev[1])
        BY <2>3, <2>5, <3>3 DEF TypeInv
      <4>4. no[1] = starts + 1
        BY <1>3, <1>4, <2>5, <4>3, SMTT(30) DEF Numbered, TypeInv
      <4> QED BY <2>5, <4>2, <4>4
    <3> QED BY <3>1, <3>2, <3>3
  <2> QED BY <2>2, <2>6, <2>7, <2>8
<1> QED BY <1>1, <1>5, <1>6, <1>7 DEF StreamInv

\* The user writes a command.
LEMMA StreamWriteCommand ==
    ASSUME TypeInv, StreamInv, NEW c \in Commands, WriteCommand(c)
    PROVE  StreamInv'
<1>1. /\ rev' = Append(rev, c)
      /\ IsStart(c) => left = 0 /\ uploads' = uploads + 1 /\ left' = c.n
      /\ ~IsStart(c) => uploads' = uploads /\ left' = left
      /\ UNCHANGED <<pts, late, pc, cmd, num, starts>>
  BY DEF WriteCommand, IsStart, loopVars, trajVars
<1>2. /\ Len(rev) \in Nat /\ Len(rev') = Len(rev) + 1 /\ rev'[Len(rev) + 1] = c
      /\ \A i \in 1..Len(rev) : rev'[i] = rev[i]
      /\ Len(pts) \in Nat /\ c.n \in Nat
  BY <1>1, AppendProperties, LenProperties, CommandShape DEF TypeInv
<1>3. Coming' = Coming
  BY <1>1 DEF Coming
<1>4. PICK no \in [0..Len(rev) -> 0..uploads] :
        /\ Numbered(no)
        /\ ~late => \E off \in [0..Len(rev) -> 0..Len(pts) + left] :
                       Measured(off) /\ LeftLast(no, off) /\ Streamed(no, off)
  BY DEF StreamInv
<1> PICK no2 : no2 = [i \in 0..Len(rev') |-> IF i <= Len(rev) THEN no[i] ELSE uploads']
  OBVIOUS
<1>5. /\ \A i \in 0..Len(rev) : no2[i] = no[i] /\ no[i] \in 0..uploads /\ i \in 0..Len(rev')
      /\ no2[Len(rev) + 1] = uploads'
  BY <1>2
<1>6. no2 \in [0..Len(rev') -> 0..uploads']
  BY <1>1, <1>2 DEF TypeInv
<1>7. \A i \in 1..Len(rev') : \/ i \in 1..Len(rev) /\ i - 1 \in 0..Len(rev) /\ i \in 0..Len(rev)
                              \/ i = Len(rev) + 1 /\ i - 1 = Len(rev) /\ Len(rev) \in 0..Len(rev)
  BY <1>2
<1>8. Numbered(no2)'
  <2>1. no2[0] = starts + (IF Coming THEN 1 ELSE 0)
    BY <1>2, <1>4, <1>5 DEF Numbered
  <2>2. ASSUME NEW i \in 1..Len(rev')
        PROVE  no2[i] = no2[i - 1] + (IF IsStart(rev'[i]) THEN 1 ELSE 0)
    <3>1. CASE i \in 1..Len(rev)
      BY <1>2, <1>4, <1>5, <1>7, <3>1 DEF Numbered
    <3>2. CASE i = Len(rev) + 1
      <4>1. no2[i - 1] = uploads
        BY <1>4, <1>5, <1>7, <3>2 DEF Numbered
      <4> QED BY <1>1, <1>2, <1>5, <3>2, <4>1 DEF TypeInv
    <3> QED BY <1>7, <3>1, <3>2
  <2> QED BY <1>1, <1>2, <1>3, <1>5, <2>1, <2>2 DEF Numbered, IsStart
<1>9. ASSUME ~late
      PROVE  \E off \in [0..Len(rev') -> 0..Len(pts) + left'] :
                 Measured(off)' /\ LeftLast(no2, off)' /\ Streamed(no2, off)'
  <2>1. PICK off \in [0..Len(rev) -> 0..Len(pts) + left] :
               Measured(off) /\ LeftLast(no, off) /\ Streamed(no, off)
    BY <1>4, <1>9
  <2> PICK off2 : off2 = [i \in 0..Len(rev') |-> IF i <= Len(rev) THEN off[i] ELSE Len(pts) + left']
    OBVIOUS
  <2>2. left' \in Nat /\ left <= left' /\ left \in Nat
    BY <1>1, <1>2 DEF TypeInv
  <2>3. /\ \A i \in 0..Len(rev) : off2[i] = off[i] /\ off[i] \in 0..Len(pts) + left
        /\ off2[Len(rev) + 1] = Len(pts) + left'
    BY <1>2
  <2>4. off2 \in [0..Len(rev') -> 0..Len(pts) + left']
    BY <1>2, <2>2
  <2>5. off[Len(rev)] = Len(pts) + left
    BY <2>1 DEF Measured
  <2>6. Measured(off2)'
    <3>1. off2[0] = num + (IF Coming THEN cmd.n ELSE 0)
      BY <1>2, <2>1, <2>3 DEF Measured
    <3>2. ASSUME NEW i \in 1..Len(rev')
          PROVE  off2[i] = off2[i - 1] + (IF IsStart(rev'[i]) THEN rev'[i].n ELSE 0)
      <4>1. CASE i \in 1..Len(rev)
        BY <1>2, <1>7, <2>1, <2>3, <4>1 DEF Measured
      <4>2. CASE i = Len(rev) + 1
        <5>1. off2[i - 1] = Len(pts) + left
          BY <1>7, <2>3, <2>5, <4>2
        <5> QED BY <1>1, <1>2, <2>2, <2>3, <4>2, <5>1
      <4> QED BY <1>7, <4>1, <4>2
    <3>3. ASSUME NEW i \in 0..Len(rev'), NEW j \in 0..Len(rev'), i <= j PROVE off2[i] <= off2[j]
      <4>1. CASE j \in 0..Len(rev)
        <5>1. i \in 0..Len(rev)
          BY <1>2, <3>3, <4>1
        <5> QED BY <2>1, <2>3, <3>3, <4>1, <5>1 DEF Measured
      <4>2. CASE j = Len(rev) + 1
        BY <1>2, <2>2, <2>3, <2>4, <4>2
      <4> QED BY <1>2, <4>1, <4>2
    <3> QED BY <1>1, <1>2, <1>3, <2>3, <3>1, <3>2, <3>3 DEF Measured, IsStart
  <2>7. LeftLast(no2, off2)'
    <3>1. ASSUME NEW i \in 0..Len(rev')
          PROVE  IF no2[i] = uploads' THEN off2[i] = Len(pts) + left' ELSE off2[i] <= Len(pts)
      <4>1. CASE i \in 0..Len(rev)
        <5>1. IF no[i] = uploads THEN off[i] = Len(pts) + left ELSE off[i] <= Len(pts)
          BY <2>1, <4>1 DEF LeftLast
        <5>2. CASE IsStart(c)
          BY <1>1, <1>2, <1>5, <2>3, <4>1, <5>2, SMTT(30) DEF TypeInv
        <5>3. CASE ~IsStart(c)
          BY <1>1, <1>5, <2>3, <4>1, <5>1, <5>3
        <5> QED BY <5>2, <5>3
      <4>2. CASE i = Len(rev) + 1
        BY <1>5, <2>3, <4>2
      <4> QED BY <1>2, <4>1, <4>2
    <3>2. Coming /\ no2[0] = uploads' => num <= Len(pts)
      <4>1. no2[0] = no[0] /\ no[0] \in 0..uploads
        BY <1>2, <1>5
      <4>2. Coming /\ no[0] = uploads => num <= Len(pts)
        BY <2>1 DEF LeftLast
      <4> QED BY <1>1, <4>1, <4>2 DEF TypeInv
    <3> QED BY <1>1, <1>3, <3>1, <3>2 DEF LeftLast
  <2>8. Streamed(no2, off2)'
    <3> SUFFICES ASSUME NEW x \in 1..Len(pts)
                 PROVE  /\ x <= num => pts[x] = <<starts, num - x>>
                        /\ num < x /\ x <= off2[0] => pts[x] = <<starts + 1, off2[0] - x>>
                        /\ \A i \in 1..Len(rev') : off2[i - 1] < x /\ x <= off2[i] =>
                                                      pts[x] = <<no2[i], off2[i] - x>>
      BY <1>1 DEF Streamed
    <3>1. /\ x <= num => pts[x] = <<starts, num - x>>
          /\ num < x /\ x <= off2[0] => pts[x] = <<starts + 1, off2[0] - x>>
      BY <1>2, <2>1, <2>3 DEF Streamed
    <3>2. ASSUME NEW i \in 1..Len(rev'), off2[i - 1] < x, x <= off2[i]
          PROVE  pts[x] = <<no2[i], off2[i] - x>>
      <4>1. CASE i \in 1..Len(rev)
        BY <1>5, <1>7, <2>1, <2>3, <3>2, <4>1 DEF Streamed
      <4>2. CASE i = Len(rev) + 1
        <5>1. off2[i - 1] = Len(pts) + left
          BY <1>7, <2>3, <2>5, <4>2
        <5> QED BY <1>2, <2>2, <3>2, <5>1
      <4> QED BY <1>7, <4>1, <4>2
    <3> QED BY <3>1, <3>2
  <2> QED BY <2>4, <2>6, <2>7, <2>8
<1> QED BY <1>1, <1>6, <1>8, <1>9 DEF StreamInv

\* The user writes the next point of the last trajectory it announced.
LEMMA StreamWritePoint ==
    ASSUME TypeInv, StreamInv, WriteTrajectoryPoint
    PROVE  StreamInv'
<1>1. /\ pts' = Append(pts, <<uploads, left - 1>>) /\ left > 0 /\ left' = left - 1
      /\ UNCHANGED <<rev, late, uploads, pc, cmd, num, starts>>
  BY DEF WriteTrajectoryPoint, loopVars, trajVars
<1>2. /\ Len(pts) \in Nat /\ Len(pts') = Len(pts) + 1
      /\ pts'[Len(pts) + 1] = <<uploads, left - 1>>
      /\ \A x \in 1..Len(pts) : pts'[x] = pts[x]
      /\ Len(rev) \in Nat /\ 0 \in 0..Len(rev)
  <2>1. <<uploads, left - 1>> \in Nat \X Nat
    BY <1>1, BoundsAreNat DEF TypeInv
  <2> QED BY <1>1, <2>1, AppendProperties, LenProperties DEF TypeInv
<1>3. Coming' = Coming /\ Len(pts') + left' = Len(pts) + left
  BY <1>1, <1>2 DEF Coming, TypeInv
<1>4. PICK no \in [0..Len(rev) -> 0..uploads] :
        /\ Numbered(no)
        /\ ~late => \E off \in [0..Len(rev) -> 0..Len(pts) + left] :
                       Measured(off) /\ LeftLast(no, off) /\ Streamed(no, off)
  BY DEF StreamInv
<1>5. Numbered(no)'
  BY <1>1, <1>3, <1>4 DEF Numbered
<1>6. ASSUME ~late
      PROVE  \E off \in [0..Len(rev') -> 0..Len(pts') + left'] :
                 Measured(off)' /\ LeftLast(no, off)' /\ Streamed(no, off)'
  <2>1. PICK off \in [0..Len(rev) -> 0..Len(pts) + left] :
               Measured(off) /\ LeftLast(no, off) /\ Streamed(no, off)
    BY <1>4, <1>6
  <2>2. Measured(off)'
    BY <1>1, <1>3, <2>1 DEF Measured
  <2>3. \A i \in 0..Len(rev) : /\ off[i] \in Nat
                               /\ no[i] = uploads => off[i] = Len(pts) + left
                               /\ no[i] # uploads => off[i] <= Len(pts)
    BY <2>1 DEF LeftLast
  <2>4. Coming /\ no[0] = uploads => num <= Len(pts)
    BY <2>1 DEF LeftLast
  <2>5. LeftLast(no, off)'
    <3>1. \A i \in 0..Len(rev) : off[i] <= Len(pts) => off[i] <= Len(pts')
      BY <1>2, <2>3
    <3>2. num <= Len(pts) => num <= Len(pts')
      BY <1>2 DEF TypeInv
    <3> QED BY <1>1, <1>3, <2>3, <2>4, <3>1, <3>2 DEF LeftLast
  <2>6. Streamed(no, off)'
    <3> SUFFICES ASSUME NEW x \in 1..Len(pts')
                 PROVE  /\ x <= num => pts'[x] = <<starts, num - x>>
                        /\ num < x /\ x <= off[0] => pts'[x] = <<starts + 1, off[0] - x>>
                        /\ \A i \in 1..Len(rev) : off[i - 1] < x /\ x <= off[i] =>
                                                      pts'[x] = <<no[i], off[i] - x>>
      BY <1>1 DEF Streamed
    <3>1. CASE x \in 1..Len(pts)
      BY <1>2, <2>1, <3>1 DEF Streamed
    <3>2. CASE x = Len(pts) + 1
      <4>1. no[0] = starts + (IF Coming THEN 1 ELSE 0) /\ off[0] = num + (IF Coming THEN cmd.n ELSE 0)
        BY <1>4, <2>1 DEF Numbered, Measured
      <4>2. num \in Nat /\ starts \in Nat /\ cmd.n \in Nat /\ left \in Nat
        BY CommandShape DEF TypeInv
      <4>3. ASSUME x <= num PROVE pts'[x] = <<starts, num - x>>
        <5>1. ~Coming
          BY <1>2, <2>3, <2>4, <3>2, <4>1, <4>2, <4>3
        <5>2. starts = uploads /\ num = Len(pts) + left
          BY <1>2, <2>3, <3>2, <4>1, <4>2, <4>3, <5>1
        <5> QED BY <1>2, <3>2, <4>2, <5>2
      <4>4. ASSUME num < x, x <= off[0] PROVE pts'[x] = <<starts + 1, off[0] - x>>
        <5>1. Coming
          BY <1>2, <3>2, <4>1, <4>2, <4>4
        <5>2. starts + 1 = uploads /\ off[0] = Len(pts) + left
          BY <1>2, <2>3, <3>2, <4>1, <4>2, <4>4, <5>1
        <5> QED BY <1>2, <3>2, <4>2, <5>2
      <4>5. ASSUME NEW i \in 1..Len(rev), off[i - 1] < x, x <= off[i]
            PROVE  pts'[x] = <<no[i], off[i] - x>>
        <5>1. i \in 0..Len(rev)
          BY <1>2
        <5>2. no[i] = uploads /\ off[i] = Len(pts) + left
          BY <1>2, <2>3, <3>2, <4>5, <5>1
        <5> QED BY <1>2, <3>2, <4>2, <5>2
      <4> QED BY <4>3, <4>4, <4>5
    <3> QED BY <1>2, <3>1, <3>2
  <2> QED BY <1>1, <1>3, <2>2, <2>5, <2>6
<1> QED BY <1>1, <1>4, <1>5, <1>6 DEF StreamInv

\* A trajectory begins: its points are the next ones on the socket.
LEMMA StreamBegins ==
    ASSUME TypeInv, StreamInv, BeginsNext, BeginTrajectory
    PROVE  StreamInv'
<1>1. /\ pc = "begin" /\ num = 0 /\ Coming /\ ~Coming' /\ num' = cmd.n /\ starts' = starts + 1
      /\ UNCHANGED <<rev, pts, late, uploads, left>> /\ cmd.n \in Nat /\ starts \in Nat
  BY CommandShape DEF BeginTrajectory, BeginsNext, Coming, driverVars, TypeInv
<1>2. PICK no \in [0..Len(rev) -> 0..uploads] :
        /\ Numbered(no)
        /\ ~late => \E off \in [0..Len(rev) -> 0..Len(pts) + left] :
                       Measured(off) /\ LeftLast(no, off) /\ Streamed(no, off)
  BY DEF StreamInv
<1>3. Numbered(no)'
  BY <1>1, <1>2 DEF Numbered
<1>4. ASSUME NEW off \in [0..Len(rev) -> 0..Len(pts) + left],
             Measured(off), LeftLast(no, off), Streamed(no, off)
      PROVE  Measured(off)' /\ LeftLast(no, off)' /\ Streamed(no, off)'
  <2>1. off[0] = cmd.n
    BY <1>1, <1>4 DEF Measured
  <2>2. Measured(off)'
    <3>1. off[0] = num' + (IF Coming' THEN cmd'.n ELSE 0)
      BY <1>1, <2>1
    <3> QED BY <1>1, <1>4, <3>1 DEF Measured
  <2>3. LeftLast(no, off)'
    BY <1>1, <1>4 DEF LeftLast
  <2>4. Streamed(no, off)'
    <3> SUFFICES ASSUME NEW x \in 1..Len(pts)
                 PROVE  /\ x <= num' => pts[x] = <<starts', num' - x>>
                        /\ ~(num' < x /\ x <= off[0])
                        /\ \A i \in 1..Len(rev) : off[i - 1] < x /\ x <= off[i] =>
                                                      pts[x] = <<no[i], off[i] - x>>
      BY <1>1 DEF Streamed
    <3>1. Len(pts) \in Nat /\ num < x
      BY <1>1, LenProperties DEF TypeInv
    <3>2. x <= off[0] => pts[x] = <<starts + 1, off[0] - x>>
      BY <1>4, <3>1 DEF Streamed
    <3>3. \A i \in 1..Len(rev) : off[i - 1] < x /\ x <= off[i] => pts[x] = <<no[i], off[i] - x>>
      BY <1>4 DEF Streamed
    <3>4. num' = off[0] /\ num' \in Nat /\ starts' = starts + 1 /\ x \in Nat
      BY <1>1, <2>1, <3>1
    <3>5. ~(num' < x /\ x <= off[0])
      BY <3>4
    <3> QED BY <3>2, <3>3, <3>4, <3>5
  <2> QED BY <2>2, <2>3, <2>4
<1> QED BY <1>1, <1>2, <1>3, <1>4 DEF StreamInv

\* A point is read, to move to it or to clear it off the socket.
LEMMA StreamTakesPoint ==
    ASSUME TypeInv, StreamInv, num > 0, pts # <<>>, pts' = Tail(pts), num' = num - 1,
           UNCHANGED <<rev, late, uploads, left, starts, pc, cmd>>
    PROVE  StreamInv'
<1>1. /\ Len(pts) \in Nat /\ Len(pts) > 0 /\ Len(pts') = Len(pts) - 1
      /\ \A x \in 1..Len(pts') : pts'[x] = pts[x + 1] /\ x + 1 \in 1..Len(pts)
      /\ Len(rev) \in Nat /\ 0 \in 0..Len(rev)
  BY HeadTailProperties, EmptySeq, LenProperties DEF TypeInv
<1>2. /\ Coming' = Coming /\ num \in Nat /\ starts \in Nat /\ left \in Nat /\ cmd.n \in Nat
  BY CommandShape DEF Coming, TypeInv
<1>3. PICK no \in [0..Len(rev) -> 0..uploads] :
        /\ Numbered(no)
        /\ ~late => \E off \in [0..Len(rev) -> 0..Len(pts) + left] :
                       Measured(off) /\ LeftLast(no, off) /\ Streamed(no, off)
  BY DEF StreamInv
<1>4. Numbered(no)'
  BY <1>2, <1>3 DEF Numbered
<1>5. ASSUME ~late
      PROVE  \E off \in [0..Len(rev) -> 0..Len(pts') + left] :
                 Measured(off)' /\ LeftLast(no, off)' /\ Streamed(no, off)'
  <2>1. PICK off \in [0..Len(rev) -> 0..Len(pts) + left] :
               Measured(off) /\ LeftLast(no, off) /\ Streamed(no, off)
    BY <1>3, <1>5
  <2> PICK off2 : off2 = [i \in 0..Len(rev) |-> off[i] - 1]
    OBVIOUS
  <2>2. off[0] = num + (IF Coming THEN cmd.n ELSE 0)
    BY <2>1 DEF Measured
  <2>3. \A i \in 0..Len(rev) : off2[i] = off[i] - 1 /\ off[i] \in Nat /\ off[i] > 0
                               /\ off[i] <= Len(pts) + left
    <3> TAKE i \in 0..Len(rev)
    <3>1. off[0] <= off[i]
      BY <1>1, <2>1 DEF Measured
    <3>2. off2[i] = off[i] - 1 /\ off[i] \in 0..Len(pts) + left /\ off[0] \in 0..Len(pts) + left
      BY <1>1
    <3>3. off[0] >= num
      BY <1>2, <2>2
    <3> QED BY <1>1, <1>2, <3>1, <3>2, <3>3
  <2>4. off2 \in [0..Len(rev) -> 0..Len(pts') + left]
    BY <1>1, <1>2, <2>3
  <2>5. \A i \in 1..Len(rev) : i \in 0..Len(rev) /\ i - 1 \in 0..Len(rev)
    BY <1>1
  <2>6. Measured(off2)'
    <3>1. off2[0] = num' + (IF Coming THEN cmd.n ELSE 0)
      BY <1>1, <1>2, <2>2, <2>3
    <3>2. off2[Len(rev)] = Len(pts') + left
      <4>1. off[Len(rev)] = Len(pts) + left /\ Len(rev) \in 0..Len(rev)
        BY <1>1, <2>1 DEF Measured
      <4> QED BY <1>1, <1>2, <2>3, <4>1
    <3>3. ASSUME NEW i \in 1..Len(rev)
          PROVE  off2[i] = off2[i - 1] + (IF IsStart(rev[i]) THEN rev[i].n ELSE 0)
      <4>1. off[i] = off[i - 1] + (IF IsStart(rev[i]) THEN rev[i].n ELSE 0)
        BY <2>1 DEF Measured
      <4>2. rev[i].n \in Nat
        BY CommandShape DEF TypeInv
      <4>3. PICK n : n = IF IsStart(rev[i]) THEN rev[i].n ELSE 0
        OBVIOUS
      <4>4. n \in Nat /\ off[i] = off[i - 1] + n
        BY <4>1, <4>2, <4>3
      <4>5. i \in 0..Len(rev) /\ i - 1 \in 0..Len(rev)
        BY <2>5
      <4>6. /\ off2[i] = off[i] - 1 /\ off2[i - 1] = off[i - 1] - 1
            /\ off[i] \in Nat /\ off[i - 1] \in Nat
        BY <2>3, <4>5
      <4>7. off2[i] = off2[i - 1] + n
        BY <4>4, <4>6
      <4> QED BY <4>3, <4>7
    <3>4. ASSUME NEW i \in 0..Len(rev), NEW j \in 0..Len(rev), i <= j PROVE off2[i] <= off2[j]
      BY <2>1, <2>3, <3>4 DEF Measured
    <3> QED BY <1>2, <3>1, <3>2, <3>3, <3>4 DEF Measured, IsStart
  <2>7. LeftLast(no, off2)'
    <3>1. ASSUME NEW i \in 0..Len(rev)
          PROVE  IF no[i] = uploads THEN off2[i] = Len(pts') + left ELSE off2[i] <= Len(pts')
      <4>1. IF no[i] = uploads THEN off[i] = Len(pts) + left ELSE off[i] <= Len(pts)
        BY <2>1 DEF LeftLast
      <4> QED BY <1>1, <1>2, <2>3, <4>1
    <3>2. Coming /\ no[0] = uploads => num' <= Len(pts')
      <4>1. Coming /\ no[0] = uploads => num <= Len(pts)
        BY <2>1 DEF LeftLast
      <4> QED BY <1>1, <1>2, <4>1
    <3> QED BY <1>2, <3>1, <3>2 DEF LeftLast
  <2>8. Streamed(no, off2)'
    <3> SUFFICES ASSUME NEW x \in 1..Len(pts')
                 PROVE  /\ x <= num' => pts'[x] = <<starts, num' - x>>
                        /\ num' < x /\ x <= off2[0] => pts'[x] = <<starts + 1, off2[0] - x>>
                        /\ \A i \in 1..Len(rev) : off2[i - 1] < x /\ x <= off2[i] =>
                                                      pts'[x] = <<no[i], off2[i] - x>>
      BY DEF Streamed
    <3>1. x + 1 \in 1..Len(pts) /\ pts'[x] = pts[x + 1] /\ x \in Nat
      BY <1>1
    <3>2. /\ x + 1 <= num => pts[x + 1] = <<starts, num - (x + 1)>>
          /\ num < x + 1 /\ x + 1 <= off[0] => pts[x + 1] = <<starts + 1, off[0] - (x + 1)>>
          /\ \A i \in 1..Len(rev) : off[i - 1] < x + 1 /\ x + 1 <= off[i] =>
                                        pts[x + 1] = <<no[i], off[i] - (x + 1)>>
      BY <2>1, <3>1 DEF Streamed
    <3>3. x <= num' => pts'[x] = <<starts, num' - x>>
      <4>1. (x <= num' <=> x + 1 <= num) /\ num' - x = num - (x + 1)
        BY <1>2, <3>1
      <4> QED BY <3>1, <3>2, <4>1
    <3>4. num' < x /\ x <= off2[0] => pts'[x] = <<starts + 1, off2[0] - x>>
      <4>1. /\ num' < x <=> num < x + 1
            /\ x <= off2[0] <=> x + 1 <= off[0]
            /\ off2[0] - x = off[0] - (x + 1)
        BY <1>1, <1>2, <2>3, <3>1
      <4> QED BY <3>1, <3>2, <4>1
    <3>5. ASSUME NEW i \in 1..Len(rev), off2[i - 1] < x, x <= off2[i]
          PROVE  pts'[x] = <<no[i], off2[i] - x>>
      <4>1. off[i - 1] < x + 1 /\ x + 1 <= off[i] /\ off2[i] - x = off[i] - (x + 1)
        <5>1. i \in 0..Len(rev) /\ i - 1 \in 0..Len(rev)
          BY <2>5
        <5>2. /\ off2[i] = off[i] - 1 /\ off[i] \in Nat
              /\ off2[i - 1] = off[i - 1] - 1 /\ off[i - 1] \in Nat
          BY <2>3, <5>1
        <5> QED BY <3>1, <3>5, <5>2, SMTT(30)
      <4> QED BY <3>1, <3>2, <4>1
    <3> QED BY <3>3, <3>4, <3>5
  <2> QED BY <2>4, <2>6, <2>7, <2>8
<1> QED BY <1>3, <1>4, <1>5 DEF StreamInv

\* Points that come late are counted off, and the streams are not told apart.
LEMMA StreamLate ==
    ASSUME StreamInv, late, UNCHANGED <<rev, late, uploads, starts, pc, cmd>>
    PROVE  StreamInv'
<1>1. Coming' = Coming
  BY DEF Coming
<1>2. ASSUME NEW no PROVE Numbered(no)' <=> Numbered(no)
  BY <1>1 DEF Numbered
<1> QED BY <1>2 DEF StreamInv

\* Every step keeps the streams in order.
LEMMA StreamStep ==
    ASSUME TypeInv, MotionInv, BeginsNext, StreamInv, [Next]_vars
    PROVE  StreamInv'
<1> USE DEF driverVars, trajVars, loopVars
<1>1. CASE User
  <2>1. CASE CloseDriver
    <3>1. UNCHANGED <<rev, pts, late, uploads, left, num, starts, cmd, pc>>
      BY <2>1 DEF CloseDriver
    <3>2. Coming' = Coming
      BY <3>1 DEF Coming
    <3> QED BY <3>1, <3>2, StreamQuiet
  <2> QED BY <1>1, <2>1, StreamWriteCommand, StreamWritePoint DEF User
<1>2. CASE ReadCommand
  BY <1>2, StreamReadCommand
<1>3. CASE BeginTrajectory
  BY <1>3, StreamBegins
<1>4. CASE ReadPoint \/ ClearPoint
  <2>1. /\ num > 0 /\ pts # <<>> /\ pts' = Tail(pts) /\ num' = num - 1
        /\ UNCHANGED <<rev, late, uploads, left, starts, pc, cmd>>
    BY <1>4 DEF ReadPoint, ClearPoint
  <2> QED BY <2>1, StreamTakesPoint
<1>5. CASE PointTimesOut \/ ClearTimesOut
  <2>1. late /\ UNCHANGED <<rev, late, uploads, starts, pc, cmd>>
    BY <1>5 DEF PointTimesOut, ClearTimesOut
  <2> QED BY <2>1, StreamLate
<1>6. ASSUME UNCHANGED <<rev, pts, late, uploads, left, num, starts, cmd>>,
             \/ pc' = pc
             \/ pc \notin {"top", "exited"} /\ pc' \notin {"top", "exited"}
             \/ pc \in {"top", "exited"} /\ pc' \in {"top", "exited"}
             \/ ~IsStart(cmd)
      PROVE  StreamInv'
  <2>1. Coming' = Coming
    BY <1>6 DEF Coming, IsStart
  <2> QED BY <1>6, <2>1, StreamQuiet
<1>7. CASE ReadTimesOut \/ MoveEnds \/ TrajectoryEnds \/ UNCHANGED vars
  BY <1>6, <1>7 DEF ReadTimesOut, MoveEnds, TrajectoryEnds, vars
<1>8. CASE LeaveTrajectory \/ LeaveFreedrive \/ LeaveMotion \/ EnterMode
  BY <1>6, <1>8 DEF LeaveTrajectory, LeaveFreedrive, LeaveMotion, EnterMode
<1>9. CASE UpdateCancel \/ UpdateStart
  BY <1>6, <1>9 DEF UpdateCancel, UpdateStart
<1>10. CASE UpdateNothing \/ UpdateFreedrive
  <2>1. ~IsStart(cmd)
    BY <1>10 DEF UpdateNothing, UpdateFreedrive, IsStart, MotionInv
  <2> QED BY <1>6, <1>10, <2>1 DEF UpdateNothing, UpdateFreedrive
<1>11. CASE ClearEnds
  <2>1. then = "top" => ~IsStart(cmd)
    BY <1>11 DEF ClearEnds, MotionInv, IsStart
  <2>2. then \in {"enter", "begin", "top"}
    BY <1>11 DEF ClearEnds, MotionInv
  <2> QED BY <1>6, <1>11, <2>1, <2>2 DEF ClearEnds
<1>12. CASE Exit
  BY <1>6, <1>12 DEF Exit
<1> QED BY <1>1, <1>2, <1>3, <1>4, <1>5, <1>7, <1>8, <1>9, <1>10, <1>11, <1>12
        DEF Next, MainLoop, TrajectoryThread

----------------------------------------------------------------------------
\* The invariant holds at the start.
LEMMA InitScript == Init => ScriptInv
<1> SUFFICES ASSUME Init PROVE ScriptInv
  OBVIOUS
<1> USE BoundsAreNat, ModeNames
<1>1. TypeInv
  <2>1. cmd \in Commands
    BY DEF Init, Commands, Timeouts
  <2>2. answers \in [Trajectories -> Nat] /\ cancels \in [Trajectories -> Nat]
    BY DEF Init
  <2>3. rev \in Seq(Commands) /\ pts \in Seq(Nat \X Nat)
    BY DEF Init
  <2>4. uploads \in 0..MaxStarts
    BY DEF Init
  <2>5. feedback \in [type : Kinds, idx : Int, traj : Nat]
    BY DEF Init, Kinds
  <2>6. pc \in Places /\ then \in Places /\ mode \in Modes
    BY DEF Init, Places, Modes
  <2> QED BY <2>1, <2>2, <2>3, <2>4, <2>5, <2>6 DEF Init, TypeInv
<1>2. MotionInv /\ BeginsNext
  BY DEF Init, MotionInv, OneMotionSource, BeginsNext
<1>3. FeedbackInv
  BY DEF Init, FeedbackInv
<1>4. ResultInv
  BY DEF Init, ResultInv, Trajectories
<1>5. MovedInv
  BY DEF Init, MovedInv
<1>6. StreamInv
  <2>1. /\ Len(rev) = 0 /\ Len(pts) = 0 /\ ~Coming /\ starts = 0 /\ uploads = 0 /\ num = 0
        /\ left = 0
    BY DEF Init, Coming
  <2> PICK z : z = [i \in 0..0 |-> 0]
    OBVIOUS
  <2>2. z \in [0..0 -> 0..0] /\ z[0] = 0
    OBVIOUS
  <2>3. Numbered(z)
    BY <2>1, <2>2 DEF Numbered
  <2>4. Measured(z)
    BY <2>1, <2>2 DEF Measured
  <2>5. LeftLast(z, z)
    BY <2>1, <2>2 DEF LeftLast
  <2>6. Streamed(z, z)
    BY <2>1 DEF Streamed
  <2> QED BY <2>1, <2>2, <2>3, <2>4, <2>5, <2>6 DEF StreamInv
<1> QED BY <1>1, <1>2, <1>3, <1>4, <1>5, <1>6 DEF ScriptInv

\* Every step keeps it.
LEMMA NextScript == ScriptInv /\ [Next]_vars => ScriptInv'
<1> SUFFICES ASSUME ScriptInv, [Next]_vars PROVE ScriptInv'
  OBVIOUS
<1>0. TypeInv /\ MotionInv /\ BeginsNext /\ FeedbackInv /\ ResultInv /\ MovedInv /\ StreamInv
  BY ScriptParts
<1>1. TypeInv' /\ StreamInv'
  BY <1>0, TypeStep, StreamStep
<1>2. starts \in Trajectories
  BY <1>0, StartsBounded
<1>3. (starts \in Trajectories)'
  BY <1>1, StartsBounded, PTL
<1>4. ~late /\ num > 0 /\ pts # <<>> => Head(pts) = <<starts, num - 1>>
  BY <1>0, HeadPoint
<1>5. MotionInv' /\ BeginsNext' /\ FeedbackInv'
  BY <1>0, MotionStep, BeginsStep, FeedbackStep
<1>6. ResultInv'
  BY <1>0, <1>2, <1>3, ResultStep
<1>7. MovedInv'
  BY <1>0, <1>2, <1>3, <1>4, MovedStep
<1> QED BY <1>1, <1>5, <1>6, <1>7 DEF ScriptInv

\* The invariant of the control script: which thread runs at each place of the main
\* loop, what the last feedback frame says of the trajectory thread, and which points
\* are still on the trajectory socket.
THEOREM ScriptInvariant == Spec => []ScriptInv
<1>1. Init => ScriptInv
  BY InitScript
<1>2. ScriptInv /\ [Next]_vars => ScriptInv'
  BY NextScript
<1> QED BY <1>1, <1>2, PTL DEF Spec

\* Whatever commands the user writes, and in whatever order its commands and points
\* arrive, one thing moves the robot at a time: external_control.script stops one thread
\* before it starts another, and stops all of them before it closes its sockets.
THEOREM OneSource == Spec => []OneMotionSource
<1>1. ScriptInv => OneMotionSource
  BY DEF ScriptInv, MotionInv
<1> QED BY <1>1, ScriptInvariant, PTL

\* The state of the trajectory thread and the results explain each other.
LEMMA ScriptExplains == ScriptInv => ResultsExplained
<1> SUFFICES ASSUME ScriptInv PROVE ResultsExplained
  OBVIOUS
<1>0. TypeInv /\ MotionInv /\ ResultInv /\ MovedInv
  BY ScriptParts
<1>1. PointsInSync
  <2> SUFFICES ASSUME ~late
               PROVE  /\ traj = "move" => target = <<starts, total - 1 - active>>
                      /\ feedback.type = "success" /\ feedback.traj = starts => moved = total
    BY DEF PointsInSync
  <2>1. ASSUME traj = "move" PROVE target = <<starts, total - 1 - active>>
    <3>1. active = total - num - 1 /\ target = <<starts, num>>
      BY <1>0, <2>1 DEF MovedInv
    <3>2. total - 1 - active = num
      BY <1>0, <3>1 DEF TypeInv
    <3> QED BY <3>1, <3>2
  <2> QED BY <1>0, <2>1 DEF MovedInv
<1>2. ResultsAccounted
  <2>1. \A k \in Trajectories : answers[k] <= 1 + cancels[k]
    BY <1>0 DEF ResultInv
  <2>2. ASSUME pc = "top", mode \notin {"trajectory", "stopped"}, starts > 0, answers[starts] = 0
        PROVE  late \/ active = total - 1
    <3>1. traj = "none"
      BY <1>0, <2>2 DEF MotionInv, OneMotionSource
    <3> QED BY <1>0, <2>2, <3>1 DEF MovedInv
  <2> QED BY <2>1, <2>2 DEF ResultsAccounted
<1> QED BY <1>1, <1>2 DEF ResultsExplained

\* However many trajectories are started, replaced, cancelled and interrupted, the thread
\* moves to the points of its own trajectory, a success moved to all of them, and the
\* results are those of what happened.
THEOREM ResultsAreExplained == Spec => []ResultsExplained
BY ScriptInvariant, ScriptExplains, PTL

\* A step sends a feedback frame only as the last one allows.
LEMMA FeedbackOrdered ==
    ASSUME ScriptInv, [Next]_vars, feedback' # feedback
    PROVE  \/ feedback'.traj > feedback.traj
           \/ /\ feedback'.traj = feedback.traj
              /\ CASE feedback'.type = "active" ->
                        feedback.type \in {"none", "done"} /\ feedback'.idx > feedback.idx
                   [] feedback'.type = "done" ->
                        feedback.type = "active" /\ feedback'.idx = feedback.idx
                   [] feedback'.type = "success" -> feedback.type \in {"none", "done"}
                   [] OTHER -> TRUE
<1>0. TypeInv /\ FeedbackInv
  BY ScriptParts
<1>1. CASE ReadPoint
  <2>1. /\ traj = "run" /\ num > 0
        /\ feedback' = [type |-> "active", idx |-> total - num, traj |-> starts]
    BY <1>1 DEF ReadPoint, Message
  <2>2. feedback'.type = "active" /\ feedback'.idx = total - num /\ feedback'.traj = starts
    BY <2>1
  <2>3. feedback.traj \in Nat /\ feedback.traj <= starts /\ starts \in Nat
    BY <1>0 DEF TypeInv, FeedbackInv
  <2>4. CASE feedback.traj = starts
    <3>1. feedback.type = "done" /\ feedback.idx < total - num /\ feedback.idx \in Int
      BY <1>0, <2>1, <2>4 DEF TypeInv, FeedbackInv
    <3>2. feedback'.idx > feedback.idx
      <4>1. total - num \in Int
        BY <1>0 DEF TypeInv
      <4> QED BY <2>2, <3>1, <4>1
    <3> QED BY <2>2, <2>4, <3>1, <3>2
  <2>5. CASE feedback.traj # starts
    BY <2>2, <2>3, <2>5
  <2> QED BY <2>4, <2>5
<1> USE <1>0 DEF TypeInv, FeedbackInv, Message, driverVars, trajVars, motionVars, loopVars
<1>2. CASE MoveEnds
  BY <1>2 DEF MoveEnds
<1>3. CASE TrajectoryEnds
  BY <1>3 DEF TrajectoryEnds, SendResult
<1>4. CASE LeaveTrajectory \/ UpdateCancel
  BY <1>4 DEF LeaveTrajectory, UpdateCancel, SendResult
<1>5. CASE PointTimesOut \/ User \/ UNCHANGED vars
  BY <1>5 DEF PointTimesOut, User, WriteCommand, WriteTrajectoryPoint, CloseDriver, vars
<1>6. CASE MainLoop
  BY <1>4, <1>6
     DEF MainLoop, ReadCommand, ReadTimesOut, LeaveFreedrive, LeaveMotion, EnterMode,
         UpdateNothing, UpdateFreedrive, UpdateStart, BeginTrajectory, ClearPoint, ClearTimesOut,
         ClearEnds, Exit
<1> QED BY <1>1, <1>2, <1>3, <1>5, <1>6 DEF Next, TrajectoryThread

\* The feedback frames a TrajectoryInterface receives tell of one trajectory after the
\* other, and of its points in order, whatever the main loop does in between.
THEOREM FeedbackComesInOrder == Spec => FeedbackInOrder
<1>1. ScriptInv /\ [Next]_vars =>
        [feedback' # feedback =>
         \/ feedback'.traj > feedback.traj
         \/ /\ feedback'.traj = feedback.traj
            /\ CASE feedback'.type = "active" ->
                      feedback.type \in {"none", "done"} /\ feedback'.idx > feedback.idx
                 [] feedback'.type = "done" ->
                      feedback.type = "active" /\ feedback'.idx = feedback.idx
                 [] feedback'.type = "success" -> feedback.type \in {"none", "done"}
                 [] OTHER -> TRUE]_vars
  BY FeedbackOrdered
<1> QED BY <1>1, ScriptInvariant, PTL DEF Spec, FeedbackInOrder
=============================================================================
