---------------------------- MODULE RemoteShell ----------------------------
(***************************************************************************)
(* SshUtils.cpp, and its callers RemoteUpgrade.cpp and ControllerLog.cpp.    *)
(* Each function is a list of library calls: every one may take a resource, *)
(* and on failure the function releases what its error path lists and        *)
(* returns.  After the list it moves the data and releases everything.       *)
(*                                                                         *)
(* Files are counted in chunks; a file_size is an int, and a file of more   *)
(* than MaxInt gets a negative one.                                         *)
(***************************************************************************)
EXTENDS Integers, Sequences

CONSTANTS FileSizes, MaxInt

ASSUME ShellSizes == FileSizes \subseteq Nat /\ MaxInt \in Nat

VARIABLES
    job,        \* what the user asked for, and the build it runs in
    calls,      \* the functions still to be called, the current one first
    at,         \* the library call it is at, or JobDone, or JobThrew
    owned,      \* resources it has taken
    size, moved,\* of the file that is transferred
    told,       \* progress_cb was given an error
    hungUp,     \* the robot has closed the channel
    path,       \* of the log on the robot
    value       \* what the last function, and in the end the job, returned

shellVars == <<job, calls, at, owned, size, moved, told, hungUp, path, value>>

JobDone  == 0
JobThrew == -1

Builds == {"libssh", "fork"}

Jobs == [name : {"execute", "upgrade", "log"}, build : Builds, callback : BOOLEAN]

CallsOf(j) ==
    CASE j.name = "execute" -> <<"execute">>
      [] j.name = "upgrade" -> <<"upload", "execute", "execute">>
      [] j.name = "log"     -> <<"execute", "download">>

\* upgradeControlSoftware always passes a callback; only libssh calls it.
ShellInit ==
    /\ job \in {j \in Jobs : j.name # "log" => j.callback}
    /\ calls = CallsOf(job)
    /\ at = 1 /\ owned = {} /\ size \in FileSizes /\ moved = 0
    /\ told = FALSE /\ hungUp = FALSE /\ path = "none" /\ value = "none"

---------------------------------------------------------------------------

Call(takes, undo) == [takes |-> takes, undo |-> undo]

Login == <<Call({"session"}, {}), Call({"login"}, {"session"}), Call({}, {"login", "session"})>>

\* executeCommand: ssh_new, ssh_connect, ssh_userauth_password, then
\* ssh_channel_new, ssh_channel_open_session, ssh_channel_request_exec; or
\* pipe and fork.
ExecuteCommand(build) ==
    IF build = "libssh"
    THEN Login \o <<Call({"channel"}, {"login", "session"}),
                    Call({}, {"channel", "login", "session"}),
                    Call({}, {"channel", "login", "session"})>>
    ELSE <<Call({"pipe"}, {}), Call({"child"}, {})>>

ScpCommand == <<Call({"child"}, {})>>

\* downloadFile: ssh_scp_new, ssh_scp_init, ssh_scp_pull_request, the local file.
DownloadFileFaulty(build) ==
    IF build = "libssh"
    THEN Login \o <<Call({"scp"}, {"login", "session"}),
                    Call({}, {"scp", "login", "session"}),
                    Call({}, {"scp", "login", "session"}),
                    Call({"file"}, {"login", "session"})>>
    ELSE ScpCommand

DownloadFile(build) ==
    IF build = "libssh"
    THEN Login \o <<Call({"scp"}, {"login", "session"}),
                    Call({}, {"scp", "login", "session"}),
                    Call({}, {"scp", "login", "session"}),
                    Call({"file"}, {"scp", "login", "session"})>>
    ELSE ScpCommand

\* uploadFile: the local file, then ssh_scp_new, ssh_scp_init, ssh_scp_push_file.
UploadFile(build) ==
    IF build = "libssh"
    THEN Login \o <<Call({"file"}, {"login", "session"}),
                    Call({"scp"}, {"file", "login", "session"}),
                    Call({}, {"file", "scp", "login", "session"}),
                    Call({}, {"file", "scp", "login", "session"})>>
    ELSE ScpCommand

Steps ==
    CASE Head(calls) = "execute"  -> ExecuteCommand(job.build)
      [] Head(calls) = "download" -> DownloadFile(job.build)
      [] Head(calls) = "upload"   -> UploadFile(job.build)

\* uploadFile reports that there is no session and goes on without one, until
\* ssh_connect fails.
SessionMissing == "session" \notin owned /\ at = 2 /\ job.build = "libssh"

CallSucceeds ==
    /\ calls # <<>> /\ at \in 1 .. Len(Steps) /\ ~SessionMissing
    /\ owned' = owned \cup Steps[at].takes
    /\ at' = at + 1
    /\ UNCHANGED <<job, calls, size, moved, told, hungUp, path, value>>

\* upgradeControlSoftware that uploads again until it works.
ReturnsFaulty(v) ==
    IF Head(calls) = "upload" /\ v = "false"
    THEN calls' = calls /\ value' = v /\ path' = path /\ at' = 1
    ELSE /\ calls' = Tail(calls) /\ value' = v /\ path' = path
         /\ at' = IF Len(calls) = 1 THEN JobDone ELSE 1

\* What the callers do with the value of the function that returns.
Returns(v) ==
    CASE job.name = "upgrade" /\ Head(calls) = "upload" /\ v = "false" ->
           calls' = <<>> /\ value' = "false" /\ path' = path /\ at' = JobDone
      [] job.name = "upgrade" /\ Len(calls) = 1 ->
           calls' = <<>> /\ value' = "true" /\ path' = path /\ at' = JobDone
      [] OTHER ->
           /\ calls' = Tail(calls) /\ value' = v
           /\ path' = IF job.name = "log" /\ Head(calls) = "execute"
                      THEN IF v = "output" THEN "absolute" ELSE "relative"
                      ELSE path
           /\ at' = IF Len(calls) = 1 THEN JobDone ELSE 1

Failed == IF Head(calls) = "execute" THEN "nothing" ELSE "false"

CallFails ==
    /\ calls # <<>> /\ at \in 1 .. Len(Steps)
    /\ IF Head(calls) = "upload" /\ at = 1 /\ job.build = "libssh"
       THEN at' = 2 /\ UNCHANGED <<owned, calls, value, path>>
       ELSE owned' = owned \ Steps[at].undo /\ Returns(Failed)
    /\ UNCHANGED <<job, size, moved, told, hungUp>>

---------------------------------------------------------------------------
(* The data.                                                                *)

Moving == calls # <<>> /\ at = Len(Steps) + 1

Finish(v) == owned' = {} /\ Returns(v)

\* The command's output, which may be empty, up to the end or a read error; or
\* sshpass and its exit status.
Output ==
    /\ Moving /\ (Head(calls) = "execute" \/ job.build = "fork")
    /\ \E v \in (IF Head(calls) = "execute" THEN {"output", "nothing"} ELSE {"true", "false"}) :
         /\ Finish(v)
         /\ moved' = IF v = "true" THEN size ELSE moved
    /\ UNCHANGED <<job, size, told, hungUp>>

FileSize == IF size > MaxInt THEN size - 2 * (MaxInt + 1) ELSE size

Limit == IF Head(calls) = "download" THEN FileSize ELSE size

Transfers == Moving /\ job.build = "libssh" /\ Head(calls) \in {"download", "upload"}

MoveChunk ==
    /\ Transfers /\ moved < Limit /\ ~hungUp
    /\ moved' = moved + 1
    /\ UNCHANGED <<job, calls, at, owned, size, told, hungUp, path, value>>

\* A transfer error: the callback is told, or, where there is none, its call
\* throws.  downloadFile then leaves its loop and returns true.
MoveFails ==
    /\ Transfers /\ moved < Limit /\ ~hungUp
    /\ IF ~job.callback
       THEN at' = JobThrew /\ owned' = owned \ {"file"} /\ UNCHANGED <<calls, told, path, value>>
       ELSE told' = TRUE /\ Finish(IF Head(calls) = "download" THEN "true" ELSE "false")
    /\ UNCHANGED <<job, size, moved, hungUp>>

\* The robot closes the channel: ssh_scp_read returns 0 from now on.
HangsUp ==
    /\ Transfers /\ Head(calls) = "download" /\ ~hungUp
    /\ hungUp' = TRUE
    /\ UNCHANGED <<job, calls, at, owned, size, moved, told, path, value>>

MoveEnds ==
    /\ Transfers /\ moved >= Limit
    /\ Finish("true")
    /\ UNCHANGED <<job, size, moved, told, hungUp>>

ShellStep == CallSucceeds \/ CallFails \/ Output \/ MoveChunk \/ MoveFails \/ MoveEnds

---------------------------------------------------------------------------

\* When a function has returned, by whatever error path, nothing it took is left:
\* no session, login, channel, file or process (SshUtils.cpp:34-384), and a
\* channel never outlives its session.  The exceptions are the two ends of the
\* pipe if fork fails (line 107), and everything but the file if a transfer fails
\* and no progress callback was given (lines 253 and 360).
NothingLeaks ==
    /\ at = JobDone => owned \subseteq {"pipe"} /\ (job.build = "libssh" => owned = {})
    /\ at = JobThrew => ~job.callback
    /\ owned \cap {"channel", "scp"} # {} => {"login", "session"} \subseteq owned

\* A job that returns true has moved the whole file, unless it told the callback
\* about an error of the download, or the file is too large for an int.
TrueMeansWhole ==
    at = JobDone /\ value = "true" => moved = size \/ size > MaxInt \/ (told /\ job.name = "log")

\* What a job leaves behind and what it answers are right on every path.
JobsAreClean == NothingLeaks /\ TrueMeansWhole

\* Every job ends, unless the robot closed the channel during a download
\* (SshUtils.cpp:247-264 never looks for the end of the stream).
JobsEnd == <>(at \in {JobDone, JobThrew} \/ hungUp)
=============================================================================
