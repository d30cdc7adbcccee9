------------------------------- MODULE Daemon -------------------------------
(***************************************************************************)
(* The life of daemon processes and the control client: pid file, lock and *)
(* run id file (src/bin/kronid.rs), kronictl start, stop and restart       *)
(* (src/bin/kronictl.rs), start-up and shutdown of the coordinator         *)
(* (src/daemon/coordinator.rs), the API server threads (src/daemon/api.rs, *)
(* server/grpc.rs, server/http.rs) and the registry that joins threads     *)
(* (crates/common/src/threading.rs).                                       *)
(*                                                                         *)
(* A process may be killed or crash at any step.  Every access to a shared *)
(* file is a step of its own, except that the temporary pid file is opened *)
(* and written in one.  A process id is never reused.  The pipeline's six  *)
(* threads are one thread here; module Pipeline shows that it ends once it *)
(* was told to.                                                            *)
(***************************************************************************)
EXTENDS Naturals, FiniteSets

CONSTANTS
  Proc,         \* kronid processes, by process id; also their fresh run ids
  Client,       \* kronictl commands
  None,         \* no file, no process, no run id
  FollowRaces   \* bound: whether anything begins after an overlap

ASSUME DaemonAssumption == None \notin Proc /\ FollowRaces \in BOOLEAN

VARIABLES
  pidFile, lockFile, tmpFile, runFile, socket,  \* files of the workspace
  pc,          \* a process's place in run()
  run,         \* its run id
  alive,       \* its live worker threads
  status,      \* their status in its ThreadRegistry
  handler,     \* its Ctrl-C handler is installed
  told,        \* its pipeline has been sent Shutdown
  hookStops,   \* its focus hook has been told to stop
  cmd,         \* a command: operation, progress, pid and run id it read
  raced,       \* history: two start-ups or commands overlapped on the files
  shadowed     \* history: processes that lived while another wrote runFile

files == <<pidFile, lockFile, tmpFile, runFile, socket>>
local == <<run, alive, status, handler, told, hookStops>>
history == <<raced, shadowed>>
vars == <<files, pc, local, cmd, history>>

Thread == {"grpc", "http", "pipeline"}
ThreadStatus == {"Reserved", "Running", "Joining", "Joined", "Detached", "Panicked"}

Claiming == {"check", "removePid", "removeLock", "createLock", "writeTmp", "rename", "verify"}
Starting == {"openStore", "startApi", "joinGrpc", "joinHttp", "spawnPipeline", "buildHook", "setHandler", "runUiohook"}
Ending == {"joinPipeline", "joinApi", "removeSockets"}
Leaving == {"removeOwnPid", "unlock"}
Gone == {"refused", "failed", "exited", "dead"}
Place == {"unborn", "born", "running"} \cup Claiming \cup Starting \cup Ending \cup Leaving \cup Gone

Alive(p) == pc[p] \notin Gone \cup {"unborn"}
Up(p) == pc[p] \in Starting \cup Ending \cup {"running"}

Go(p, place) == pc' = [pc EXCEPT ![p] = place]

(* The process ends, and its threads with it. *)
End(p, place) ==
  /\ Go(p, place)
  /\ alive' = [alive EXCEPT ![p] = {}]
  /\ status' = [status EXCEPT ![p] = [t \in Thread |-> "Reserved"]]
  /\ handler' = [handler EXCEPT ![p] = FALSE]
  /\ told' = [told EXCEPT ![p] = FALSE] /\ hookStops' = [hookStops EXCEPT ![p] = FALSE]

-----------------------------------------------------------------------------
(* Overlaps on the files *)

Busy == {p \in Proc : pc[p] \in Claiming} \cup {c \in Client : cmd[c].at \notin {"idle", "done"}}
Enter == raced' = (raced \/ Busy # {})

(* Without FollowRaces, what has begun is followed to its end after an     *)
(* overlap, but no start-up and no command begins.                         *)
MayBegin == FollowRaces \/ ~raced

-----------------------------------------------------------------------------
(* kronid: claiming the workspace *)

(* kronid is started by hand, with a run id of its own. *)
Launch(p) ==
  /\ pc[p] = "unborn" /\ Go(p, "born") /\ MayBegin
  /\ UNCHANGED <<files, local, cmd, history>>

(* The run id file is written before anything is known about others. *)
WriteRunId(p) ==
  /\ pc[p] = "born" /\ Go(p, "check")
  /\ runFile' = run[p] /\ Enter
  /\ shadowed' = shadowed \cup {q \in Proc \ {p} : Alive(q)}
  /\ UNCHANGED <<pidFile, lockFile, tmpFile, socket, local, cmd>>

\* mutation: every pid file is taken for a stale one
CheckPidFileTrusting(p) ==
  /\ pc[p] = "check"
  /\ Go(p, IF pidFile # None THEN "removePid" ELSE IF lockFile THEN "removeLock" ELSE "createLock")
  /\ UNCHANGED <<files, local, cmd, history>>

\* mutation: a lock without a pid file is not looked for
CheckPidFileOnly(p) ==
  /\ pc[p] = "check"
  /\ Go(p, IF pidFile # None /\ Alive(pidFile) THEN "refused"
           ELSE IF pidFile # None THEN "removePid" ELSE "createLock")
  /\ UNCHANGED <<files, local, cmd, history>>

(* write_pid_file: read the pid file and ask ps. *)
CheckPidFile(p) ==
  /\ pc[p] = "check"
  /\ \/ pidFile # None /\ Alive(pidFile) /\ Go(p, "refused")
     \/ pidFile # None /\ ~Alive(pidFile) /\ Go(p, "removePid")
     \/ pidFile = None /\ lockFile /\ Go(p, "removeLock")
     \/ pidFile = None /\ ~lockFile /\ Go(p, "createLock")
  /\ UNCHANGED <<files, local, cmd, history>>

RemoveStalePid(p) ==
  /\ pc[p] = "removePid" /\ Go(p, "removeLock")
  /\ pidFile' = None
  /\ UNCHANGED <<lockFile, tmpFile, runFile, socket, local, cmd, history>>

RemoveStaleLock(p) ==
  /\ pc[p] = "removeLock" /\ Go(p, "createLock")
  /\ lockFile' = FALSE
  /\ UNCHANGED <<pidFile, tmpFile, runFile, socket, local, cmd, history>>

\* mutation: wait for the lock instead of giving up
CreateLockWaits(p) ==
  /\ pc[p] = "createLock" /\ ~lockFile
  /\ Go(p, "writeTmp")
  /\ lockFile' = TRUE
  /\ UNCHANGED <<pidFile, tmpFile, runFile, socket, local, cmd, history>>

CreateLock(p) ==
  /\ pc[p] = "createLock"
  /\ Go(p, IF lockFile THEN "failed" ELSE "writeTmp")
  /\ lockFile' = TRUE
  /\ UNCHANGED <<pidFile, tmpFile, runFile, socket, local, cmd, history>>

(* The name of the temporary file is the same for all. *)
WriteTmp(p) ==
  /\ pc[p] = "writeTmp" /\ Go(p, "rename")
  /\ tmpFile' = p
  /\ UNCHANGED <<pidFile, lockFile, runFile, socket, local, cmd, history>>

(* The rename fails if somebody else renamed the file first. *)
RenameTmp(p) ==
  /\ pc[p] = "rename"
  /\ \/ /\ tmpFile # None /\ Go(p, "verify")
        /\ pidFile' = tmpFile /\ tmpFile' = None /\ UNCHANGED lockFile
     \/ /\ tmpFile = None /\ Go(p, "failed")
        /\ lockFile' = FALSE /\ UNCHANGED <<pidFile, tmpFile>>
  /\ UNCHANGED <<runFile, socket, local, cmd, history>>

VerifyPidFile(p) ==
  /\ pc[p] = "verify"
  /\ Go(p, IF pidFile = p THEN "openStore" ELSE "failed")
  /\ UNCHANGED <<files, local, cmd, history>>

Claim(p) ==
  \/ WriteRunId(p) \/ CheckPidFile(p) \/ RemoveStalePid(p) \/ RemoveStaleLock(p)
  \/ CreateLock(p) \/ WriteTmp(p) \/ RenameTmp(p) \/ VerifyPidFile(p)

-----------------------------------------------------------------------------
(* The thread registry of a process *)

Spawn(p, t) ==
  /\ alive' = [alive EXCEPT ![p] = @ \cup {t}]
  /\ status' = [status EXCEPT ![p][t] = "Running"]

Mark(p, t, s) == status' = [status EXCEPT ![p][t] = s]

-----------------------------------------------------------------------------
(* kronid: the coordinator *)

(* create_data_store.  A DuckDB file can be open in one process only; with *)
(* SQLite a second process comes up, which is followed with FollowRaces.   *)
OpenStore(p) ==
  /\ pc[p] = "openStore"
  /\ \/ (FollowRaces \/ \A q \in Proc \ {p} : ~Up(q)) /\ Go(p, "startApi")
     \/ Go(p, "removeOwnPid")
  /\ UNCHANGED <<files, local, cmd, history>>

(* spawn_all.  A server that does not report in 500 ms is joined, also if  *)
(* it is still alive.  The gRPC handle is dropped when HTTP fails.         *)
StartApi(p) ==
  /\ pc[p] = "startApi"
  /\ \/ /\ Go(p, "spawnPipeline")
        /\ alive' = [alive EXCEPT ![p] = {"grpc", "http"}]
        /\ status' = [status EXCEPT ![p]["grpc"] = "Running", ![p]["http"] = "Running"]
     \/ /\ Go(p, "joinGrpc")
        /\ alive' \in {[alive EXCEPT ![p] = live] : live \in {{}, {"grpc"}}}
        /\ status' = [status EXCEPT ![p]["grpc"] = "Joining"]
     \/ /\ Go(p, "joinHttp")
        /\ alive' \in {[alive EXCEPT ![p] = {"grpc"} \cup live] : live \in {{}, {"http"}}}
        /\ status' = [status EXCEPT ![p]["grpc"] = "Running", ![p]["http"] = "Joining"]
  /\ socket' = IF alive'[p] = {} THEN None ELSE p
  /\ UNCHANGED <<pidFile, lockFile, tmpFile, runFile, run, handler, told, hookStops, cmd, history>>

(* spawn_server returns an error once the thread that did not report ended. *)
ServerFailed(p) ==
  /\ \/ /\ pc[p] = "joinGrpc" /\ "grpc" \notin alive[p]
        /\ status' = [status EXCEPT ![p]["grpc"] = "Panicked"]
     \/ /\ pc[p] = "joinHttp" /\ "http" \notin alive[p]
        /\ status' = [status EXCEPT ![p]["http"] = "Panicked", ![p]["grpc"] = "Detached"]
  /\ Go(p, "removeSockets")
  /\ UNCHANGED <<files, run, alive, handler, told, hookStops, cmd, history>>

SpawnPipeline(p) ==
  /\ pc[p] = "spawnPipeline"
  /\ \/ Go(p, "buildHook") /\ Spawn(p, "pipeline")
     \/ Go(p, "joinApi") /\ UNCHANGED <<alive, status>>
  /\ UNCHANGED <<files, run, handler, told, hookStops, cmd, history>>

BuildFocusHook(p) ==
  /\ pc[p] = "buildHook" /\ \E next \in {"setHandler", "joinPipeline"} : Go(p, next)
  /\ UNCHANGED <<files, local, cmd, history>>

SetupShutdownHandler(p) ==
  /\ pc[p] = "setHandler" /\ Go(p, "runUiohook")
  /\ handler' = [handler EXCEPT ![p] = TRUE]
  /\ UNCHANGED <<files, run, alive, status, told, hookStops, cmd, history>>

RunUiohook(p) ==
  /\ pc[p] = "runUiohook" /\ \E next \in {"running", "joinPipeline"} : Go(p, next)
  /\ UNCHANGED <<files, local, cmd, history>>

(* run_focus_hook returns when the hook is stopped (a stop that came before *)
(* the hook ran may be lost) or when it fails.                              *)
FocusHookReturns(p) ==
  /\ pc[p] = "running" /\ Go(p, "joinPipeline")
  /\ UNCHANGED <<files, local, cmd, history>>

(* Ctrl-C: the handler sends Shutdown and stops the focus hook; without a  *)
(* handler the process ends.                                               *)
Interrupt(p) ==
  /\ Alive(p) /\ ~told[p]
  /\ \/ /\ handler[p]
        /\ told' = [told EXCEPT ![p] = TRUE]
        /\ hookStops' = [hookStops EXCEPT ![p] = pc[p] = "running"]
        /\ UNCHANGED <<pc, alive, status, handler>>
     \/ ~handler[p] /\ End(p, "dead")
  /\ UNCHANGED <<files, run, cmd, history>>

(* The pipeline ends when it was told to. *)
PipelineEnds(p) ==
  /\ "pipeline" \in alive[p] /\ told[p]
  /\ alive' = [alive EXCEPT ![p] = @ \ {"pipeline"}]
  /\ UNCHANGED <<files, pc, run, status, handler, told, hookStops, cmd, history>>

(* A server thread ends only by a panic: its loop has no way out.  Before  *)
(* it is joined nobody notices.                                            *)
ServerPanics(p) ==
  /\ pc[p] \in {"joinGrpc", "joinHttp", "joinApi"}
  /\ \E t \in {"grpc", "http"} \cap alive[p] : alive' = [alive EXCEPT ![p] = @ \ {t}]
  /\ UNCHANGED <<files, pc, run, status, handler, told, hookStops, cmd, history>>

(* CoordinatorShutdownGuard: join the pipeline, then the servers one after *)
(* the other, then remove the sockets.                                     *)
JoinPipeline(p) ==
  /\ pc[p] = "joinPipeline"
  /\ \/ status[p]["pipeline"] = "Running" /\ Mark(p, "pipeline", "Joining") /\ UNCHANGED pc
     \/ /\ status[p]["pipeline"] = "Joining" /\ "pipeline" \notin alive[p]
        /\ Mark(p, "pipeline", "Joined") /\ Go(p, "joinApi")
  /\ UNCHANGED <<files, run, alive, handler, told, hookStops, cmd, history>>

\* mutation: the servers are not waited for
JoinApiSkips(p) ==
  /\ pc[p] = "joinApi" /\ Go(p, "removeSockets")
  /\ UNCHANGED <<files, local, cmd, history>>

JoinApi(p) ==
  /\ pc[p] = "joinApi"
  /\ \/ \E t \in {"grpc", "http"} :
          /\ t = "http" => status[p]["grpc"] = "Panicked"
          /\ \/ status[p][t] = "Running" /\ Mark(p, t, "Joining")
             \/ status[p][t] = "Joining" /\ t \notin alive[p] /\ Mark(p, t, "Panicked")
        /\ UNCHANGED pc
     \/ /\ status[p]["http"] = "Panicked" /\ Go(p, "removeSockets")
        /\ UNCHANGED status
  /\ UNCHANGED <<files, run, alive, handler, told, hookStops, cmd, history>>

(* cleanup_socket_files removes them whosever they are. *)
RemoveSockets(p) ==
  /\ pc[p] = "removeSockets" /\ Go(p, "removeOwnPid")
  /\ socket' = None
  /\ UNCHANGED <<pidFile, lockFile, tmpFile, runFile, local, cmd, history>>

(* cleanup_pid_file, or PidFileGuard after an error: the pid file is       *)
(* removed if it is the process's own, the lock whosever it is.            *)
RemoveOwnPid(p) ==
  /\ pc[p] = "removeOwnPid" /\ Go(p, "unlock")
  /\ pidFile' = IF pidFile = p THEN None ELSE pidFile
  /\ UNCHANGED <<lockFile, tmpFile, runFile, socket, local, cmd, history>>

Unlock(p) ==
  /\ pc[p] = "unlock" /\ End(p, "exited")
  /\ lockFile' = FALSE
  /\ UNCHANGED <<pidFile, tmpFile, runFile, socket, run, cmd, history>>

Coordinate(p) ==
  \/ OpenStore(p) \/ StartApi(p) \/ ServerFailed(p) \/ SpawnPipeline(p) \/ BuildFocusHook(p)
  \/ SetupShutdownHandler(p) \/ RunUiohook(p) \/ JoinPipeline(p) \/ JoinApi(p)
  \/ RemoveSockets(p) \/ RemoveOwnPid(p) \/ Unlock(p)

(* A crash, or the SIGTERM of kronictl stop, which nothing handles. *)
Die(p) ==
  /\ Alive(p) /\ End(p, "dead")
  /\ UNCHANGED <<files, run, cmd, history>>

-----------------------------------------------------------------------------
(* kronictl *)

Step(c, at) == cmd' = [cmd EXCEPT ![c].at = at]
AfterStop(c) == IF cmd[c].op = "restart" THEN "loadRun" ELSE "done"

(* stop_daemon reads the pid file and asks for the process.  SIGTERM kills *)
(* it; a moment later it is looked for again.                              *)
BeginStop(c, op) ==
  /\ cmd[c].at = "idle" /\ MayBegin /\ Enter
  /\ \/ /\ pidFile = None
        /\ cmd' = [cmd EXCEPT ![c] = [op |-> op, at |-> IF op = "restart" THEN "loadRun" ELSE "done",
                                      pid |-> None, run |-> None]]
     \/ /\ pidFile # None
        /\ cmd' = [cmd EXCEPT ![c] = [op |-> op, at |-> IF Alive(pidFile) THEN "signal" ELSE "forget",
                                      pid |-> IF Alive(pidFile) THEN pidFile ELSE None, run |-> None]]
  /\ UNCHANGED <<files, pc, local, shadowed>>

Signal(c) ==
  /\ cmd[c].at = "signal" /\ Step(c, "wait")
  /\ IF Alive(cmd[c].pid)
     THEN End(cmd[c].pid, "dead")
     ELSE UNCHANGED <<pc, alive, status, handler, told, hookStops>>
  /\ UNCHANGED <<files, run, history>>

(* The pid file is removed, whosever it is by now. *)
Forget(c) ==
  /\ cmd[c].at \in {"wait", "forget"} /\ Step(c, AfterStop(c))
  /\ pidFile' = None
  /\ UNCHANGED <<pc, lockFile, tmpFile, runFile, socket, local, history>>

\* mutation: the restarted daemon gets a new run id
LoadRunForgets(c) ==
  /\ cmd[c].at = "loadRun" /\ Step(c, "begin")
  /\ UNCHANGED <<files, pc, local, history>>

(* load_previous_run_id *)
LoadRun(c) ==
  /\ cmd[c].at = "loadRun"
  /\ cmd' = [cmd EXCEPT ![c].at = "begin", ![c].run = runFile]
  /\ UNCHANGED <<files, pc, local, history>>

(* start_daemon, on its own or at the end of a restart. *)
BeginStart(c) ==
  /\ \/ cmd[c].at = "idle" /\ MayBegin /\ Enter
     \/ cmd[c].at = "begin" /\ UNCHANGED raced
  /\ cmd' = [cmd EXCEPT ![c].at = IF pidFile = None THEN "spawn"
                                  ELSE IF Alive(pidFile) THEN "done" ELSE "clear"]
  /\ UNCHANGED <<files, pc, local, shadowed>>

ClearPid(c) ==
  /\ cmd[c].at = "clear" /\ Step(c, "spawn")
  /\ pidFile' = None
  /\ UNCHANGED <<pc, lockFile, tmpFile, runFile, socket, local, history>>

\* mutation: a missing run id is passed on
SpawnKronidNull(c, p) ==
  /\ cmd[c].at = "spawn" /\ Step(c, "done")
  /\ pc[p] = "unborn" /\ Go(p, "born")
  /\ run' = [run EXCEPT ![p] = cmd[c].run]
  /\ UNCHANGED <<files, alive, status, handler, told, hookStops, history>>

SpawnKronid(c, p) ==
  /\ cmd[c].at = "spawn" /\ Step(c, "done")
  /\ pc[p] = "unborn" /\ Go(p, "born")
  /\ run' = IF cmd[c].run = None THEN run ELSE [run EXCEPT ![p] = cmd[c].run]
  /\ UNCHANGED <<files, alive, status, handler, told, hookStops, history>>

Control(c) ==
  \/ \E op \in {"stop", "restart"} : BeginStop(c, op)
  \/ Signal(c) \/ Forget(c) \/ LoadRun(c) \/ BeginStart(c) \/ ClearPid(c)
  \/ \E p \in Proc : SpawnKronid(c, p)

-----------------------------------------------------------------------------
Init ==
  /\ pidFile = None /\ lockFile = FALSE /\ tmpFile = None /\ runFile = None /\ socket = None
  /\ pc = [p \in Proc |-> "unborn"] /\ run = [p \in Proc |-> p]
  /\ alive = [p \in Proc |-> {}] /\ status = [p \in Proc |-> [t \in Thread |-> "Reserved"]]
  /\ handler = [p \in Proc |-> FALSE] /\ told = [p \in Proc |-> FALSE] /\ hookStops = [p \in Proc |-> FALSE]
  /\ cmd = [c \in Client |-> [op |-> "start", at |-> "idle", pid |-> None, run |-> None]]
  /\ raced = FALSE /\ shadowed = {}

Next ==
  \/ \E p \in Proc : \/ Launch(p) \/ Claim(p) \/ Coordinate(p) \/ FocusHookReturns(p)
                     \/ Interrupt(p) \/ PipelineEnds(p) \/ ServerPanics(p) \/ Die(p)
  \/ \E c \in Client : Control(c)

Spec == Init /\ [][Next]_vars

(* A process runs on, its focus hook returns if it was stopped while it    *)
(* ran, and a pipeline told to end does.  Nobody starts, stops, interrupts *)
(* or kills anything, and no server panics, by force.                      *)
MainThread(p) == Claim(p) \/ Coordinate(p) \/ (hookStops[p] /\ FocusHookReturns(p))

Fairness == \A p \in Proc : WF_vars(MainThread(p)) /\ WF_vars(PipelineEnds(p))

FairSpec == Spec /\ Fairness

-----------------------------------------------------------------------------
(* Properties *)

TypeOK ==
  /\ {pidFile, tmpFile, runFile, socket} \subseteq Proc \cup {None} /\ lockFile \in BOOLEAN
  /\ pc \in [Proc -> Place] /\ run \in [Proc -> Proc]
  /\ alive \in [Proc -> SUBSET Thread] /\ status \in [Proc -> [Thread -> ThreadStatus]]
  /\ handler \in [Proc -> BOOLEAN] /\ told \in [Proc -> BOOLEAN] /\ hookStops \in [Proc -> BOOLEAN]
  /\ cmd \in [Client -> [op : {"start", "stop", "restart"},
                         at : {"idle", "signal", "wait", "forget", "loadRun", "begin", "clear", "spawn", "done"},
                         pid : Proc \cup {None}, run : Proc \cup {None}]]
  /\ raced \in BOOLEAN /\ shadowed \subseteq Proc

(* One daemon: as long as no two start-ups or commands overlapped on the   *)
(* files, at most one process is up, the pid file is its own, and so is    *)
(* the socket once its servers run.  Crashes at any step do not matter.    *)
OneDaemon ==
  raced \/ \A p \in Proc : Up(p) =>
    /\ \A q \in Proc \ {p} : ~Up(q)
    /\ pidFile = p
    /\ pc[p] \notin {"openStore", "startApi"} => socket \in {p, None}

(* Whatever files crashed processes left behind, a start that overlaps no  *)
(* other claims the workspace: it is turned away only by a live daemon.    *)
StaleFilesRecovered == \A p \in Proc : pc[p] = "failed" => raced

(* A restart goes on with the run of the daemon it stopped, unless another *)
(* kronid, turned away or not, wrote its run id while that daemon lived.   *)
RestartKeepsRun ==
  \A c \in Client :
    cmd[c].op = "restart" /\ cmd[c].at \in {"begin", "clear", "spawn"} /\ cmd[c].pid # None
      => raced \/ cmd[c].pid \in shadowed \/ cmd[c].run = run[cmd[c].pid]

(* When the coordinator has returned and the pid file is given up, no      *)
(* worker thread is left that anybody still answers for.                   *)
WorkersStopped ==
  \A p \in Proc : pc[p] \in Leaving =>
    \A t \in alive[p] : status[p][t] = "Detached"

(* Places a process stays in for good: a server that is alive but was not  *)
(* ready in time is joined, a pipeline nobody told to end is joined after  *)
(* a hook failed, and the servers are joined although they never end.      *)
Stuck(p) ==
  \/ pc[p] \in {"joinGrpc", "joinHttp", "joinApi"} /\ alive[p] \cap {"grpc", "http"} # {}
  \/ pc[p] = "joinPipeline" /\ ~told[p]

(* A start-up ends with a running daemon, by being turned away, or stuck.  *)
(* After Ctrl-C the pipeline ends, whatever failed before, and the process *)
(* is gone, stuck on its servers, or still in a focus hook that was told   *)
(* to stop before it ran.                                                  *)
StartsAndStopsEnd ==
  \A p \in Proc :
    pc[p] = "born" \/ told[p] ~>
      /\ pc[p] \in Gone \/ Stuck(p) \/ (pc[p] = "running" /\ ~hookStops[p])
      /\ told[p] => "pipeline" \notin alive[p]
=============================================================================
