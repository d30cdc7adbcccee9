---------------------------- MODULE DaemonProofs ----------------------------
(***************************************************************************)
(* One daemon at a time, stale files that never block a start, restarts    *)
(* that keep their run and workers that are stopped in time: the safety    *)
(* properties of Daemon for any number of processes and commands, whether  *)
(* or not what follows an overlap is explored.                             *)
(***************************************************************************)
EXTENDS Daemon, TLAPS

-----------------------------------------------------------------------------
(* The inductive invariant *)

Past(p) == pc[p] \notin {"unborn", "born"}
Active(c) == cmd[c].at \notin {"idle", "done"}
Holds(p) == Up(p) \/ pc[p] = "removeOwnPid"

(* A pid in a file or in a command is that of a process that once ran.     *)
PidsKnown ==
  /\ pidFile # None => Past(pidFile)
  /\ tmpFile # None => Past(tmpFile)
  /\ \A c \in Client : cmd[c].pid # None => Past(cmd[c].pid)

(* Without an overlap one start-up or command works on the files.          *)
OneAtATime ==
  raced \/ /\ \A p, q \in Proc : pc[p] \in Claiming /\ pc[q] \in Claiming => p = q
           /\ \A c, d \in Client : Active(c) /\ Active(d) => c = d
           /\ \A p \in Proc, c \in Client : ~(pc[p] \in Claiming /\ Active(c))

NobodyHolds == \A q \in Proc : ~Holds(q)

(* It has found nobody at home, or it owns what it made.                   *)
ClaimInv ==
  raced \/ \A p \in Proc :
    /\ pc[p] = "createLock" => ~lockFile
    /\ pc[p] = "rename" => tmpFile = p
    /\ pc[p] = "verify" \/ Holds(p) => pidFile = p
    /\ pc[p] \in Claiming \ {"check"} => NobodyHolds

SocketInv ==
  raced \/ \A p \in Proc : Up(p) /\ pc[p] \notin {"openStore", "startApi"} => socket \in {p, None}

(* A command removes a pid file only after it has found its process dead.  *)
CmdInv ==
  raced \/ \A c \in Client :
    /\ cmd[c].at = "signal" => pidFile \in {None, cmd[c].pid}
    /\ cmd[c].at \in {"wait", "forget", "clear"} => NobodyHolds

FilesInv == PidsKnown /\ OneAtATime /\ ClaimInv /\ SocketInv /\ CmdInv

(* The run id file is that of any live process nobody has shadowed, and    *)
(* stays so while a command works on the files.                            *)
RunInv ==
  /\ \A p \in Proc : Past(p) /\ Alive(p) => p \in shadowed \/ runFile = run[p]
  /\ \A c \in Client : cmd[c].at = "idle" => cmd[c].op = "start"
  /\ raced \/ \A c \in Client :
       cmd[c].pid # None /\ cmd[c].at \in {"signal", "wait", "forget", "loadRun"}
         => cmd[c].pid \in shadowed \/ runFile = run[cmd[c].pid]

(* Which threads a process has and what its registry says, by its place.   *)
Servers == {"grpc", "http"}

ThreadsAt(p) ==
  /\ pc[p] \in {"unborn", "born", "openStore", "startApi"} \cup Claiming \cup Gone => alive[p] = {}
  /\ pc[p] = "joinGrpc" => alive[p] \subseteq {"grpc"}
  /\ pc[p] \in {"joinHttp", "spawnPipeline", "joinApi"} => alive[p] \subseteq Servers
  /\ pc[p] \in {"spawnPipeline", "buildHook", "setHandler", "runUiohook", "running", "joinPipeline"}
       => \A t \in Servers : status[p][t] = "Running"
  /\ pc[p] = "joinApi" =>
       /\ \A t \in Servers : status[p][t] = "Panicked" => t \notin alive[p]
       /\ status[p]["http"] = "Panicked" => status[p]["grpc"] = "Panicked"
  /\ pc[p] \in {"removeSockets"} \cup Leaving => \A t \in alive[p] : status[p][t] = "Detached"

ThreadsInv == \A p \in Proc : ThreadsAt(p)

-----------------------------------------------------------------------------
(* Types *)

Registry == [Proc -> [Thread -> ThreadStatus]]
Commands == [Client -> [op : {"start", "stop", "restart"},
                        at : {"idle", "signal", "wait", "forget", "loadRun", "begin", "clear", "spawn", "done"},
                        pid : Proc \cup {None}, run : Proc \cup {None}]]

(* A command signals only a process whose pid it has read: without this    *)
(* the types are not inductive.                                            *)
TypeInv == TypeOK /\ \A c \in Client : cmd[c].at = "signal" => cmd[c].pid \in Proc

(* What it means that one entry of the registry or one command changes.    *)
Marked(p, t, s) ==
  /\ status' \in Registry
  /\ \A q \in Proc, u \in Thread : status'[q][u] = IF q = p /\ u = t THEN s ELSE status[q][u]

Moved(c, a) ==
  /\ cmd' \in Commands
  /\ cmd'[c].at = a /\ cmd'[c].op = cmd[c].op /\ cmd'[c].pid = cmd[c].pid
  /\ \A d \in Client : d # c => cmd'[d] = cmd[d]

LEMMA MarkMarks ==
  ASSUME status \in Registry, NEW p \in Proc, NEW t \in Thread, NEW s \in ThreadStatus, Mark(p, t, s)
  PROVE  Marked(p, t, s)
  BY DEF Registry, Marked, Mark

LEMMA StepMoves ==
  ASSUME cmd \in Commands, NEW c \in Client,
         NEW a \in {"idle", "signal", "wait", "forget", "loadRun", "begin", "clear", "spawn", "done"},
         Step(c, a)
  PROVE  Moved(c, a) /\ cmd'[c].run = cmd[c].run
  BY DEF Commands, Moved, Step

LEMMA LoadRunMoves ==
  ASSUME cmd \in Commands, runFile \in Proc \cup {None}, NEW c \in Client, LoadRun(c)
  PROVE  Moved(c, "begin") /\ cmd'[c].run = runFile
  <1> DEFINE r == [cmd[c] EXCEPT !.at = "begin", !.run = runFile]
  <1>1. /\ r \in [op : {"start", "stop", "restart"},
                  at : {"idle", "signal", "wait", "forget", "loadRun", "begin", "clear", "spawn", "done"},
                  pid : Proc \cup {None}, run : Proc \cup {None}]
        /\ r.at = "begin" /\ r.op = cmd[c].op /\ r.pid = cmd[c].pid /\ r.run = runFile
    BY DEF Commands
  <1>2. cmd' = [cmd EXCEPT ![c] = r]
    BY DEF LoadRun, Commands
  <1> HIDE DEF r
  <1> QED
    BY <1>1, <1>2 DEF Commands, Moved

(* A process ends with no threads. *)
LEMMA EndType ==
  ASSUME TypeOK, NEW p \in Proc, NEW l \in Place, End(p, l)
  PROVE  /\ pc' \in [Proc -> Place] /\ alive' \in [Proc -> SUBSET Thread]
         /\ status' \in [Proc -> [Thread -> ThreadStatus]]
         /\ handler' \in [Proc -> BOOLEAN] /\ told' \in [Proc -> BOOLEAN]
         /\ hookStops' \in [Proc -> BOOLEAN]
  <1>1. [t \in Thread |-> "Reserved"] \in [Thread -> ThreadStatus]
    BY DEF ThreadStatus
  <1> QED
    BY <1>1 DEF TypeOK, End, Go

(* Claiming the workspace keeps every variable's type. *)
LEMMA ClaimType ==
  ASSUME TypeOK, NEW p \in Proc, Claim(p)
  PROVE  TypeOK'
  <1> USE DEF TypeOK, files, local, history, Go, Place, Claiming, Starting, Gone
  <1>1. CASE WriteRunId(p)
    BY <1>1 DEF WriteRunId, Enter
  <1>2. CASE CheckPidFile(p)
    BY <1>2 DEF CheckPidFile
  <1>3. CASE RemoveStalePid(p)
    BY <1>3 DEF RemoveStalePid
  <1>4. CASE RemoveStaleLock(p)
    BY <1>4 DEF RemoveStaleLock
  <1>5. CASE CreateLock(p)
    BY <1>5 DEF CreateLock
  <1>6. CASE WriteTmp(p)
    BY <1>6 DEF WriteTmp
  <1>7. CASE RenameTmp(p)
    <2>1. lockFile' \in BOOLEAN
      BY <1>7, Zenon DEF RenameTmp
    <2>2. {pidFile', tmpFile'} \subseteq Proc \cup {None}
      BY <1>7 DEF RenameTmp
    <2>3. pc' \in [Proc -> Place]
      BY <1>7 DEF RenameTmp
    <2> QED
      BY <1>7, <2>1, <2>2, <2>3 DEF RenameTmp
  <1>8. CASE VerifyPidFile(p)
    BY <1>8 DEF VerifyPidFile
  <1> QED
    BY <1>1, <1>2, <1>3, <1>4, <1>5, <1>6, <1>7, <1>8 DEF Claim

(* So does the coordinator. *)
LEMMA CoordinateType ==
  ASSUME TypeOK, NEW p \in Proc, Coordinate(p) \/ FocusHookReturns(p)
  PROVE  TypeOK'
  <1> USE DEF TypeOK, files, local, history, Go, Place, Starting, Ending, Leaving, Thread
  <1>1. CASE OpenStore(p)
    BY <1>1 DEF OpenStore
  <1>2. CASE StartApi(p)
    <2>1. status' \in Registry
      <3>1. {"Running", "Joining"} \subseteq ThreadStatus /\ status \in Registry
        BY DEF ThreadStatus, Registry
      <3> QED
        <4>1. CASE status' = [status EXCEPT ![p]["grpc"] = "Joining"]
          BY <3>1, <4>1, MarkMarks DEF Mark, Marked
        <4>2. ASSUME NEW s \in ThreadStatus,
                     status' = [status EXCEPT ![p]["grpc"] = "Running", ![p]["http"] = s]
              PROVE  status' \in Registry
          BY ONLY <3>1, <4>2, p \in Proc DEF Registry, Thread
        <4> QED
          BY <1>2, <3>1, <4>1, <4>2 DEF StartApi
    <2>2. alive' \in [Proc -> SUBSET Thread]
      BY <1>2 DEF StartApi
    <2>3. pc' \in [Proc -> Place]
      BY <1>2 DEF StartApi
    <2> QED
      BY <1>2, <2>1, <2>2, <2>3 DEF StartApi, Registry
  <1>3. CASE ServerFailed(p)
    BY <1>3 DEF ServerFailed, ThreadStatus
  <1>4. CASE SpawnPipeline(p)
    <2>1. status' \in Registry
      <3>1. "Running" \in ThreadStatus /\ status \in Registry
        BY DEF ThreadStatus, Registry
      <3> QED
        BY <1>4, <3>1, MarkMarks DEF SpawnPipeline, Spawn, Mark, Marked
    <2>2. alive' \in [Proc -> SUBSET Thread]
      <3>1. CASE UNCHANGED alive
        BY <3>1
      <3>2. CASE alive' = [alive EXCEPT ![p] = @ \cup {"pipeline"}]
        BY <3>2
      <3> QED
        BY <1>4, <3>1, <3>2 DEF SpawnPipeline, Spawn
    <2>3. pc' \in [Proc -> Place]
      BY <1>4 DEF SpawnPipeline
    <2> QED
      BY <1>4, <2>1, <2>2, <2>3 DEF SpawnPipeline, Registry
  <1>5. CASE BuildFocusHook(p) \/ RunUiohook(p) \/ FocusHookReturns(p)
    BY <1>5 DEF BuildFocusHook, RunUiohook, FocusHookReturns
  <1>6. CASE SetupShutdownHandler(p)
    BY <1>6 DEF SetupShutdownHandler
  <1>7. CASE JoinPipeline(p)
    <2>1. status' \in Registry
      <3>1. {"Joining", "Joined"} \subseteq ThreadStatus /\ status \in Registry
        BY DEF ThreadStatus, Registry
      <3> QED
        BY <1>7, <3>1, MarkMarks DEF JoinPipeline, Marked
    <2>2. pc' \in [Proc -> Place]
      BY <1>7 DEF JoinPipeline
    <2> QED
      BY <1>7, <2>1, <2>2 DEF JoinPipeline, Registry
  <1>8. CASE JoinApi(p)
    <2>1. status' \in Registry
      <3>1. {"Joining", "Panicked"} \subseteq ThreadStatus /\ status \in Registry
        BY DEF ThreadStatus, Registry
      <3> QED
        BY <1>8, <3>1, MarkMarks DEF JoinApi, Marked
    <2>2. pc' \in [Proc -> Place]
      BY <1>8 DEF JoinApi
    <2> QED
      BY <1>8, <2>1, <2>2 DEF JoinApi, Registry
  <1>9. CASE RemoveSockets(p) \/ RemoveOwnPid(p)
    BY <1>9 DEF RemoveSockets, RemoveOwnPid
  <1>10. CASE Unlock(p)
    <2>1. End(p, "exited") /\ "exited" \in Place
      BY <1>10 DEF Unlock, Gone
    <2> QED
      BY <1>10, <2>1, EndType DEF Unlock
  <1> QED
    BY <1>1, <1>2, <1>3, <1>4, <1>5, <1>6, <1>7, <1>8, <1>9, <1>10 DEF Coordinate

(* And what happens to a process from outside. *)
LEMMA OutsideType ==
  ASSUME TypeOK, NEW p \in Proc,
         Launch(p) \/ Interrupt(p) \/ PipelineEnds(p) \/ ServerPanics(p) \/ Die(p)
  PROVE  TypeOK'
  <1> USE DEF TypeOK, files, local, history, Go
  <1>1. CASE Launch(p)
    BY <1>1 DEF Launch, Place
  <1>2. ASSUME End(p, "dead"), UNCHANGED <<files, run, cmd, history>> PROVE TypeOK'
    <2>1. "dead" \in Place
      BY DEF Place, Gone
    <2> QED
      BY <1>2, <2>1, EndType
  <1>3. CASE Interrupt(p)
    BY <1>2, <1>3 DEF Interrupt
  <1>4. CASE PipelineEnds(p) \/ ServerPanics(p)
    <2>1. alive' \in [Proc -> SUBSET Thread]
      BY <1>4 DEF PipelineEnds, ServerPanics
    <2> QED
      BY <1>4, <2>1 DEF PipelineEnds, ServerPanics
  <1>5. CASE Die(p)
    BY <1>2, <1>5 DEF Die
  <1> QED
    BY <1>1, <1>3, <1>4, <1>5

(* And kronictl. *)
LEMMA ControlType ==
  ASSUME TypeInv, NEW c \in Client, Control(c)
  PROVE  TypeOK' /\ (cmd'[c].at = "signal" => cmd'[c].pid \in Proc)
  <1> USE DEF TypeInv, TypeOK, files, local, history, Go
  <1>0. cmd \in Commands
    BY DEF Commands
  <1>1. ASSUME NEW op \in {"stop", "restart"}, BeginStop(c, op)
        PROVE  TypeOK' /\ (cmd'[c].at = "signal" => cmd'[c].pid \in Proc)
    BY <1>1 DEF BeginStop, Enter
  <1>2. CASE Signal(c)
    <2>1. cmd' \in Commands /\ cmd'[c].at = "wait"
      BY <1>0, <1>2, StepMoves DEF Signal, Moved
    <2>2. cmd[c].pid \in Proc
      BY <1>2 DEF Signal
    <2>3. CASE Alive(cmd[c].pid)
      <3>1. End(cmd[c].pid, "dead") /\ "dead" \in Place
        BY <1>2, <2>3 DEF Signal, Place, Gone
      <3> QED
        BY <1>2, <2>1, <2>2, <3>1, EndType DEF Signal, Commands
    <2>4. CASE ~Alive(cmd[c].pid)
      BY <1>2, <2>1, <2>4 DEF Signal, Commands
    <2> QED
      BY <2>3, <2>4
  <1>3. CASE Forget(c)
    <2>1. cmd' \in Commands /\ cmd'[c].at \in {"loadRun", "done"}
      BY <1>0, <1>3, StepMoves DEF Forget, AfterStop, Moved
    <2> QED
      BY <1>3, <2>1 DEF Forget, Commands
  <1>4. CASE LoadRun(c)
    <2>1. cmd' \in Commands /\ cmd'[c].at = "begin"
      BY <1>0, <1>4, LoadRunMoves DEF Moved
    <2> QED
      BY <1>4, <2>1 DEF LoadRun, Commands
  <1>5. CASE BeginStart(c)
    <2>1. cmd' \in Commands /\ cmd'[c].at \in {"spawn", "done", "clear"}
      BY <1>0, <1>5, StepMoves DEF BeginStart, Step, Moved
    <2> QED
      BY <1>5, <2>1 DEF BeginStart, Enter, Commands
  <1>6. CASE ClearPid(c)
    <2>1. cmd' \in Commands /\ cmd'[c].at = "spawn"
      BY <1>0, <1>6, StepMoves DEF ClearPid, Moved
    <2> QED
      BY <1>6, <2>1 DEF ClearPid, Commands
  <1>7. ASSUME NEW p \in Proc, SpawnKronid(c, p)
        PROVE  TypeOK' /\ (cmd'[c].at = "signal" => cmd'[c].pid \in Proc)
    <2>1. cmd' \in Commands /\ cmd'[c].at = "done"
      BY <1>0, <1>7, StepMoves DEF SpawnKronid, Moved
    <2> QED
      BY <1>7, <2>1 DEF SpawnKronid, Commands, Place
  <1> QED
    BY <1>1, <1>2, <1>3, <1>4, <1>5, <1>6, <1>7 DEF Control

(* The types are inductive, together with the pids of the signals. *)
LEMMA TypeStep == TypeInv /\ [Next]_vars => TypeInv'
  <1> SUFFICES ASSUME TypeInv, [Next]_vars PROVE TypeInv'
    OBVIOUS
  <1>0. TypeOK
    BY DEF TypeInv
  <1>1. ASSUME TypeOK', UNCHANGED cmd PROVE TypeInv'
    BY <1>1 DEF TypeInv
  <1>2. ASSUME NEW p \in Proc, Claim(p) PROVE TypeInv'
    <2>1. UNCHANGED cmd
      BY <1>2 DEF Claim, WriteRunId, CheckPidFile, RemoveStalePid, RemoveStaleLock, CreateLock,
                  WriteTmp, RenameTmp, VerifyPidFile
    <2> QED
      BY <1>0, <1>1, <1>2, <2>1, ClaimType
  <1>3. ASSUME NEW p \in Proc, Coordinate(p) \/ FocusHookReturns(p) PROVE TypeInv'
    <2>1. UNCHANGED cmd
      BY <1>3 DEF Coordinate, FocusHookReturns, OpenStore, StartApi, ServerFailed, SpawnPipeline,
                  BuildFocusHook, SetupShutdownHandler, RunUiohook, JoinPipeline, JoinApi,
                  RemoveSockets, RemoveOwnPid, Unlock
    <2> QED
      BY <1>0, <1>1, <1>3, <2>1, CoordinateType
  <1>4. ASSUME NEW p \in Proc,
               Launch(p) \/ Interrupt(p) \/ PipelineEnds(p) \/ ServerPanics(p) \/ Die(p)
        PROVE  TypeInv'
    <2>1. UNCHANGED cmd
      BY <1>4 DEF Launch, Interrupt, PipelineEnds, ServerPanics, Die
    <2> QED
      BY <1>0, <1>1, <1>4, <2>1, OutsideType
  <1>5. ASSUME NEW c \in Client, Control(c) PROVE TypeInv'
    <2>1. TypeOK' /\ (cmd'[c].at = "signal" => cmd'[c].pid \in Proc)
      BY <1>5, ControlType
    <2>2. \A d \in Client : d # c => cmd'[d] = cmd[d]
      BY <1>0, <1>5 DEF TypeOK, Control, BeginStop, Signal, Forget, LoadRun, BeginStart, ClearPid,
                       SpawnKronid, Step
    <2> QED
      BY <2>1, <2>2 DEF TypeInv
  <1>6. CASE UNCHANGED vars
    BY <1>6 DEF TypeInv, TypeOK, vars, files, local, history
  <1> QED
    BY <1>2, <1>3, <1>4, <1>5, <1>6 DEF Next

LEMMA TypeInit == Init => TypeInv
  <1> SUFFICES ASSUME Init PROVE TypeInv
    OBVIOUS
  <1>1. status \in Registry
    BY DEF Init, Registry, ThreadStatus
  <1>2. cmd \in Commands /\ \A c \in Client : cmd[c].at = "idle"
    BY DEF Init, Commands
  <1>3. pc \in [Proc -> Place] /\ run \in [Proc -> Proc] /\ alive \in [Proc -> SUBSET Thread]
    BY DEF Init, Place
  <1>4. /\ handler \in [Proc -> BOOLEAN] /\ told \in [Proc -> BOOLEAN]
        /\ hookStops \in [Proc -> BOOLEAN] /\ raced \in BOOLEAN /\ lockFile \in BOOLEAN
    BY Zenon DEF Init
  <1> QED
    BY <1>1, <1>2, <1>3, <1>4 DEF Init, TypeInv, TypeOK, Registry, Commands

(* Every variable of Daemon has its type, for any number of processes and  *)
(* kronictl commands.                                                      *)
THEOREM TypeCorrect == Spec => []TypeOK
  <1>1. Spec => []TypeInv
    BY TypeInit, TypeStep, PTL DEF Spec
  <1>2. TypeInv => TypeOK
    BY DEF TypeInv
  <1> QED
    BY <1>1, <1>2, PTL

-----------------------------------------------------------------------------
(* Worker threads *)

(* What happens in one process leaves the others alone. *)
LEMMA OthersKeepThreads ==
  ASSUME ThreadsInv, NEW p \in Proc, ThreadsAt(p)',
         \A q \in Proc : q # p =>
            pc'[q] = pc[q] /\ alive'[q] = alive[q] /\ status'[q] = status[q]
  PROVE  ThreadsInv'
  BY DEF ThreadsInv, ThreadsAt

(* A process that ends takes its threads with it. *)
LEMMA EndThreads ==
  ASSUME TypeOK, ThreadsInv, NEW p \in Proc, NEW l \in Gone, End(p, l)
  PROVE  ThreadsInv'
  <1>1. /\ pc'[p] = l /\ alive'[p] = {}
        /\ \A q \in Proc : q # p =>
              pc'[q] = pc[q] /\ alive'[q] = alive[q] /\ status'[q] = status[q]
    BY DEF TypeOK, End, Go
  <1>2. ThreadsAt(p)'
    BY <1>1 DEF ThreadsAt, Gone, Claiming, Leaving
  <1> QED
    BY <1>1, <1>2, OthersKeepThreads

(* There are no threads while the workspace is being claimed. *)
LEMMA ClaimThreads ==
  ASSUME TypeOK, ThreadsInv, NEW p \in Proc, Claim(p) \/ Launch(p)
  PROVE  ThreadsInv'
  <1>1. /\ pc[p] \in {"unborn", "born"} \cup Claiming
        /\ pc'[p] \in {"born", "openStore", "refused", "failed"} \cup Claiming
        /\ \A q \in Proc : q # p => pc'[q] = pc[q]
        /\ UNCHANGED <<alive, status>>
    BY DEF TypeOK, Claim, Launch, WriteRunId, CheckPidFile, RemoveStalePid, RemoveStaleLock,
           CreateLock, WriteTmp, RenameTmp, VerifyPidFile, Go, Claiming, local
  <1>2. ThreadsAt(p)'
    BY <1>1 DEF ThreadsInv, ThreadsAt, Claiming, Gone, Leaving
  <1> QED
    BY <1>1, <1>2, OthersKeepThreads

(* The coordinator joins the pipeline, then the servers, and only then     *)
(* leaves; a server it does not join it has detached.                      *)
LEMMA CoordinateThreads ==
  ASSUME TypeOK, ThreadsInv, NEW p \in Proc, Coordinate(p) \/ FocusHookReturns(p)
  PROVE  ThreadsInv'
  <1> USE DEF TypeOK, Go, local, Claiming, Gone, Leaving, Servers, Thread
  <1>0. ThreadsAt(p)
    BY DEF ThreadsInv
  <1>1. \A q \in Proc : q # p =>
           pc'[q] = pc[q] /\ alive'[q] = alive[q] /\ status'[q] = status[q]
    BY DEF Coordinate, FocusHookReturns, OpenStore, StartApi, ServerFailed, SpawnPipeline,
           BuildFocusHook, SetupShutdownHandler, RunUiohook, JoinPipeline, JoinApi,
           RemoveSockets, RemoveOwnPid, Unlock, End, Spawn, Mark
  <1>2. ThreadsAt(p)'
    <2>1. CASE OpenStore(p)
      BY <1>0, <2>1 DEF OpenStore, ThreadsAt
    <2>2. CASE StartApi(p)
      BY <1>0, <2>2 DEF StartApi, ThreadsAt
    <2>3. CASE ServerFailed(p)
      BY <1>0, <2>3 DEF ServerFailed, ThreadsAt
    <2>4. CASE SpawnPipeline(p)
      BY <1>0, <2>4 DEF SpawnPipeline, Spawn, ThreadsAt
    <2>5. CASE BuildFocusHook(p) \/ RunUiohook(p) \/ FocusHookReturns(p) \/ SetupShutdownHandler(p)
      BY <1>0, <2>5 DEF BuildFocusHook, RunUiohook, FocusHookReturns, SetupShutdownHandler, ThreadsAt
    <2>6. CASE JoinPipeline(p)
      BY <1>0, <2>6 DEF JoinPipeline, Mark, ThreadsAt
    <2>7. CASE JoinApi(p)
      BY <1>0, <2>7 DEF JoinApi, Mark, ThreadsAt
    <2>8. CASE RemoveSockets(p) \/ RemoveOwnPid(p)
      BY <1>0, <2>8 DEF RemoveSockets, RemoveOwnPid, ThreadsAt
    <2>9. CASE Unlock(p)
      BY <1>0, <2>9 DEF Unlock, End, ThreadsAt
    <2> QED
      BY <2>1, <2>2, <2>3, <2>4, <2>5, <2>6, <2>7, <2>8, <2>9 DEF Coordinate
  <1> QED
    BY <1>1, <1>2, OthersKeepThreads

LEMMA ThreadsStep == TypeInv /\ ThreadsInv /\ [Next]_vars => ThreadsInv'
  <1> SUFFICES ASSUME TypeOK, ThreadsInv, TypeInv, [Next]_vars PROVE ThreadsInv'
    BY DEF TypeInv
  <1>1. ASSUME NEW p \in Proc, Interrupt(p) \/ Die(p) PROVE ThreadsInv'
    <2>1. CASE End(p, "dead")
      BY <2>1, EndThreads DEF Gone
    <2>2. CASE UNCHANGED <<pc, alive, status>>
      BY <2>2 DEF ThreadsInv, ThreadsAt
    <2> QED
      BY <1>1, <2>1, <2>2 DEF Interrupt, Die
  <1>2. ASSUME NEW p \in Proc, PipelineEnds(p) \/ ServerPanics(p) PROVE ThreadsInv'
    <2>1. /\ UNCHANGED <<pc, status>> /\ alive'[p] \subseteq alive[p]
          /\ \A q \in Proc : q # p => alive'[q] = alive[q]
      BY <1>2 DEF TypeOK, PipelineEnds, ServerPanics
    <2>2. ThreadsAt(p)'
      BY <2>1 DEF ThreadsInv, ThreadsAt
    <2> QED
      BY <2>1, <2>2, OthersKeepThreads
  <1>3. ASSUME NEW c \in Client, Control(c) PROVE ThreadsInv'
    <2>1. CASE UNCHANGED <<pc, alive, status>>
      BY <2>1 DEF ThreadsInv, ThreadsAt
    <2>2. CASE Signal(c)
      BY <2>1, <2>2, EndThreads DEF Signal, Gone, TypeInv
    <2>3. ASSUME NEW p \in Proc, SpawnKronid(c, p) PROVE ThreadsInv'
      <3>1. /\ pc[p] = "unborn" /\ pc'[p] = "born" /\ UNCHANGED <<alive, status>>
            /\ \A q \in Proc : q # p => pc'[q] = pc[q]
        BY <2>3 DEF SpawnKronid, Go, TypeOK
      <3>2. ThreadsAt(p)'
        BY <3>1 DEF ThreadsInv, ThreadsAt, Claiming, Leaving
      <3> QED
        BY <3>1, <3>2, OthersKeepThreads
    <2> QED
      BY <1>3, <2>1, <2>2, <2>3 DEF Control, BeginStop, Forget, LoadRun, BeginStart, ClearPid, local
  <1>4. CASE UNCHANGED vars
    BY <1>4 DEF vars, local, ThreadsInv, ThreadsAt
  <1> QED
    BY <1>1, <1>2, <1>3, <1>4, ClaimThreads, CoordinateThreads DEF Next

(* A daemon that gives up its pid file has no worker left that anybody     *)
(* answers for, whichever step of the start-up failed.                     *)
THEOREM WorkersAreStopped == Spec => []WorkersStopped
  <1>1. Init => ThreadsInv
    BY DEF Init, ThreadsInv, ThreadsAt, Leaving
  <1>2. ThreadsInv => WorkersStopped
    BY DEF ThreadsInv, ThreadsAt, WorkersStopped
  <1> QED
    BY <1>1, <1>2, TypeInit, TypeStep, ThreadsStep, PTL DEF Spec

-----------------------------------------------------------------------------
(* The files *)

(* A process makes a step that is not part of claiming the workspace and   *)
(* does not let it hold anything new.                                      *)
Steps(p) ==
  /\ \A q \in Proc : q # p => pc'[q] = pc[q]
  /\ Past(p) => Past(p)'
  /\ pc'[p] \in Claiming => pc[p] \in Claiming /\ pc'[p] = pc[p]
  /\ Holds(p)' => Holds(p)
  /\ Up(p)' => Up(p)

LEMMA PassiveFiles ==
  ASSUME TypeOK, FilesInv, NEW p \in Proc, Steps(p),
         UNCHANGED <<tmpFile, cmd, raced>>,
         pidFile' = pidFile \/ (pidFile = p /\ pidFile' = None /\ ~Holds(p)' /\ pc[p] \notin Claiming),
         lockFile' => lockFile, SocketInv'
  PROVE  FilesInv'
  <1> USE DEF TypeOK, FilesInv, Steps
  <1>1. PidsKnown'
    BY DEF PidsKnown, Past
  <1>2. OneAtATime'
    BY DEF OneAtATime, Active, Claiming
  <1>3. NobodyHolds => NobodyHolds'
    BY DEF NobodyHolds, Holds, Up
  <1>4. ClaimInv'
    BY <1>3 DEF ClaimInv, Holds, Up, Claiming
  <1>5. CmdInv'
    BY <1>3 DEF CmdInv
  <1> QED
    BY <1>1, <1>2, <1>4, <1>5

(* The coordinator of a process. *)
LEMMA CoordinateFiles ==
  ASSUME TypeOK, FilesInv, NEW p \in Proc, Coordinate(p) \/ FocusHookReturns(p)
  PROVE  FilesInv'
  <1> USE DEF TypeOK, Go, local, files, history
  <1>1. Steps(p)
    BY DEF Coordinate, FocusHookReturns, OpenStore, StartApi, ServerFailed, SpawnPipeline,
           BuildFocusHook, SetupShutdownHandler, RunUiohook, JoinPipeline, JoinApi,
           RemoveSockets, RemoveOwnPid, Unlock, End,
           Steps, Past, Holds, Up, Claiming, Starting, Ending
  <1>2. UNCHANGED <<tmpFile, cmd, raced>>
    BY DEF Coordinate, FocusHookReturns, OpenStore, StartApi, ServerFailed, SpawnPipeline,
           BuildFocusHook, SetupShutdownHandler, RunUiohook, JoinPipeline, JoinApi,
           RemoveSockets, RemoveOwnPid, Unlock
  <1>3. pidFile' = pidFile \/ (pidFile = p /\ pidFile' = None /\ ~Holds(p)' /\ pc[p] \notin Claiming)
    BY DEF Coordinate, FocusHookReturns, OpenStore, StartApi, ServerFailed, SpawnPipeline,
           BuildFocusHook, SetupShutdownHandler, RunUiohook, JoinPipeline, JoinApi,
           RemoveSockets, RemoveOwnPid, Unlock, Holds, Up, Starting, Ending, Claiming
  <1>4. lockFile' => lockFile
    BY DEF Coordinate, FocusHookReturns, OpenStore, StartApi, ServerFailed, SpawnPipeline,
           BuildFocusHook, SetupShutdownHandler, RunUiohook, JoinPipeline, JoinApi,
           RemoveSockets, RemoveOwnPid, Unlock
  <1>5. SocketInv'
    <2>1. CASE StartApi(p)
      <3>1. socket' \in {p, None} /\ UNCHANGED raced /\ pc[p] = "startApi"
        BY <2>1 DEF StartApi
      <3>2. raced \/ \A q \in Proc : Up(q) => q = p
        BY <3>1 DEF FilesInv, ClaimInv, Holds, Up, Starting
      <3> QED
        BY <1>1, <3>1, <3>2 DEF SocketInv, Steps, Up
    <2>2. CASE OpenStore(p)
      BY <2>2 DEF OpenStore, FilesInv, SocketInv, Up, Starting, Ending
    <2>3. CASE socket' \in {socket, None} /\ pc[p] \notin {"openStore", "startApi"}
      BY <1>1, <1>2, <2>3 DEF FilesInv, SocketInv, Steps, Holds, Up, Ending, Starting
    <2> QED
      BY <2>1, <2>2, <2>3 DEF Coordinate, FocusHookReturns, ServerFailed, SpawnPipeline,
           BuildFocusHook, SetupShutdownHandler, RunUiohook, JoinPipeline, JoinApi,
           RemoveSockets, RemoveOwnPid, Unlock
  <1> QED
    BY <1>1, <1>2, <1>3, <1>4, <1>5, PassiveFiles

(* What happens to a process from outside. *)
LEMMA OutsideFiles ==
  ASSUME TypeOK, FilesInv, NEW p \in Proc,
         Launch(p) \/ Interrupt(p) \/ PipelineEnds(p) \/ ServerPanics(p) \/ Die(p)
  PROVE  FilesInv'
  <1> USE DEF TypeOK, Go, local, files, history
  <1>1. Steps(p)
    BY DEF Launch, Interrupt, PipelineEnds, ServerPanics, Die, End,
           Steps, Past, Holds, Up, Claiming, Starting, Ending
  <1>2. UNCHANGED <<files, cmd, raced>>
    BY DEF Launch, Interrupt, PipelineEnds, ServerPanics, Die
  <1>3. SocketInv'
    <2>1. CASE UNCHANGED pc
      BY <1>2, <2>1 DEF FilesInv, SocketInv, Up
    <2>2. CASE pc'[p] \in {"born", "dead"}
      BY <1>1, <1>2, <2>2 DEF FilesInv, SocketInv, Steps, Up, Starting, Ending
    <2> QED
      BY <2>1, <2>2 DEF Launch, Interrupt, PipelineEnds, ServerPanics, Die, End
  <1> QED
    BY <1>1, <1>2, <1>3, PassiveFiles

(* Claiming: without an overlap, p is the only one that works on the       *)
(* files; it goes on only when nobody holds the pid file.                  *)
LEMMA ClaimFiles ==
  ASSUME TypeOK, FilesInv, NEW p \in Proc, Claim(p)
  PROVE  FilesInv'
  <1> USE DEF TypeOK, Go, local, files, history
  <1>1. /\ \A q \in Proc : q # p => pc'[q] = pc[q]
        /\ Past(p)' /\ UNCHANGED <<cmd, socket>>
        /\ pc[p] \in {"born"} \cup Claiming
        /\ pc'[p] \in {"openStore", "refused", "failed"} \cup Claiming
        /\ pc[p] = "born" => pc'[p] = "check"
        /\ raced => raced'
    BY DEF Claim, WriteRunId, CheckPidFile, RemoveStalePid, RemoveStaleLock, CreateLock,
           WriteTmp, RenameTmp, VerifyPidFile, Past, Claiming, Enter
  <1>2. PidsKnown'
    BY <1>1 DEF FilesInv, PidsKnown, Claim, WriteRunId, CheckPidFile, RemoveStalePid,
           RemoveStaleLock, CreateLock, WriteTmp, RenameTmp, VerifyPidFile, Past
  <1>3. CASE raced'
    BY <1>2, <1>3 DEF FilesInv, OneAtATime, ClaimInv, SocketInv, CmdInv
  <1>4. CASE ~raced'
    <2>0. ~raced
      BY <1>1, <1>4
    <2>1. \A c \in Client : ~Active(c)
      <3>1. CASE pc[p] \in Claiming
        BY <2>0, <3>1 DEF FilesInv, OneAtATime
      <3>2. CASE WriteRunId(p)
        BY <1>4, <3>2 DEF WriteRunId, Enter, Busy, Active
      <3> QED
        BY <3>1, <3>2 DEF Claim, CheckPidFile, RemoveStalePid, RemoveStaleLock, CreateLock,
           WriteTmp, RenameTmp, VerifyPidFile, Claiming
    <2>2. \A q \in Proc : q # p => pc[q] \notin Claiming
      <3>1. CASE pc[p] \in Claiming
        BY <2>0, <3>1 DEF FilesInv, OneAtATime
      <3>2. CASE WriteRunId(p)
        BY <1>4, <3>2 DEF WriteRunId, Enter, Busy
      <3> QED
        BY <3>1, <3>2 DEF Claim, CheckPidFile, RemoveStalePid, RemoveStaleLock, CreateLock,
           WriteTmp, RenameTmp, VerifyPidFile, Claiming
    <2>3. OneAtATime'
      BY <1>1, <2>1, <2>2 DEF OneAtATime, Active
    <2>4. CmdInv'
      BY <1>1, <2>1 DEF CmdInv, Active
    <2>5. \A q \in Proc : Holds(q) => pidFile = q
      BY <2>0 DEF FilesInv, ClaimInv
    <2>6. pc'[p] \in Claiming \ {"check"} => NobodyHolds
      <3>1. CASE pc[p] \in Claiming \ {"check"}
        BY <2>0, <3>1 DEF FilesInv, ClaimInv
      <3>2. CASE CheckPidFile(p)
        BY <2>5, <3>2, DaemonAssumption
           DEF CheckPidFile, NobodyHolds, Holds, Up, Alive, Claiming, Gone, Starting, Ending
      <3> QED
        BY <1>1, <3>1, <3>2 DEF Claim, WriteRunId, RemoveStalePid, RemoveStaleLock, CreateLock,
           WriteTmp, RenameTmp, VerifyPidFile, Claiming
    <2>7. pc'[p] \in Claiming => ~Holds(p)'
      BY DEF Holds, Up, Claiming, Starting, Ending
    <2>8. NobodyHolds /\ pc'[p] \in Claiming => NobodyHolds'
      BY <1>1, <2>7 DEF NobodyHolds, Holds, Up
    <2>9. /\ pc'[p] = "createLock" => ~lockFile'
          /\ pc'[p] = "rename" => tmpFile' = p
          /\ pc'[p] = "verify" => pidFile' = p
          /\ pc'[p] = "openStore" => pidFile' = p
      BY <2>0, DaemonAssumption
         DEF FilesInv, ClaimInv, Claim, WriteRunId, CheckPidFile, RemoveStalePid, RemoveStaleLock,
             CreateLock, WriteTmp, RenameTmp, VerifyPidFile
    <2>10. pidFile' # pidFile => NobodyHolds
      <3>1. CASE RemoveStalePid(p) \/ RenameTmp(p)
        BY <2>0, <3>1 DEF RemoveStalePid, RenameTmp, FilesInv, ClaimInv, Claiming
      <3> QED
        BY <3>1 DEF Claim, WriteRunId, CheckPidFile, RemoveStaleLock, CreateLock, WriteTmp,
                    VerifyPidFile
    <2>11. pc'[p] = "openStore" => NobodyHolds
      BY <2>0 DEF FilesInv, ClaimInv, Claiming, Claim, WriteRunId, CheckPidFile, RemoveStalePid,
         RemoveStaleLock, CreateLock, WriteTmp, RenameTmp, VerifyPidFile
    <2>12. \A q \in Proc : q # p => (Holds(q)' <=> Holds(q)) /\ (Up(q)' <=> Up(q))
      BY <1>1 DEF Holds, Up
    <2>13. ClaimInv'
      <3>1. ASSUME NEW q \in Proc, q # p
            PROVE  /\ pc'[q] \notin Claiming
                   /\ Holds(q)' => pidFile' = q
        BY <1>1, <2>2, <2>5, <2>10, <2>12, <3>1 DEF NobodyHolds
      <3>2. Holds(p)' => pidFile' = p
        BY <1>1, <2>7, <2>9 DEF Holds, Up, Starting, Ending
      <3> QED
        BY <2>6, <2>8, <2>9, <3>1, <3>2 DEF ClaimInv, Claiming
    <2>14. SocketInv'
      BY <1>1, <2>0, <2>7, <2>12 DEF FilesInv, SocketInv, Holds, Up, Starting, Ending
    <2> QED
      BY <1>2, <2>3, <2>4, <2>13, <2>14 DEF FilesInv
  <1> QED
    BY <1>3, <1>4

(* A command changes its own record, the pid file and one process.         *)
LEMMA ControlMoves ==
  ASSUME TypeInv, NEW c \in Client, Control(c)
  PROVE  /\ \A d \in Client : d # c => cmd'[d] = cmd[d]
         /\ UNCHANGED <<lockFile, tmpFile, runFile, socket, shadowed>>
         /\ raced' = IF cmd[c].at = "idle" THEN raced \/ Busy # {} ELSE raced
         /\ \A q \in Proc : \/ pc'[q] = pc[q]
                            \/ pc[q] = "unborn" /\ pc'[q] = "born" /\ cmd[c].at = "spawn"
                            \/ pc'[q] = "dead" /\ Alive(q)
         /\ Active(c)' => Active(c) \/ cmd[c].at = "idle"
         /\ pidFile' = pidFile \/ (pidFile' = None /\ cmd[c].at \in {"wait", "forget", "clear"})
         /\ cmd'[c].pid = cmd[c].pid \/ (cmd'[c].pid \in {pidFile, None} /\ cmd[c].at = "idle")
         /\ cmd'[c].at = "signal" => pidFile' = cmd'[c].pid
  <1> USE DEF TypeInv, TypeOK, files, local, history, Go, Active
  <1>0. cmd \in Commands
    BY DEF Commands
  <1>1. ASSUME NEW op \in {"stop", "restart"}, BeginStop(c, op)
        PROVE  /\ \A d \in Client : d # c => cmd'[d] = cmd[d]
               /\ UNCHANGED <<lockFile, tmpFile, runFile, socket, shadowed>>
               /\ raced' = IF cmd[c].at = "idle" THEN raced \/ Busy # {} ELSE raced
               /\ \A q \in Proc : pc'[q] = pc[q]
               /\ Active(c)' => Active(c) \/ cmd[c].at = "idle"
               /\ pidFile' = pidFile
               /\ cmd'[c].pid = cmd[c].pid \/ (cmd'[c].pid \in {pidFile, None} /\ cmd[c].at = "idle")
               /\ cmd'[c].at = "signal" => pidFile' = cmd'[c].pid
    BY <1>1 DEF BeginStop, Enter
  <1>2. CASE Signal(c)
    <2>1. Moved(c, "wait")
      BY <1>0, <1>2, StepMoves DEF Signal
    <2>2. \A q \in Proc : pc'[q] = pc[q] \/ (pc'[q] = "dead" /\ Alive(q))
      BY <1>2 DEF Signal, End
    <2> QED
      BY <1>2, <2>1, <2>2 DEF Signal, Moved
  <1>3. CASE Forget(c)
    <2>1. Moved(c, AfterStop(c)) /\ AfterStop(c) \in {"loadRun", "done"}
      BY <1>0, <1>3, StepMoves DEF Forget, AfterStop
    <2> QED
      BY <1>3, <2>1 DEF Forget, Moved
  <1>4. CASE LoadRun(c)
    <2>1. Moved(c, "begin")
      BY <1>0, <1>4, LoadRunMoves
    <2> QED
      BY <1>4, <2>1 DEF LoadRun, Moved
  <1>5. CASE BeginStart(c)
    <2>1. \E a \in {"spawn", "done", "clear"} : Moved(c, a)
      BY <1>0, <1>5, StepMoves DEF BeginStart, Step
    <2> QED
      BY <1>5, <2>1 DEF BeginStart, Enter, Moved
  <1>6. CASE ClearPid(c)
    <2>1. Moved(c, "spawn")
      BY <1>0, <1>6, StepMoves DEF ClearPid
    <2> QED
      BY <1>6, <2>1 DEF ClearPid, Moved
  <1>7. ASSUME NEW p \in Proc, SpawnKronid(c, p)
        PROVE  /\ \A d \in Client : d # c => cmd'[d] = cmd[d]
               /\ UNCHANGED <<files, raced, shadowed>> /\ cmd[c].at = "spawn"
               /\ \A q \in Proc : pc'[q] = pc[q] \/ (pc[q] = "unborn" /\ pc'[q] = "born")
               /\ Active(c)' => Active(c) \/ cmd[c].at = "idle"
               /\ cmd'[c].pid = cmd[c].pid
               /\ cmd'[c].at # "signal"
    <2>1. Moved(c, "done")
      BY <1>0, <1>7, StepMoves DEF SpawnKronid
    <2> QED
      BY <1>7, <2>1 DEF SpawnKronid, Moved
  <1>8. CASE \E op \in {"stop", "restart"} : BeginStop(c, op)
    BY <1>1, <1>8
  <1>9. CASE \E p \in Proc : SpawnKronid(c, p)
    BY <1>7, <1>9
  <1> QED
    BY <1>2, <1>3, <1>4, <1>5, <1>6, <1>8, <1>9 DEF Control

(* Commands: without an overlap nobody else works on the files, and a pid  *)
(* file is removed only when nobody holds it.                              *)
LEMMA ControlFiles ==
  ASSUME TypeInv, FilesInv, NEW c \in Client, Control(c)
  PROVE  FilesInv'
  <1>1. TypeOK
    BY DEF TypeInv
  <1>2. \A d \in Client : d # c => cmd'[d] = cmd[d]
    BY ControlMoves
  <1>3. UNCHANGED <<lockFile, tmpFile, socket>>
    BY ControlMoves
  <1>4. raced' = IF cmd[c].at = "idle" THEN raced \/ Busy # {} ELSE raced
    BY ControlMoves
  <1>5. ASSUME NEW q \in Proc
        PROVE  /\ Past(q) => Past(q)'
               /\ pc'[q] \in Claiming => pc'[q] = pc[q]
               /\ Holds(q)' => Holds(q) /\ pc'[q] = pc[q]
               /\ Up(q)' => Up(q) /\ pc'[q] = pc[q]
    BY ControlMoves DEF Past, Alive, Claiming, Holds, Up, Starting, Ending
  <1>6. PidsKnown'
    <2>1. /\ pidFile' = pidFile \/ pidFile' = None
          /\ cmd'[c].pid = cmd[c].pid \/ cmd'[c].pid \in {pidFile, None}
      BY ControlMoves
    <2>2. /\ pidFile \in Proc \cup {None} /\ tmpFile \in Proc \cup {None}
          /\ \A d \in Client : cmd[d].pid \in Proc \cup {None}
      BY <1>1 DEF TypeOK
    <2> QED
      BY <1>2, <1>3, <1>5, <2>1, <2>2 DEF FilesInv, PidsKnown
  <1>7. CASE raced'
    BY <1>6, <1>7 DEF FilesInv, OneAtATime, ClaimInv, SocketInv, CmdInv
  <1>8. CASE ~raced'
    <2>0. ~raced
      BY <1>4, <1>8
    <2>1. Active(c)' => \A d \in Client : d # c => ~Active(d)
      BY <1>4, <1>8, <2>0, ControlMoves DEF FilesInv, OneAtATime, Busy, Active
    <2>2. Active(c)' => \A p \in Proc : pc[p] \notin Claiming
      BY <1>4, <1>8, <2>0, ControlMoves DEF FilesInv, OneAtATime, Busy, Active
    <2>3. OneAtATime'
      <3>1. \A d \in Client : d # c => (Active(d)' <=> Active(d))
        BY <1>2 DEF Active
      <3> QED
        BY <1>5, <2>0, <2>1, <2>2, <3>1 DEF FilesInv, OneAtATime
    <2>4. NobodyHolds => NobodyHolds'
      BY <1>5 DEF NobodyHolds
    <2>5. pidFile' # pidFile => NobodyHolds /\ \A p \in Proc : pc[p] \notin Claiming
      BY <2>0, ControlMoves DEF FilesInv, CmdInv, OneAtATime, Active
    <2>6. ClaimInv'
      <3> SUFFICES ASSUME NEW p \in Proc
                   PROVE  /\ pc'[p] = "createLock" => ~lockFile'
                          /\ pc'[p] = "rename" => tmpFile' = p
                          /\ pc'[p] = "verify" \/ Holds(p)' => pidFile' = p
                          /\ pc'[p] \in Claiming \ {"check"} => NobodyHolds'
        BY DEF ClaimInv
      <3> QED
        BY <1>3, <1>5, <2>0, <2>4, <2>5 DEF FilesInv, ClaimInv, Claiming, NobodyHolds
    <2>7. SocketInv'
      BY <1>3, <1>5, <2>0 DEF FilesInv, SocketInv
    <2>8. \A q \in Proc : Holds(q) => pidFile = q /\ Alive(q)
      BY <2>0 DEF FilesInv, ClaimInv, Holds, Up, Alive, Starting, Ending, Gone
    <2>9. cmd'[c].at \in {"wait", "forget", "clear"} => NobodyHolds'
      <3> USE DEF TypeOK, TypeInv, local, files, history
      <3>1. CASE \E op \in {"stop", "restart"} : BeginStop(c, op)
        <4>1. cmd'[c].at \in {"wait", "forget", "clear"} => pidFile # None /\ ~Alive(pidFile)
          BY <3>1 DEF BeginStop
        <4> QED
          BY <2>4, <2>8, <4>1 DEF NobodyHolds
      <3>2. CASE Signal(c)
        <4>1. pidFile \in {None, cmd[c].pid} /\ cmd[c].pid \in Proc
          BY <2>0, <3>2 DEF Signal, FilesInv, CmdInv
        <4>2. Alive(cmd[c].pid) => pc'[cmd[c].pid] = "dead"
          BY <3>2, <4>1 DEF Signal, End, Go
        <4> QED
          BY <1>5, <2>8, <4>1, <4>2, DaemonAssumption DEF NobodyHolds, Holds, Up, Starting, Ending
      <3>3. CASE Forget(c) \/ LoadRun(c) \/ ClearPid(c) \/ \E p \in Proc : SpawnKronid(c, p)
        <4>1. cmd \in Commands
          BY DEF Commands
        <4>2. cmd'[c].at \in {"loadRun", "done", "begin", "spawn"}
          BY <3>3, <4>1, StepMoves, LoadRunMoves
             DEF Forget, AfterStop, ClearPid, SpawnKronid, Moved
        <4> QED
          BY <4>2
      <3>4. CASE BeginStart(c)
        <4>1. cmd'[c].at \in {"wait", "forget", "clear"} => pidFile # None /\ ~Alive(pidFile)
          BY <3>4 DEF BeginStart
        <4> QED
          BY <2>4, <2>8, <4>1 DEF NobodyHolds
      <3> QED
        BY <3>1, <3>2, <3>3, <3>4 DEF Control
    <2>10. CmdInv'
      <3> SUFFICES ASSUME NEW d \in Client
                   PROVE  /\ cmd'[d].at = "signal" => pidFile' \in {None, cmd'[d].pid}
                          /\ cmd'[d].at \in {"wait", "forget", "clear"} => NobodyHolds'
        BY DEF CmdInv
      <3>1. CASE d = c
        BY <2>9, <3>1, ControlMoves
      <3>2. CASE d # c
        BY <1>2, <2>0, <2>4, <3>2, ControlMoves DEF FilesInv, CmdInv
      <3> QED
        BY <3>1, <3>2
    <2> QED
      BY <1>6, <2>3, <2>6, <2>7, <2>10 DEF FilesInv
  <1> QED
    BY <1>7, <1>8

LEMMA FilesStep == TypeInv /\ FilesInv /\ [Next]_vars => FilesInv'
  <1> SUFFICES ASSUME TypeInv, TypeOK, FilesInv, [Next]_vars PROVE FilesInv'
    BY DEF TypeInv
  <1>1. CASE UNCHANGED vars
    BY <1>1 DEF vars, files, history, FilesInv, PidsKnown, OneAtATime, ClaimInv, SocketInv, CmdInv,
                NobodyHolds, Holds, Up, Past, Active
  <1> QED
    BY <1>1, ClaimFiles, CoordinateFiles, OutsideFiles, ControlFiles DEF Next

LEMMA FilesInit == Init => FilesInv
  BY DEF Init, FilesInv, PidsKnown, OneAtATime, ClaimInv, SocketInv, CmdInv, NobodyHolds, Holds, Up,
         Past, Active, Claiming, Starting, Ending

(* Without an overlap at most one daemon is up, whatever crashes: the pid  *)
(* file is its own, and so is the socket.                                  *)
THEOREM OneDaemonOnly == Spec => []OneDaemon
  <1>1. FilesInv => OneDaemon
    BY DEF FilesInv, ClaimInv, SocketInv, Holds, OneDaemon
  <1> QED
    BY <1>1, TypeInit, TypeStep, FilesInit, FilesStep, PTL DEF Spec

(* A start-up fails on the files only when it overlaps another: the files  *)
(* a crashed process left never turn it away.                              *)
LEMMA FailedStep == TypeInv /\ FilesInv /\ StaleFilesRecovered /\ [Next]_vars => StaleFilesRecovered'
  <1> SUFFICES ASSUME TypeOK, FilesInv, StaleFilesRecovered, TypeInv, [Next]_vars,
                      NEW p \in Proc, pc'[p] = "failed"
               PROVE  raced'
    BY DEF TypeInv, StaleFilesRecovered
  <1> USE DEF TypeOK, Go
  <1>1. raced => raced'
    <2>1. CASE UNCHANGED raced
      BY <2>1
    <2>2. ASSUME NEW c \in Client, Control(c) PROVE raced => raced'
      BY <2>2, ControlMoves
    <2>3. CASE \E q \in Proc : WriteRunId(q)
      BY <2>3 DEF WriteRunId, Enter
    <2> QED
      BY <2>1, <2>2, <2>3 DEF Next, Launch, Claim, CheckPidFile, RemoveStalePid, RemoveStaleLock,
         CreateLock, WriteTmp, RenameTmp, VerifyPidFile, Coordinate, FocusHookReturns, OpenStore,
         StartApi, ServerFailed, SpawnPipeline, BuildFocusHook, SetupShutdownHandler, RunUiohook,
         JoinPipeline, JoinApi, RemoveSockets, RemoveOwnPid, Unlock, Interrupt, PipelineEnds,
         ServerPanics, Die, vars, history
  <1>2. CASE pc[p] = "failed"
    BY <1>1, <1>2 DEF StaleFilesRecovered
  <1>3. CASE pc[p] # "failed"
    <2>1. ~\E c \in Client : Control(c)
      BY <1>3, ControlMoves
    <2>2. Claim(p)
      <3>1. ASSUME NEW q \in Proc, Coordinate(q) \/ FocusHookReturns(q) PROVE FALSE
        BY <1>3, <3>1 DEF Coordinate, FocusHookReturns, OpenStore, StartApi, ServerFailed,
           SpawnPipeline, BuildFocusHook, SetupShutdownHandler, RunUiohook, JoinPipeline, JoinApi,
           RemoveSockets, RemoveOwnPid, Unlock, End
      <3>2. ASSUME NEW q \in Proc,
                   Launch(q) \/ Interrupt(q) \/ PipelineEnds(q) \/ ServerPanics(q) \/ Die(q)
            PROVE  FALSE
        BY <1>3, <3>2 DEF Launch, Interrupt, PipelineEnds, ServerPanics, Die, End
      <3>3. ASSUME NEW q \in Proc, q # p, Claim(q) PROVE FALSE
        BY <1>3, <3>3 DEF Claim, WriteRunId, CheckPidFile, RemoveStalePid, RemoveStaleLock,
           CreateLock, WriteTmp, RenameTmp, VerifyPidFile
      <3>4. ~UNCHANGED vars
        BY <1>3 DEF vars
      <3> QED
        BY <2>1, <3>1, <3>2, <3>3, <3>4 DEF Next
    <2>3. raced
      BY <1>3, <2>2, DaemonAssumption DEF FilesInv, ClaimInv, Claim, WriteRunId, CheckPidFile,
         RemoveStalePid, RemoveStaleLock, CreateLock, WriteTmp, RenameTmp, VerifyPidFile
    <2> QED
      BY <1>1, <2>3
  <1> QED
    BY <1>2, <1>3

THEOREM StaleFilesAreRecovered == Spec => []StaleFilesRecovered
  <1>1. Init => StaleFilesRecovered
    BY DEF Init, StaleFilesRecovered
  <1> QED
    BY <1>1, TypeInit, TypeStep, FilesInit, FilesStep, FailedStep, PTL DEF Spec

-----------------------------------------------------------------------------
(* Run ids *)

(* A step of a process that does not write the run id file. *)
LEMMA QuietRun ==
  ASSUME RunInv, RestartKeepsRun,
         UNCHANGED <<run, runFile, shadowed, cmd, raced>>,
         \A q \in Proc : Past(q)' /\ Alive(q)' => Past(q) /\ Alive(q)
  PROVE  RunInv' /\ RestartKeepsRun'
  <1>1. RunInv'
    BY DEF RunInv
  <1>2. RestartKeepsRun'
    BY DEF RestartKeepsRun
  <1> QED
    BY <1>1, <1>2

LEMMA ProcessRun ==
  ASSUME TypeOK, RunInv, RestartKeepsRun, NEW p \in Proc,
         \/ Launch(p) \/ Claim(p) \/ Coordinate(p) \/ FocusHookReturns(p)
         \/ Interrupt(p) \/ PipelineEnds(p) \/ ServerPanics(p) \/ Die(p)
  PROVE  RunInv' /\ RestartKeepsRun'
  <1> USE DEF TypeOK, Go, files, local, history
  <1>1. CASE WriteRunId(p)
    <2>1. /\ runFile' = run[p] /\ UNCHANGED <<run, cmd>>
          /\ shadowed' = shadowed \cup {q \in Proc \ {p} : Alive(q)}
          /\ \A q \in Proc : q # p => pc'[q] = pc[q]
          /\ ~raced' => ~raced /\ \A c \in Client : cmd[c].at \in {"idle", "done"}
      BY <1>1 DEF WriteRunId, Enter, Busy
    <2>2. \A q \in Proc : Past(q)' /\ Alive(q)' => q \in shadowed' \/ runFile' = run'[q]
      BY <2>1 DEF Past, Alive
    <2>3. RunInv'
      BY <2>1, <2>2 DEF RunInv
    <2>4. RestartKeepsRun'
      BY <2>1 DEF RestartKeepsRun
    <2> QED
      BY <2>3, <2>4
  <1>2. CASE Claim(p) /\ ~WriteRunId(p)
    <2>1. UNCHANGED <<run, runFile, shadowed, cmd, raced>>
      BY <1>2 DEF Claim, CheckPidFile, RemoveStalePid, RemoveStaleLock, CreateLock, WriteTmp,
         RenameTmp, VerifyPidFile
    <2>2. \A q \in Proc : Past(q)' /\ Alive(q)' => Past(q) /\ Alive(q)
      BY <1>2 DEF Claim, CheckPidFile, RemoveStalePid, RemoveStaleLock, CreateLock, WriteTmp,
         RenameTmp, VerifyPidFile, Past, Alive, Gone
    <2> QED
      BY <2>1, <2>2, QuietRun
  <1>3. CASE Coordinate(p) \/ FocusHookReturns(p)
    <2>1. UNCHANGED <<run, runFile, shadowed, cmd, raced>>
      BY <1>3 DEF Coordinate, FocusHookReturns, OpenStore, StartApi, ServerFailed,
           SpawnPipeline, BuildFocusHook, SetupShutdownHandler, RunUiohook, JoinPipeline, JoinApi,
           RemoveSockets, RemoveOwnPid, Unlock
    <2>2. \A q \in Proc : Past(q)' /\ Alive(q)' => Past(q) /\ Alive(q)
      BY <1>3 DEF Coordinate, FocusHookReturns, OpenStore, StartApi, ServerFailed,
           SpawnPipeline, BuildFocusHook, SetupShutdownHandler, RunUiohook, JoinPipeline, JoinApi,
           RemoveSockets, RemoveOwnPid, Unlock, End, Past, Alive, Gone
    <2> QED
      BY <2>1, <2>2, QuietRun
  <1>4. CASE Launch(p) \/ Interrupt(p) \/ PipelineEnds(p) \/ ServerPanics(p) \/ Die(p)
    <2>1. UNCHANGED <<run, runFile, shadowed, cmd, raced>>
      BY <1>4 DEF Launch, Interrupt, PipelineEnds, ServerPanics, Die
    <2>2. \A q \in Proc : Past(q)' /\ Alive(q)' => Past(q) /\ Alive(q)
      BY <1>4 DEF Launch, Interrupt, PipelineEnds, ServerPanics, Die, End, Past, Alive, Gone
    <2> QED
      BY <2>1, <2>2, QuietRun
  <1> QED
    BY <1>1, <1>2, <1>3, <1>4

(* A restart takes the run id of a file that nobody has written since it   *)
(* read the pid, unless there was an overlap.                              *)
LEMMA ControlRun ==
  ASSUME TypeInv, FilesInv, RunInv, RestartKeepsRun, NEW c \in Client, Control(c)
  PROVE  RunInv' /\ RestartKeepsRun'
  <1>0. /\ \A d \in Client : d # c => cmd'[d] = cmd[d]
        /\ UNCHANGED <<runFile, shadowed>>
        /\ raced => raced'
    BY ControlMoves
  <1> DEFINE Waiting == {"signal", "wait", "forget", "loadRun"}
             Loaded == {"begin", "clear", "spawn"}
  <1>1. \A q \in Proc : /\ Past(q)' /\ Alive(q)' => Past(q) /\ Alive(q)
                        /\ Past(q) => run'[q] = run[q]
    <2>1. \A q \in Proc : Past(q)' /\ Alive(q)' => Past(q) /\ Alive(q)
      BY ControlMoves DEF Past, Alive, Gone
    <2>2. \A q \in Proc : Past(q) => run'[q] = run[q]
      <3>1. CASE UNCHANGED run
        BY <3>1
      <3>2. ASSUME NEW p \in Proc, SpawnKronid(c, p)
            PROVE  \A q \in Proc : Past(q) => run'[q] = run[q]
        BY <3>2 DEF SpawnKronid, TypeInv, TypeOK, Past
      <3> QED
        BY <3>1, <3>2 DEF Control, BeginStop, Signal, Forget, LoadRun, BeginStart, ClearPid, local
    <2> QED
      BY <2>1, <2>2
  <1>2. \A d \in Client : cmd[d].pid \in Proc \cup {None}
    BY DEF TypeInv, TypeOK
  <1>3. \A d \in Client : cmd[d].pid # None => Past(cmd[d].pid) /\ run'[cmd[d].pid] = run[cmd[d].pid]
    BY <1>1, <1>2 DEF FilesInv, PidsKnown
  <1>4. \A p \in Proc : Past(p)' /\ Alive(p)' => p \in shadowed' \/ runFile' = run'[p]
    BY <1>0, <1>1 DEF RunInv
  <1>5. /\ cmd'[c].at = "idle" => cmd'[c].op = "start"
        /\ raced' \/ (cmd'[c].pid # None /\ cmd'[c].at \in Waiting
                       => cmd'[c].pid \in shadowed' \/ runFile' = run'[cmd'[c].pid])
        /\ cmd'[c].op = "restart" /\ cmd'[c].at \in Loaded /\ cmd'[c].pid # None
             => raced' \/ cmd'[c].pid \in shadowed' \/ cmd'[c].run = run'[cmd'[c].pid]
    <2>0. cmd \in Commands /\ runFile \in Proc \cup {None} /\ pidFile \in Proc \cup {None}
      BY DEF TypeInv, TypeOK, Commands
    <2>1. ASSUME NEW op \in {"stop", "restart"}, BeginStop(c, op)
          PROVE  /\ cmd'[c].at \in {"signal", "forget", "loadRun", "done"}
                 /\ cmd'[c].pid # None => cmd'[c].pid = pidFile /\ Alive(pidFile)
                 /\ UNCHANGED run
      BY <2>0, <2>1 DEF BeginStop, Commands, local
    <2>2. CASE \E op \in {"stop", "restart"} : BeginStop(c, op)
      <3>1. pidFile # None => Past(pidFile)
        BY DEF FilesInv, PidsKnown
      <3> QED
        BY <1>0, <2>0, <2>1, <2>2, <3>1 DEF RunInv
    <2>3. CASE Signal(c) \/ Forget(c)
      <3>1. /\ cmd[c].at \in Waiting /\ cmd'[c].at \in {"wait", "loadRun", "done"}
            /\ cmd'[c].pid = cmd[c].pid
        BY <2>0, <2>3, StepMoves DEF Signal, Forget, AfterStop, Moved
      <3> QED
        BY <1>0, <1>3, <3>1 DEF RunInv
    <2>4. CASE LoadRun(c)
      <3>1. /\ cmd[c].at \in Waiting /\ cmd'[c].at = "begin"
            /\ cmd'[c].pid = cmd[c].pid /\ cmd'[c].run = runFile
        BY <2>0, <2>4, LoadRunMoves DEF LoadRun, Moved
      <3> QED
        BY <1>0, <1>3, <3>1 DEF RunInv
    <2>5. CASE BeginStart(c)
      <3>1. /\ cmd[c].at \in {"idle", "begin"} /\ cmd'[c].at \in {"spawn", "done", "clear"}
            /\ cmd'[c].pid = cmd[c].pid /\ cmd'[c].run = cmd[c].run /\ cmd'[c].op = cmd[c].op
        BY <2>0, <2>5, StepMoves DEF BeginStart, Step, Moved
      <3> QED
        BY <1>0, <1>3, <3>1 DEF RunInv, RestartKeepsRun
    <2>6. CASE ClearPid(c)
      <3>1. /\ cmd[c].at = "clear" /\ cmd'[c].at = "spawn"
            /\ cmd'[c].pid = cmd[c].pid /\ cmd'[c].run = cmd[c].run /\ cmd'[c].op = cmd[c].op
        BY <2>0, <2>6, StepMoves DEF ClearPid, Moved
      <3> QED
        BY <1>0, <1>3, <3>1 DEF RestartKeepsRun
    <2>7. ASSUME NEW p \in Proc, SpawnKronid(c, p) PROVE cmd'[c].at = "done"
      BY <2>0, <2>7, StepMoves DEF SpawnKronid, Moved
    <2> QED
      BY <2>2, <2>3, <2>4, <2>5, <2>6, <2>7 DEF Control
  <1>6. ASSUME NEW d \in Client, d # c
        PROVE  /\ cmd'[d].at = "idle" => cmd'[d].op = "start"
               /\ raced' \/ (cmd'[d].pid # None /\ cmd'[d].at \in Waiting
                              => cmd'[d].pid \in shadowed' \/ runFile' = run'[cmd'[d].pid])
               /\ cmd'[d].op = "restart" /\ cmd'[d].at \in Loaded /\ cmd'[d].pid # None
                    => raced' \/ cmd'[d].pid \in shadowed' \/ cmd'[d].run = run'[cmd'[d].pid]
    BY <1>0, <1>3, <1>6 DEF RunInv, RestartKeepsRun
  <1> QED
    BY <1>4, <1>5, <1>6 DEF RunInv, RestartKeepsRun

(* A restart goes on with the run of the daemon it stopped, unless there   *)
(* was an overlap or another kronid wrote its run id meanwhile.            *)
THEOREM RestartsKeepTheRun == Spec => []RestartKeepsRun
  <1>1. Init => RunInv /\ RestartKeepsRun
    BY DEF Init, RunInv, RestartKeepsRun, Past, Alive
  <1>2. TypeInv /\ FilesInv /\ RunInv /\ RestartKeepsRun /\ [Next]_vars
          => RunInv' /\ RestartKeepsRun'
    <2> SUFFICES ASSUME TypeInv, TypeOK, FilesInv, RunInv, RestartKeepsRun, [Next]_vars
                 PROVE  RunInv' /\ RestartKeepsRun'
      BY DEF TypeInv
    <2>1. CASE UNCHANGED vars
      BY <2>1 DEF vars, files, local, history, RunInv, RestartKeepsRun, Past, Alive
    <2> QED
      BY <2>1, ProcessRun, ControlRun DEF Next
  <1> QED
    BY <1>1, <1>2, TypeInit, TypeStep, FilesInit, FilesStep, PTL DEF Spec
=============================================================================
