------------------------ MODULE DesktopLifecycleProofs ------------------------
(***************************************************************************)
(* Proofs about DesktopLifecycle for any number of backend processes.      *)
(***************************************************************************)
EXTENDS DesktopLifecycle, TLAPS

Tasks == {"none", "startup", "recovery", "backup", "change", "rollback", "unchanged"}
Steps == {"idle", "dialog", "stop", "offline", "port", "health", "verify", "open"}

LifecycleTypes ==
  /\ live \subseteq 1 .. spawned
  /\ spawned \in Nat
  /\ current \in Nat
  /\ ready \in BOOLEAN /\ quitting \in BOOLEAN /\ exited \in BOOLEAN
  /\ server \in BOOLEAN /\ missed \in BOOLEAN
  /\ stopping \in [{"task", "shutdown"} -> Nat]
  /\ shutdown \in {"none", "waiting", "complete"}
  /\ screen \in {"startup", "workspace", "error", "closed"}
  /\ task \in Tasks /\ stage \in Steps
  /\ asked \subseteq 1 .. spawned
  /\ reported \subseteq 1 .. spawned

(* The one process that runs is the current one; between a stop and the    *)
(* next start there is none.                                               *)
ProcessInv ==
  /\ live = {current} \ {NoBackend}
  /\ ready => current # NoBackend
  /\ stage \in {"offline", "port"} => current = NoBackend

(* Whoever waits waits for the current process, and nothing else is marked *)
(* as stopped on purpose.                                                  *)
WaitInv ==
  /\ stopping["task"] = IF stage = "stop" THEN current ELSE NoBackend
  /\ stopping["shutdown"] = IF shutdown = "waiting" THEN current ELSE NoBackend
  /\ stage = "stop" \/ shutdown = "waiting" => current # NoBackend
  /\ intentional \subseteq {stopping["task"], stopping["shutdown"]} \ {NoBackend}

ShutdownInv ==
  /\ quitting <=> shutdown # "none"
  /\ exited => shutdown = "complete"
  /\ shutdown = "complete" => live \subseteq late

(* A process somebody still waits for is marked.                           *)
ReportInv ==
  /\ reported \cap live = {}
  /\ live \cap asked \subseteq intentional \cup expired
  /\ reported \cap asked \subseteq expired

TaskInv ==
  /\ task = "none" <=> stage = "idle"
  /\ stage = "dialog" => task \in {"backup", "change"}
  /\ task = "backup" => stage = "dialog"
  /\ task \in {"startup", "recovery"} => screen # "workspace"

(* Where a task may end with the workspace as it is.                       *)
Untouched ==
  \/ stage \in {"idle", "dialog"}
  \/ stage = "stop" /\ task = "change"
WindowInv ==
  /\ screen = "workspace" /\ ~quitting => server
  /\ stage = "open" /\ ~missed => ready
  /\ stage = "verify" /\ current # NoBackend => ready
  /\ screen = "workspace" /\ ~quitting /\ ~missed /\ Untouched => ready

LifecycleInv ==
  /\ LifecycleTypes
  /\ ProcessInv
  /\ WaitInv
  /\ ShutdownInv
  /\ ReportInv
  /\ TaskInv
  /\ WindowInv

-----------------------------------------------------------------------------

(* What a process is counted by is none of the earlier ones.               *)
LEMMA FreshProcess ==
  ASSUME spawned \in Nat
  PROVE  /\ spawned + 1 \in Nat
         /\ spawned + 1 # NoBackend
         /\ spawned + 1 \notin 1 .. spawned
         /\ 1 .. spawned \subseteq 1 .. (spawned + 1)
         /\ spawned + 1 \in 1 .. (spawned + 1)
  BY DEF NoBackend

(* The invariant holds when the application is started.                    *)
LEMMA InitialLifecycle == LifecycleInit => LifecycleInv
<1> SUFFICES ASSUME LifecycleInit PROVE LifecycleInv
  OBVIOUS
<1>1. stopping \in [{"task", "shutdown"} -> Nat] /\ \A o \in {"task", "shutdown"} : stopping[o] = NoBackend
  BY DEF LifecycleInit, NoBackend
<1>2. LifecycleTypes
  BY <1>1 DEF LifecycleInit, LifecycleTypes, Tasks, Steps, NoBackend
<1>3. ProcessInv /\ ShutdownInv
  BY DEF LifecycleInit, ProcessInv, ShutdownInv, NoBackend
<1>4. WaitInv
  BY <1>1 DEF LifecycleInit, WaitInv, NoBackend
<1>5. ReportInv /\ TaskInv /\ WindowInv
  BY DEF LifecycleInit, ReportInv, TaskInv, WindowInv, Untouched
<1> QED BY <1>2, <1>3, <1>4, <1>5 DEF LifecycleInv

(* Operations begin, and end before they have done anything.               *)
LEMMA OperationsKeep ==
  ASSUME LifecycleInv, BeginOperation \/ EndDialog \/ RecoveryPending
  PROVE  LifecycleInv'
<1>1. CASE BeginOperation
  BY <1>1 DEF BeginOperation, LifecycleInv, LifecycleTypes, ProcessInv, WaitInv, ShutdownInv,
     ReportInv, TaskInv, WindowInv, Untouched, Tasks, Steps, NoBackend, processVars, shutdownVars,
     windowVars, pastVars
<1>2. CASE EndDialog
  BY <1>2 DEF EndDialog, EndTask, LifecycleInv, LifecycleTypes, ProcessInv, WaitInv,
     ShutdownInv, ReportInv, TaskInv, WindowInv, Untouched, Tasks, Steps, NoBackend, processVars,
     shutdownVars, windowVars, pastVars
<1>3. CASE RecoveryPending
  BY <1>3 DEF RecoveryPending, FailTask, EndTask, Show, LifecycleInv, LifecycleTypes,
     ProcessInv, WaitInv, ShutdownInv, ReportInv, TaskInv, WindowInv, Untouched, Tasks, Steps,
     NoBackend, processVars, shutdownVars, pastVars
<1> QED BY <1>1, <1>2, <1>3

(* The backend is stopped for an operation or for its rollback: the wait   *)
(* is for the current process, and without one the files are next.         *)
LEMMA StopForTaskKeeps ==
  ASSUME LifecycleInv, StopForTask, UNCHANGED <<shutdownVars, windowVars>>,
         stage # "stop",
         \/ /\ task = "change"
            /\ task' = "change" => stage = "dialog"
            /\ task' \in {"change", "rollback"}
         \/ task = "recovery" /\ task' = "recovery"
  PROVE  LifecycleInv'
<1> USE DEF LifecycleInv, StopForTask, StopBackend, shutdownVars, windowVars
<1>1. LifecycleTypes'
  BY DEF LifecycleTypes, ProcessInv, Tasks, Steps, NoBackend
<1>2. ProcessInv' /\ ShutdownInv'
  BY DEF ProcessInv, ShutdownInv, NoBackend
<1>3. WaitInv'
  BY DEF LifecycleTypes, ProcessInv, WaitInv, NoBackend
<1>4. ReportInv'
  BY DEF ReportInv, ProcessInv
<1>5. TaskInv' /\ WindowInv'
  BY DEF LifecycleTypes, ProcessInv, TaskInv, WindowInv, Untouched, Tasks, Steps
<1> QED BY <1>1, <1>2, <1>3, <1>4, <1>5

(* The start of a backend, up to the moment it is ready.                   *)
LEMMA StartsKeep ==
  ASSUME LifecycleInv, StartBackend \/ SpawnBackend \/ BackendReady
  PROVE  LifecycleInv'
<1>1. CASE StartBackend
  <2> USE <1>1 DEF StartBackend, LifecycleInv, shutdownVars, windowVars, pastVars
  <2>1. task \in {"startup", "change", "rollback"} /\ task' \in Tasks \ {"none", "backup"}
        /\ (task' \in {"startup", "recovery"} => task = "startup")
    BY DEF LifecycleTypes, TaskInv, Continuations, Tasks, Steps
  <2>2. LifecycleTypes' /\ ProcessInv'
    BY <2>1 DEF LifecycleTypes, ProcessInv, Tasks, Steps
  <2>3. WaitInv' /\ ShutdownInv' /\ ReportInv'
    BY DEF WaitInv, ShutdownInv, ReportInv
  <2>4. TaskInv' /\ WindowInv'
    BY <2>1 DEF TaskInv, WindowInv, Untouched
  <2> QED BY <2>2, <2>3, <2>4
<1>2. CASE SpawnBackend
  <2> USE <1>2 DEF SpawnBackend, LifecycleInv, shutdownVars, windowVars
  <2>1. live' = {current'} /\ live = {} /\ current' = spawned + 1 /\ current = NoBackend
    BY DEF ProcessInv
  <2>2. LifecycleTypes'
    BY FreshProcess DEF LifecycleTypes, Tasks, Steps
  <2>3. ProcessInv' /\ ShutdownInv'
    BY <2>1, FreshProcess DEF LifecycleTypes, ProcessInv, ShutdownInv
  <2>4. WaitInv'
    BY <2>1 DEF WaitInv
  <2>5. ReportInv'
    BY <2>1, FreshProcess DEF LifecycleTypes, ReportInv
  <2>6. TaskInv' /\ WindowInv'
    BY DEF TaskInv, WindowInv, Untouched
  <2> QED BY <2>2, <2>3, <2>4, <2>5, <2>6
<1>3. CASE BackendReady
  <2> USE <1>3 DEF BackendReady, LifecycleInv, shutdownVars, windowVars
  <2>1. LifecycleTypes' /\ ProcessInv' /\ ShutdownInv'
    BY DEF LifecycleTypes, ProcessInv, ShutdownInv, Tasks, Steps
  <2>2. WaitInv' /\ ReportInv'
    BY DEF WaitInv, ReportInv
  <2>3. TaskInv' /\ WindowInv'
    BY DEF TaskInv, WindowInv, Untouched
  <2> QED BY <2>1, <2>2, <2>3
<1> QED BY <1>1, <1>2, <1>3

(* A task fails and shows it, whatever it was doing.                       *)
LEMMA FailTaskKeeps ==
  ASSUME LifecycleInv, FailTask, stage # "stop",
         UNCHANGED <<processVars, shutdownVars, pastVars>>,
         server' \in {server, TRUE}
  PROVE  LifecycleInv'
<1> USE DEF LifecycleInv, FailTask, EndTask, Show, processVars, shutdownVars, pastVars
<1>1. screen' \in {"closed", "error"}
  OBVIOUS
<1>2. LifecycleTypes' /\ ProcessInv'
  BY <1>1 DEF LifecycleTypes, ProcessInv, Tasks, Steps
<1>3. WaitInv' /\ ShutdownInv' /\ ReportInv'
  BY DEF WaitInv, ShutdownInv, ReportInv
<1>4. TaskInv' /\ WindowInv'
  BY <1>1 DEF TaskInv, WindowInv, Untouched
<1> QED BY <1>2, <1>3, <1>4

(* Files and checks fail, or the backend has to be stopped for them.       *)
LEMMA FailuresKeep ==
  ASSUME LifecycleInv, StopForOperation \/ ChangesFail \/ FilesFail \/ StartFails
  PROVE  LifecycleInv'
<1>1. CASE StopForOperation
  BY <1>1, StopForTaskKeeps DEF StopForOperation
<1>2. CASE ChangesFail
  BY <1>2, StopForTaskKeeps DEF ChangesFail
<1>3. CASE FilesFail
  BY <1>3, FailTaskKeeps DEF FilesFail
<1>4. CASE StartFails
  <2>1. CASE task = "change"
    BY <1>4, <2>1, StopForTaskKeeps DEF StartFails
  <2>2. CASE task = "recovery"
    BY <1>4, <2>2, StopForTaskKeeps DEF StartFails
  <2>3. CASE task \in {"startup", "rollback", "unchanged"}
    BY <1>4, <2>3, FailTaskKeeps DEF StartFails
  <2> QED BY <1>4, <2>1, <2>2, <2>3 DEF StartFails
<1> QED BY <1>1, <1>2, <1>3, <1>4

(* A verified backend, and the workspace the startup opens over it.        *)
LEMMA SuccessesKeep ==
  ASSUME LifecycleInv, Verified \/ OpenWorkspace
  PROVE  LifecycleInv'
<1>1. CASE Verified
  <2> USE <1>1 DEF Verified, LifecycleInv, EndTask, Show, processVars, shutdownVars, pastVars
  <2>1. ready
    BY DEF WindowInv
  <2>2. LifecycleTypes' /\ ProcessInv'
    BY DEF LifecycleTypes, ProcessInv, Tasks, Steps
  <2>3. WaitInv' /\ ShutdownInv' /\ ReportInv'
    BY DEF WaitInv, ShutdownInv, ReportInv
  <2>4. TaskInv' /\ WindowInv'
    BY <2>1 DEF TaskInv, WindowInv, Untouched
  <2> QED BY <2>2, <2>3, <2>4
<1>2. CASE OpenWorkspace
  <2>1. CASE FailTask
    BY <1>2, <2>1, FailTaskKeeps DEF OpenWorkspace
  <2>2. CASE server' = TRUE /\ EndTask /\ Show("workspace")
    <3> USE <1>2, <2>2 DEF OpenWorkspace, LifecycleInv, EndTask, Show, processVars, shutdownVars,
        pastVars
    <3>1. LifecycleTypes' /\ ProcessInv'
      BY DEF LifecycleTypes, ProcessInv, Tasks, Steps
    <3>2. WaitInv' /\ ShutdownInv' /\ ReportInv'
      BY DEF WaitInv, ShutdownInv, ReportInv
    <3>3. TaskInv' /\ WindowInv'
      BY DEF TaskInv, WindowInv, Untouched
    <3> QED BY <3>1, <3>2, <3>3
  <2> QED BY <1>2, <2>1, <2>2 DEF OpenWorkspace
<1> QED BY <1>1, <1>2

(* Somebody gives up waiting for the current process.                      *)
LEMMA GivingUpKeeps ==
  ASSUME LifecycleInv, StopFails \/ ShutdownFails
  PROVE  LifecycleInv'
<1>1. CASE StopFails
  <2> USE <1>1 DEF StopFails, WaitFails, LifecycleInv, FailTask, EndTask, Show
  <2>1. stage = "stop" /\ stopping["task"] = current
    BY DEF WaitInv
  <2>2. LifecycleTypes' /\ ProcessInv' /\ ShutdownInv'
    BY DEF LifecycleTypes, ProcessInv, ShutdownInv, Tasks, Steps, NoBackend
  <2>3. WaitInv'
    BY DEF LifecycleTypes, WaitInv, NoBackend
  <2>4. ReportInv'
    BY DEF ReportInv
  <2>5. TaskInv' /\ WindowInv'
    BY <2>1 DEF LifecycleTypes, TaskInv, WindowInv, Untouched
  <2> QED BY <2>2, <2>3, <2>4, <2>5
<1>2. CASE ShutdownFails
  <2> USE <1>2 DEF ShutdownFails, WaitFails, LifecycleInv, Show, taskVars
  <2>1. shutdown = "waiting" /\ ~exited
    BY DEF LifecycleTypes, WaitInv, ShutdownInv
  <2>2. LifecycleTypes' /\ ProcessInv'
    BY DEF LifecycleTypes, ProcessInv, Tasks, Steps, NoBackend
  <2>3. WaitInv' /\ ShutdownInv'
    BY <2>1 DEF LifecycleTypes, WaitInv, ShutdownInv, NoBackend
  <2>4. ReportInv'
    BY DEF ReportInv
  <2>5. TaskInv' /\ WindowInv'
    BY DEF LifecycleTypes, TaskInv, WindowInv, Untouched
  <2> QED BY <2>2, <2>3, <2>4, <2>5
<1> QED BY <1>1, <1>2

(* A shutdown begins whatever a task is doing.                             *)
LEMMA BeginShutdownKeeps ==
  ASSUME LifecycleInv, BeginShutdown, screen' \in {screen, "closed"}
  PROVE  LifecycleInv'
<1> USE DEF LifecycleInv, BeginShutdown, StopBackend, taskVars
<1>1. LifecycleTypes'
  BY DEF LifecycleTypes, ProcessInv, Tasks, Steps, NoBackend
<1>2. ProcessInv' /\ ShutdownInv'
  BY DEF ProcessInv, ShutdownInv, NoBackend
<1>3. WaitInv'
  BY DEF LifecycleTypes, ProcessInv, WaitInv, NoBackend
<1>4. ReportInv'
  BY DEF ReportInv, ProcessInv
<1>5. TaskInv' /\ WindowInv'
  BY DEF LifecycleTypes, ProcessInv, TaskInv, WindowInv, Untouched
<1> QED BY <1>1, <1>2, <1>3, <1>4, <1>5

(* Quitting, closing the window, and the end of Electron.                  *)
LEMMA ShutdownKeeps ==
  ASSUME LifecycleInv, Quit \/ CloseWindow \/ Leave
  PROVE  LifecycleInv'
<1>1. CASE BeginShutdown /\ screen' \in {screen, "closed"}
  BY <1>1, BeginShutdownKeeps
<1>2. CASE Leave
  BY <1>2 DEF Leave, LifecycleInv, LifecycleTypes, ProcessInv, WaitInv, ShutdownInv, ReportInv,
     TaskInv, WindowInv, Untouched, processVars, windowVars, taskVars, pastVars
<1>3. CASE /\ screen' = "closed"
           /\ UNCHANGED <<processVars, shutdownVars, server, taskVars, pastVars>>
  BY <1>3 DEF LifecycleInv, LifecycleTypes, ProcessInv, WaitInv, ShutdownInv, ReportInv,
     TaskInv, WindowInv, Untouched, processVars, shutdownVars, taskVars, pastVars
<1> QED BY <1>1, <1>2, <1>3 DEF Quit, CloseWindow

(* The current process ends: nobody waits for it any more, and it is       *)
(* reported unless it was marked.                                          *)
LEMMA ExitKeeps ==
  ASSUME LifecycleInv, NEW c \in live, BackendExits(c)
  PROVE  LifecycleInv'
<1> USE DEF LifecycleInv, BackendExits, Show
<1>1. c = current /\ current # NoBackend /\ live' = {} /\ current' = NoBackend /\ ready' = FALSE
  BY DEF ProcessInv, LifecycleTypes
<1>2. LifecycleTypes'
  BY <1>1 DEF LifecycleTypes, Tasks, Steps, NoBackend
<1>3. ProcessInv' /\ ShutdownInv'
  BY <1>1 DEF LifecycleTypes, WaitInv, ProcessInv, ShutdownInv
<1>4. WaitInv'
  BY <1>1 DEF LifecycleTypes, WaitInv, NoBackend
<1>5. ReportInv'
  BY <1>1 DEF ReportInv
<1>6. TaskInv'
  BY <1>1 DEF LifecycleTypes, TaskInv, WaitInv, Tasks, Steps
<1>7. WindowInv'
  <2>1. screen' = "workspace" /\ ~quitting' => server'
    BY DEF WindowInv, LifecycleTypes
  <2>2. ~(stage' = "open" /\ ~missed')
    BY <1>1 DEF WaitInv
  <2>3. ASSUME screen' = "workspace", ~quitting', ~missed', Untouched'
        PROVE  FALSE
    <3>1. screen = "workspace" /\ ~quitting /\ ~missed
      BY <2>3
    <3>2. stage \in {"idle", "dialog"}
      BY <1>1, <2>3 DEF Untouched, WaitInv
    <3>3. ready
      BY <3>1, <3>2 DEF WindowInv, Untouched
    <3>4. c \notin intentional
      BY <1>1, <3>1, <3>2 DEF WaitInv, ShutdownInv
    <3> QED BY <2>3, <3>1, <3>3, <3>4
  <2> QED BY <1>1, <2>1, <2>2, <2>3 DEF WindowInv
<1> QED BY <1>2, <1>3, <1>4, <1>5, <1>6, <1>7

-----------------------------------------------------------------------------

(* The inductive invariant: there is at most the current process, whoever  *)
(* waits waits for it, and everything else follows from where the task and *)
(* the shutdown are (main.cjs, desktop-lifecycle.cjs).                     *)
THEOREM LifecycleInvariance == LifecycleSpec => []LifecycleInv
<1>1. LifecycleInit => LifecycleInv
  BY InitialLifecycle
<1>2. LifecycleInv /\ [LifecycleNext]_lifecycleVars => LifecycleInv'
  <2> SUFFICES ASSUME LifecycleInv, [LifecycleNext]_lifecycleVars PROVE LifecycleInv'
    OBVIOUS
  <2>1. CASE Task
    BY <2>1, OperationsKeep, FailuresKeep, StartsKeep, SuccessesKeep, GivingUpKeeps DEF Task
  <2>2. CASE Quit \/ CloseWindow \/ Leave
    BY <2>2, ShutdownKeeps
  <2>3. CASE ShutdownFails
    BY <2>3, GivingUpKeeps
  <2>4. CASE \E c \in live : BackendExits(c)
    BY <2>4, ExitKeeps
  <2>5. CASE UNCHANGED lifecycleVars
    BY <2>5 DEF lifecycleVars, processVars, shutdownVars, windowVars, taskVars, pastVars, LifecycleInv,
       LifecycleTypes, ProcessInv, WaitInv, ShutdownInv, ReportInv, TaskInv, WindowInv, Untouched
  <2> QED BY <2>1, <2>2, <2>3, <2>4, <2>5 DEF LifecycleNext
<1> QED BY <1>1, <1>2, PTL DEF LifecycleSpec

(* One backend at most uses the database, and Electron ends without one    *)
(* but for those started late (stopBackend, runShutdown).                  *)
THEOREM ControlledBackends == LifecycleSpec => []BackendsAreControlled
<1>1. LifecycleInv => BackendsAreControlled
  BY DEF LifecycleInv, ProcessInv, ShutdownInv, BackendsAreControlled
<1> QED BY <1>1, LifecycleInvariance, PTL

(* What the window shows of the backend is true                            *)
(* (attachBackendProcessObservers, onShutdownFailure).                     *)
THEOREM WindowIsHonest == LifecycleSpec => []HonestWindow
<1>1. LifecycleInv => HonestWindow
  BY DEF LifecycleInv, ProcessInv, ReportInv, TaskInv, WindowInv, Untouched, HonestWindow
<1> QED BY <1>1, LifecycleInvariance, PTL

=============================================================================
