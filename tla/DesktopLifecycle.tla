-------------------------- MODULE DesktopLifecycle --------------------------
(***************************************************************************)
(* Who starts and stops the backend process of the desktop: the startup of *)
(* the application, one storage operation at a time, and the shutdown,     *)
(* which does not ask for the operation lock (desktop-lifecycle.cjs,       *)
(* operation-control.cjs, main.cjs).                                       *)
(*                                                                         *)
(* The files and the journal that decide how a task continues are those of *)
(* StorageTransaction; here each of its steps may succeed or fail.  What   *)
(* StorageTransaction leaves out is modelled here: two waits for the same  *)
(* process, a quit in the middle of a task, a quit that fails, the window. *)
(***************************************************************************)
EXTENDS Naturals

CONSTANT MaxBackends       \* bound on the processes started

ASSUME MaxBackendsAssumption == MaxBackends \in Nat

VARIABLES
  live,          \* backend processes that run; they are numbered from 1
  spawned,       \* how many were started
  current,       \* backendProcess, NoBackend if null
  ready,         \* backendIsReady
  intentional,   \* intentionallyStoppedBackendProcesses
  stopping,      \* the process whose exit the task and the shutdown wait for
  quitting,      \* isQuitting
  shutdown,      \* "none", "waiting" for stopBackend, or "complete"
  exited,        \* Electron has ended
  server,        \* the renderer server listens
  screen,        \* what the window shows: "startup", "workspace", "error", "closed"
  task,          \* what runs: the startup or the holder of the operation lock
  stage,         \* where it is
  asked,         \* history: processes somebody wanted to stop
  expired,       \* history: of these, the ones with a wait that failed
  reported,      \* history: processes whose exit was reported as unexpected
  late,          \* history: processes started after the shutdown had looked for one
  missed         \* history: a backend ended while the startup opened the workspace

processVars == <<live, spawned, current, ready, intentional, stopping>>
shutdownVars == <<quitting, shutdown, exited>>
windowVars == <<server, screen>>
taskVars == <<task, stage>>
pastVars == <<asked, expired, reported, late, missed>>
lifecycleVars == <<processVars, shutdownVars, windowVars, taskVars, pastVars>>

NoBackend == 0

LifecycleInit ==
  /\ live = {} /\ spawned = 0 /\ current = NoBackend /\ ready = FALSE /\ intentional = {}
  /\ stopping = [task |-> NoBackend, shutdown |-> NoBackend]
  /\ quitting = FALSE /\ shutdown = "none" /\ exited = FALSE
  /\ server = FALSE /\ screen = "startup"
  /\ task = "startup" /\ stage = "offline"
  /\ asked = {} /\ expired = {} /\ reported = {} /\ late = {} /\ missed = FALSE

(* A page is loaded into the window if there is one.                       *)
Show(page) == screen' = IF screen = "closed" THEN "closed" ELSE page

EndTask == task' = "none" /\ stage' = "idle"
FailTask == EndTask /\ Show("error")

(* stopBackend: without a process there is nothing to wait for.            *)
StopBackend(owner) ==
  /\ stopping' = [stopping EXCEPT ![owner] = current]
  /\ intentional' = intentional \cup ({current} \ {NoBackend})
  /\ asked' = asked \cup ({current} \ {NoBackend})
  /\ ready' = (ready /\ current # NoBackend)
  /\ UNCHANGED <<live, spawned, current>>

(* The task stops the backend and goes on when it is down.                 *)
StopForTask ==
  /\ StopBackend("task")
  /\ stage' = IF current = NoBackend THEN "offline" ELSE "stop"
  /\ UNCHANGED <<expired, reported, late, missed>>

-----------------------------------------------------------------------------
(* Tasks.  The workspace, and nothing else, can ask for an operation.      *)

BeginOperation ==
  /\ task = "none" /\ screen = "workspace"
  /\ task' \in {"backup", "change"}
  /\ stage' = "dialog"
  /\ UNCHANGED <<processVars, shutdownVars, windowVars, pastVars>>

(* Cancelled, invalid, or a backup, which leaves the backend alone.        *)
EndDialog ==
  /\ stage = "dialog"
  /\ EndTask
  /\ UNCHANGED <<processVars, shutdownVars, windowVars, pastVars>>

(* A journal is left: nothing is started.                                  *)
RecoveryPending ==
  /\ stage = "dialog" /\ task = "change"
  /\ FailTask
  /\ UNCHANGED <<processVars, shutdownVars, server, pastVars>>

StopForOperation ==
  /\ stage = "dialog" /\ task = "change"
  /\ StopForTask
  /\ UNCHANGED <<shutdownVars, windowVars, task>>

(* With no backend running files are inspected, changed or restored: the   *)
(* startup may find a journal to undo, an operation may change nothing.    *)
Continuations ==
  [startup |-> {"startup", "recovery"}, recovery |-> {}, change |-> {"change", "unchanged"},
   rollback |-> {"rollback"}, unchanged |-> {}]

StartBackend ==
  /\ stage = "offline"
  /\ task' \in Continuations[task]
  /\ stage' = "port"
  /\ ready' = FALSE
  /\ UNCHANGED <<live, spawned, current, intentional, stopping, shutdownVars, windowVars,
                 pastVars>>

ChangesFail ==
  /\ stage = "offline" /\ task = "change"
  /\ task' = "rollback"
  /\ StopForTask
  /\ UNCHANGED <<shutdownVars, windowVars>>

(* Also what a startup recovery does after it has stopped its backend.     *)
FilesFail ==
  /\ stage = "offline"
  /\ FailTask
  /\ UNCHANGED <<processVars, shutdownVars, server, pastVars>>

SpawnBackend ==
  /\ stage = "port"
  /\ spawned < MaxBackends
  /\ spawned' = spawned + 1
  /\ live' = live \cup {spawned'}
  /\ current' = spawned'
  /\ late' = IF shutdown = "none" THEN late ELSE late \cup {spawned'}
  /\ stage' = "health"
  /\ UNCHANGED <<ready, intentional, stopping, shutdownVars, windowVars, task, asked, expired,
                 reported, missed>>

BackendReady ==
  /\ stage = "health" /\ current # NoBackend
  /\ ready' = TRUE
  /\ missed' = FALSE
  /\ stage' = IF task = "startup" THEN "open" ELSE "verify"
  /\ UNCHANGED <<live, spawned, current, intentional, stopping, shutdownVars, windowVars, task,
                 asked, expired, reported, late>>

(* The backend does not start, ends, is not ready in time, or fails the    *)
(* verification.                                                           *)
StartFails ==
  /\ stage \in {"port", "health", "verify"}
  /\ \/ /\ task = "change"
        /\ task' = "rollback"
        /\ StopForTask
        /\ UNCHANGED windowVars
     \/ /\ task = "recovery"
        /\ StopForTask
        /\ UNCHANGED <<windowVars, task>>
     \/ /\ task \in {"startup", "rollback", "unchanged"}
        /\ FailTask
        /\ UNCHANGED <<processVars, server, pastVars>>
  /\ UNCHANGED shutdownVars

(* A rollback loads the workspace again; the renderer server may be gone.  *)
Verified ==
  /\ stage = "verify" /\ current # NoBackend
  /\ \/ task = "recovery" /\ stage' = "open" /\ UNCHANGED <<task, screen>>
     \/ task \in {"change", "unchanged"} /\ EndTask /\ UNCHANGED screen
     \/ task = "rollback" /\ EndTask /\ Show(IF server THEN "workspace" ELSE "error")
  /\ UNCHANGED <<processVars, shutdownVars, server, pastVars>>

OpenWorkspace ==
  /\ stage = "open"
  /\ \/ server' = TRUE /\ EndTask /\ Show("workspace")
     \/ server' \in {server, TRUE} /\ FailTask
  /\ UNCHANGED <<processVars, shutdownVars, pastVars>>

(* The exit is not confirmed in time, or the request was not accepted.     *)
WaitFails(owner) ==
  /\ stopping[owner] # NoBackend
  /\ stopping' = [stopping EXCEPT ![owner] = NoBackend]
  /\ intentional' = intentional \ {stopping[owner]}
  /\ expired' = expired \cup {stopping[owner]}
  /\ UNCHANGED <<live, spawned, current, ready, server, exited, asked, reported, late, missed>>

(* Mutant: the rollback goes on although the backend may still run.        *)
StopFailsUnnoticed ==
  /\ WaitFails("task")
  /\ \/ task = "change" /\ EndTask
     \/ task # "change" /\ stage' = "offline" /\ UNCHANGED task
  /\ UNCHANGED <<quitting, shutdown, screen>>

(* Mutant: the process stays marked as stopped on purpose.                 *)
StopFailsUnmarked ==
  /\ stopping["task"] # NoBackend
  /\ stopping' = [stopping EXCEPT !["task"] = NoBackend]
  /\ expired' = expired \cup {stopping["task"]}
  /\ IF task = "change" THEN EndTask /\ UNCHANGED screen ELSE FailTask
  /\ UNCHANGED <<live, spawned, current, ready, intentional, server, shutdownVars, asked,
                 reported, late, missed>>

(* An operation that could not begin leaves the workspace open.            *)
StopFails ==
  /\ WaitFails("task")
  /\ IF task = "change" THEN EndTask /\ UNCHANGED screen ELSE FailTask
  /\ UNCHANGED <<quitting, shutdown>>

-----------------------------------------------------------------------------
(* The shutdown.                                                           *)

(* handleBeforeQuit: a shutdown under way is not begun again.              *)
BeginShutdown ==
  /\ shutdown = "none"
  /\ quitting' = TRUE
  /\ server' = FALSE
  /\ StopBackend("shutdown")
  /\ shutdown' = IF current = NoBackend THEN "complete" ELSE "waiting"
  /\ late' = {}
  /\ UNCHANGED <<exited, taskVars, expired, reported, missed>>

Quit == screen # "closed" /\ BeginShutdown /\ UNCHANGED screen

CloseWindow ==
  /\ screen # "closed"
  /\ screen' = "closed"
  /\ \/ BeginShutdown
     \/ /\ shutdown # "none"
        /\ UNCHANGED <<processVars, shutdownVars, server, taskVars, pastVars>>

ShutdownFails ==
  /\ WaitFails("shutdown")
  /\ quitting' = FALSE
  /\ shutdown' = "none"
  /\ Show("error")
  /\ UNCHANGED taskVars

(* Electron ends; tasks go on until it does.                               *)
Leave ==
  /\ shutdown = "complete"
  /\ exited' = TRUE
  /\ UNCHANGED <<processVars, quitting, shutdown, windowVars, taskVars, pastVars>>

-----------------------------------------------------------------------------
(* A backend ends, by itself or because it was asked to: the observers     *)
(* report what nobody wanted, then the waits for it are over.              *)
BackendExits(c) ==
  LET unexpected == ready /\ ~quitting /\ c \notin intentional IN
  /\ c \in live
  /\ live' = live \ {c}
  /\ intentional' = intentional \ {c}
  /\ current' = IF current = c THEN NoBackend ELSE current
  /\ ready' = (ready /\ current # c)
  /\ stopping' = [o \in DOMAIN stopping |-> IF stopping[o] = c THEN NoBackend ELSE stopping[o]]
  /\ stage' = IF stopping["task"] = c THEN "offline" ELSE stage
  /\ shutdown' = IF stopping["shutdown"] = c THEN "complete" ELSE shutdown
  /\ IF unexpected THEN Show("error") ELSE UNCHANGED screen
  /\ reported' = IF unexpected THEN reported \cup {c} ELSE reported
  /\ missed' = (missed \/ stage = "open")
  /\ UNCHANGED <<spawned, quitting, exited, server, task, asked, expired, late>>

Task ==
  \/ BeginOperation \/ EndDialog \/ RecoveryPending \/ StopForOperation
  \/ StartBackend \/ ChangesFail \/ FilesFail \/ SpawnBackend \/ BackendReady
  \/ StartFails \/ Verified \/ OpenWorkspace \/ StopFails

LifecycleNext ==
  /\ ~exited
  /\ \/ Task
     \/ Quit \/ CloseWindow \/ ShutdownFails \/ Leave
     \/ \E c \in live : BackendExits(c)

LifecycleSpec == LifecycleInit /\ [][LifecycleNext]_lifecycleVars

-----------------------------------------------------------------------------

(* Two backends never run over the same database, whatever stops, fails or *)
(* is stopped twice, and Electron only ends without one (stopBackend and   *)
(* runShutdown), except one an operation started after the shutdown had    *)
(* looked for it.                                                          *)
BackendsAreControlled ==
  /\ \A c, d \in live : c = d
  /\ exited => live \subseteq late

(* An idle workspace has a ready backend and a server, also after a stop   *)
(* or a quit that failed, unless the backend ended in the moment the       *)
(* startup opened the workspace; a stop that was asked for is only         *)
(* reported as a crash if somebody has given up waiting for it             *)
(* (attachBackendProcessObservers, stopBackend).                           *)
HonestWindow ==
  /\ screen = "workspace" /\ ~quitting =>
       /\ server
       /\ task = "none" /\ ~missed => ready /\ current \in live
  /\ reported \cap asked \subseteq expired

=============================================================================
