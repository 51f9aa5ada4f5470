------------------------- MODULE StorageTransaction -------------------------
(***************************************************************************)
(* The journaled storage transaction of the desktop application            *)
(* (desktop/src/storage-transaction.cjs and storage-recovery.cjs) and the  *)
(* recovery Electron runs before it starts the backend.                    *)
(*                                                                         *)
(* Electron's code is one process whose location is pc; everything between *)
(* two awaits is atomic for the backend and the user, but the process can  *)
(* crash between any two writes to the disk. The disk (active, journal,    *)
(* snapshot) survives a crash, everything else is lost. A backend that is  *)
(* running writes its own files at any time. Electron starts the backend   *)
(* as a child that does not outlive it (libuv's job object on Windows, the *)
(* supported platform).                                                    *)
(***************************************************************************)
EXTENDS StoragePlans, Naturals

CONSTANTS
  MaxFaults,      \* bound on crashes, failed calls and failed writes
  MaxOperations,  \* bound on the operations a user starts
  InitialFiles,   \* the user-data directories the application may find
  Work            \* what the backend or the user may write meanwhile

ASSUME BoundsAssumption == MaxFaults \in Nat /\ MaxOperations \in Nat
ASSUME InitialFilesAssumption == InitialFiles \subseteq [Paths -> Values]
ASSUME WorkAssumption == Work \subseteq Contents \ Plaintext

VARIABLES
  active,     \* content of every active file
  journal,    \* the recovery root: no journal, a torn one, or its state
  snapshot,   \* the recovery payloads of the journal
  pc,         \* where Electron's startup or storage operation is
  caller,     \* which of the two runs the shared rollback code
  child,      \* the backend process Electron holds
  screen,     \* what the main window shows
  todo,       \* the files a plan, or the move of a token, has still to handle
  op,         \* the last operation that reached the disk (history)
  before,     \* active as that operation found it (history)
  report,     \* the last outcome Electron reported: an error's rule (history)
  faults, operations   \* bounds

disk == <<active, journal, snapshot>>
bounds == <<faults, operations>>
vars == <<active, journal, snapshot, pc, caller, child, screen, todo, op,
          before, report, faults, operations>>

-----------------------------------------------------------------------------

(* Mutant: startup takes applied changes for a completed operation.         *)
TerminalWithApplied == {"rolled_back", "committed", "applied"}

Terminal == {"rolled_back", "committed"}
Unfinished == {"prepared", "mutating", "applied", "verifying",
               "rolling_back", "rollback_applied"}
JournalStates == Unfinished \cup Terminal

(* ALLOWED_TRANSITIONS: a write of any other state is rejected.            *)
AllowedTransitions ==
  {<<"prepared", "mutating">>, <<"mutating", "applied">>,
   <<"applied", "verifying">>, <<"verifying", "committed">>,
   <<"rolling_back", "rollback_applied">>,
   <<"rollback_applied", "rolled_back">>,
   <<"rollback_applied", "rolling_back">>}
  \cup {<<s, "rolling_back">> :
          s \in {"prepared", "mutating", "applied", "verifying"}}

Starting == {"boot", "start_new", "start_old", "start_same"}
Verifying == {"verify_new", "verify_old", "verify_same"}
Cleaning == {"clean_committed", "clean_rolled_back", "clean_terminal"}
Locations == {"down", "inspect", "open", "idle", "stop", "capture", "apply",
              "started_new", "undo", "restore", "diagnose", "settle"}
             \cup Starting \cup Verifying \cup Cleaning

Rules == {"none", "started", "recovered", "success",
          "backend_exited", "startup_failed", "startup_recovery_invalid",
          "startup_recovery_restore", "startup_recovery_restart",
          "startup_recovery_cleanup", "recovery_state_invalid",
          "recovery_pending", "shutdown_unconfirmed",
          "recovery_state_changed", "snapshot_restart", "snapshot_failed",
          "rollback_shutdown", "rollback_copy", "rollback_restart",
          "rollback_diagnostic", "rollback_cleanup",
          "operation_rolled_back", "commit_cleanup"}

Init ==
  /\ active \in InitialFiles
  /\ journal = "none"
  /\ snapshot = [p \in Paths |-> Absent]
  /\ pc = "down"
  /\ caller = "startup"
  /\ child = "none"
  /\ screen = "none"
  /\ todo = {}
  /\ op = NoOperation
  /\ before = active
  /\ report = "none"
  /\ faults = 0
  /\ operations = 0

Fault == faults < MaxFaults /\ faults' = faults + 1

(* transitionRecoveryJournal: validate, check the table, write, validate.  *)
WriteJournal(next) ==
  /\ <<journal, next>> \in AllowedTransitions
  /\ journal' = next

(* A transition that throws may have replaced journal.json already.        *)
FailJournal(next) ==
  journal' \in {journal} \cup {s \in {next} : <<journal, s>> \in AllowedTransitions}

Finish(rule, shown) ==
  /\ pc' = "idle"
  /\ report' = rule
  /\ screen' = shown

(* An error with recoveryRequired replaces the workspace.                  *)
Close(rule) == Finish(rule, "error")

(* stopBackendAfterRecoveryFailure: a failure to stop is swallowed.        *)
TryToStop == child' \in {"none", child}

-----------------------------------------------------------------------------
(* The world around Electron.                                              *)

Launch ==
  /\ pc = "down"
  /\ pc' = "inspect"
  /\ caller' = "startup"
  /\ screen' = "startup"
  /\ UNCHANGED <<disk, child, todo, op, before, report, bounds>>

(* Closing the application while Electron awaits something: the backend is *)
(* stopped and the process exits, whatever an operation was doing.         *)
Quit ==
  /\ pc \in {"open", "idle", "stop", "undo"} \cup Starting \cup Verifying
  /\ todo = {}
  /\ pc' = "down"
  /\ child' = "none"
  /\ screen' = "none"
  /\ UNCHANGED <<disk, caller, todo, op, before, report, bounds>>

Crash ==
  /\ pc # "down"
  /\ Fault
  /\ pc' = "down"
  /\ child' = "none"
  /\ screen' = "none"
  /\ todo' = {}
  /\ UNCHANGED <<disk, caller, op, before, report, operations>>

(* The exit observer of a ready backend shows the error screen.            *)
BackendDies ==
  /\ child = "ready"
  /\ pc \in {"open", "idle"} \cup Verifying
  /\ Fault
  /\ child' = "none"
  /\ screen' = "error"
  /\ report' = "backend_exited"
  /\ UNCHANGED <<disk, pc, caller, todo, op, before, operations>>

(* Migrations, synchronization and logging.                                *)
BackendWrites ==
  /\ child # "none"
  /\ \E p \in ServedPaths :
       \E c \in IF p \in Companions THEN Work \cup {Absent} ELSE Work :
         active' = [active EXCEPT ![p] = c]
  /\ UNCHANGED <<journal, snapshot, pc, caller, child, screen, todo, op,
                 before, report, bounds>>

(* Settings and the stored token.                                          *)
UserEdits ==
  /\ pc = "idle" /\ screen = "workspace" /\ child = "ready"
  /\ \E p \in SettledPaths, c \in Work : active' = [active EXCEPT ![p] = c]
  /\ UNCHANGED <<journal, snapshot, pc, caller, child, screen, todo, op,
                 before, report, bounds>>

-----------------------------------------------------------------------------
(* Application startup: recoverInterruptedStorageOperation, then the       *)
(* ordinary start of the backend.                                          *)

InspectRecoveryRoot ==
  /\ pc = "inspect"
  /\ \/ /\ journal = "none"
        /\ pc' = "boot"
        /\ UNCHANGED <<screen, report>>
     \/ /\ journal \in Terminal
        /\ pc' = "clean_terminal"
        /\ UNCHANGED <<screen, report>>
     \/ /\ journal = "torn"
        /\ Close("startup_recovery_invalid")
  /\ UNCHANGED <<disk, caller, child, todo, op, before, bounds>>

(* Mutant: rolling_back is written again, which the table rejects.         *)
StartRecoveryWithoutResume ==
  /\ pc = "inspect"
  /\ journal \in Unfinished
  /\ WriteJournal("rolling_back")
  /\ pc' = "restore"
  /\ todo' = op.scope
  /\ UNCHANGED <<active, snapshot, caller, child, screen, op, before,
                 report, bounds>>

StartRecovery ==
  /\ pc = "inspect"
  /\ journal \in Unfinished
  /\ IF journal = "rolling_back" THEN UNCHANGED journal
                                 ELSE WriteJournal("rolling_back")
  /\ pc' = "restore"
  /\ todo' = op.scope
  /\ UNCHANGED <<active, snapshot, caller, child, screen, op, before,
                 report, bounds>>

InspectionFails ==
  /\ pc = "inspect"
  /\ Fault
  /\ \/ Close("startup_recovery_invalid") /\ UNCHANGED journal
     \/ /\ journal \in Unfinished
        /\ FailJournal("rolling_back")
        /\ Close("startup_recovery_restore")
  /\ UNCHANGED <<active, snapshot, caller, child, todo, op, before, operations>>

-----------------------------------------------------------------------------
(* startBackend and the verification of what it serves. The same calls     *)
(* start the ordinary, the new, the restored and the untouched state.      *)

(* getJiraTokenForBackend: a token in plain text is moved to its own file, *)
(* by two writes that no journal knows of.                                 *)
StoreToken ==
  /\ pc \in Starting /\ child = "none" /\ todo = {}
  /\ Bare(active)
  /\ active' = [active EXCEPT ![Token] = Encrypted]
  /\ todo' = {Config}
  /\ UNCHANGED <<journal, snapshot, pc, caller, child, screen, op, before,
                 report, bounds>>

StripToken ==
  /\ pc \in Starting /\ todo = {Config}
  /\ active' = [active EXCEPT ![Config] = Stripped]
  /\ todo' = {}
  /\ UNCHANGED <<journal, snapshot, pc, caller, child, screen, op, before,
                 report, bounds>>

SpawnBackend ==
  /\ pc \in Starting
  /\ child = "none" /\ todo = {}
  /\ ~Bare(active)
  /\ child' = "booting"
  /\ UNCHANGED <<disk, pc, caller, screen, todo, op, before, report, bounds>>

(* Readiness implies a migrated database: a missing one is created empty.  *)
BackendReady ==
  /\ pc \in Starting
  /\ child = "booting"
  /\ child' = "ready"
  /\ active' = [active EXCEPT ![Database] = IF @ = Absent THEN Empty ELSE @]
  /\ \/ pc = "boot" /\ pc' = "open" /\ report' = "started"
     \/ /\ \/ pc = "start_new" /\ pc' = "started_new"
           \/ pc = "start_old" /\ pc' = "verify_old"
           \/ pc = "start_same" /\ pc' = "verify_same"
        /\ UNCHANGED report
  /\ UNCHANGED <<journal, snapshot, caller, screen, todo, op, before, bounds>>

(* Not ready in time: the child may be left running.                       *)
StartFails ==
  /\ pc \in {"boot", "start_same"}
  /\ Fault
  /\ child' \in {"none", child}
  /\ todo' = {}
  /\ Close(IF pc = "boot" THEN "startup_failed" ELSE "snapshot_restart")
  /\ UNCHANGED <<disk, caller, op, before, operations>>

(* The last awaits of runApplicationStartup, the renderer's origin and its *)
(* page: the page replaces whatever the window shows, the error page of a  *)
(* backend that ended meanwhile included.                                  *)
OpenWorkspace ==
  /\ pc = "open"
  /\ pc' = "idle"
  /\ screen' = "workspace"
  /\ UNCHANGED <<disk, caller, child, todo, op, before, report, bounds>>

(* The renderer's server or page fails: the backend is left running.       *)
OpenFails ==
  /\ pc = "open"
  /\ Fault
  /\ Close("startup_failed")
  /\ UNCHANGED <<disk, caller, child, todo, op, before, operations>>

-----------------------------------------------------------------------------
(* runStorageTransaction, up to the commit.                                *)

BeginOperation ==
  /\ pc = "idle" /\ screen = "workspace"
  /\ operations < MaxOperations
  /\ operations' = operations + 1
  /\ caller' = "operation"
  /\ \/ /\ journal = "none"
        /\ op' \in Operations
        /\ report' = "none"
        /\ pc' = "stop"
        /\ UNCHANGED screen
     \/ /\ journal = "torn"
        /\ Close("recovery_state_invalid")
        /\ UNCHANGED op
     \/ /\ journal \in JournalStates
        /\ Close("recovery_pending")
        /\ UNCHANGED op
  /\ UNCHANGED <<disk, child, todo, before, faults>>

(* Mutant: a fixed delay instead of a confirmed exit of the backend.       *)
StopForOperationUnconfirmed ==
  /\ pc = "stop"
  /\ child' \in {"none", child}
  /\ before' = active
  /\ pc' = "capture"
  /\ UNCHANGED <<disk, caller, screen, todo, op, report, bounds>>

StopForOperation ==
  /\ pc = "stop"
  /\ child' = "none"
  /\ before' = active
  /\ pc' = "capture"
  /\ UNCHANGED <<disk, caller, screen, todo, op, report, bounds>>

StopFails ==
  /\ pc = "stop" /\ child # "none"
  /\ Fault
  /\ Finish("shutdown_unconfirmed", screen)
  /\ UNCHANGED <<disk, caller, child, todo, op, before, operations>>

(* createRecoveryJournal: the directory, the payloads, then journal.json.  *)
MakeRecoveryDirectory ==
  /\ pc = "capture" /\ journal = "none"
  /\ journal' = "torn"
  /\ UNCHANGED <<active, snapshot, pc, caller, child, screen, todo, op,
                 before, report, bounds>>

(* Mutant: payloads are recorded for declared paths only.                  *)
PublishPartialJournal ==
  /\ pc = "capture" /\ journal = "torn"
  /\ snapshot' = [p \in op.scope |-> active[p]]
  /\ journal' = "prepared"
  /\ UNCHANGED <<active, pc, caller, child, screen, todo, op, before,
                 report, bounds>>

PublishJournal ==
  /\ pc = "capture" /\ journal = "torn"
  /\ snapshot' = [p \in Paths |-> IF p \in op.scope THEN active[p] ELSE Absent]
  /\ journal' = "prepared"
  /\ UNCHANGED <<active, pc, caller, child, screen, todo, op, before,
                 report, bounds>>

(* The journal directory is removed again and the backend restarted on the *)
(* untouched files, unless the removal itself fails.                       *)
SnapshotFails ==
  /\ pc = "capture"
  /\ Fault
  /\ \/ /\ journal' = "none"
        /\ pc' = "start_same"
        /\ UNCHANGED <<screen, report>>
     \/ /\ journal' \in {"torn", journal} \ {"none"}
        /\ Close("recovery_state_changed")
  /\ UNCHANGED <<active, snapshot, caller, child, todo, op, before, operations>>

BeginMutation ==
  /\ pc = "capture"
  /\ WriteJournal("mutating")
  /\ pc' = "apply"
  /\ todo' = op.scope
  /\ UNCHANGED <<active, snapshot, caller, child, screen, op, before,
                 report, bounds>>

(* The file plan in hand: the operation's, or the restoration of the       *)
(* snapshot, which removes every declared path before it copies any.       *)
Goal == IF pc = "apply" THEN op.goal ELSE snapshot
Deletes == IF pc = "apply" THEN op.deletes ELSE op.scope

(* rmSync of a deletion, or of a replacement's old target.                 *)
RemoveFile ==
  /\ pc \in {"apply", "restore"}
  /\ \E p \in todo :
       /\ active[p] # Absent
       /\ active' = [active EXCEPT ![p] = Absent]
  /\ UNCHANGED <<journal, snapshot, pc, caller, child, screen, todo, op,
                 before, report, bounds>>

(* renameSync of the validated copy; nothing to do for a deleted path.     *)
PublishFile ==
  /\ pc \in {"apply", "restore"}
  /\ \A q \in todo \cap Deletes : active[q] = Absent
  /\ \E p \in todo :
       /\ active[p] = Absent
       /\ active' = [active EXCEPT ![p] = Goal[p]]
       /\ todo' = todo \ {p}
  /\ UNCHANGED <<journal, snapshot, pc, caller, child, screen, op, before,
                 report, bounds>>

ChangesApplied ==
  /\ pc = "apply" /\ todo = {}
  /\ WriteJournal("applied")
  /\ pc' = "start_new"
  /\ UNCHANGED <<active, snapshot, caller, child, screen, todo, op, before,
                 report, bounds>>

BeginVerification ==
  /\ pc = "started_new"
  /\ WriteJournal("verifying")
  /\ pc' = "verify_new"
  /\ UNCHANGED <<active, snapshot, caller, child, screen, todo, op, before,
                 report, bounds>>

Commit ==
  /\ pc = "verify_new" /\ child = "ready"
  /\ Verified(op, active)
  /\ WriteJournal("committed")
  /\ pc' = "clean_committed"
  /\ UNCHANGED <<active, snapshot, caller, child, screen, todo, op, before,
                 report, bounds>>

(* verifyState throws because of what the backend serves, or because the   *)
(* backend is gone.                                                        *)
NewStateRejected ==
  /\ pc = "verify_new"
  /\ child # "ready" \/ ~Verified(op, active)
  /\ pc' = "undo"
  /\ UNCHANGED <<disk, caller, child, screen, todo, op, before, report, bounds>>

(* The journal state a failing step may nevertheless have written.         *)
NextState ==
  CASE pc = "capture"     -> "mutating"
    [] pc = "apply"       -> IF todo = {} THEN "applied" ELSE journal
    [] pc = "started_new" -> "verifying"
    [] pc = "verify_new"  -> IF child = "ready" /\ Verified(op, active)
                             THEN "committed" ELSE journal
    [] OTHER              -> journal

(* Any exception of the transaction's body leads to the rollback.          *)
TransactionFails ==
  /\ pc \in {"capture", "apply", "start_new", "started_new", "verify_new"}
  /\ pc = "capture" => journal = "prepared"
  /\ Fault
  /\ FailJournal(NextState)
  /\ child' \in IF pc = "start_new" THEN {"none", child} ELSE {child}
  /\ pc' = "undo"
  /\ todo' = {}
  /\ UNCHANGED <<active, snapshot, caller, screen, op, before, report, operations>>

-----------------------------------------------------------------------------
(* failWithRollback, and the part of it startup recovery repeats.          *)

(* Mutant: the rollback does not stop the backend of the new state.        *)
UndoOperationWithoutStop ==
  /\ pc = "undo"
  /\ IF <<journal, "rolling_back">> \in AllowedTransitions
     THEN /\ WriteJournal("rolling_back")
          /\ pc' = "restore"
          /\ todo' = op.scope
          /\ UNCHANGED <<screen, report>>
     ELSE /\ Close("rollback_copy")
          /\ UNCHANGED <<journal, todo>>
  /\ UNCHANGED <<active, snapshot, caller, child, op, before, bounds>>

UndoOperation ==
  /\ pc = "undo"
  /\ child' = "none"
  /\ IF <<journal, "rolling_back">> \in AllowedTransitions
     THEN /\ WriteJournal("rolling_back")
          /\ pc' = "restore"
          /\ todo' = op.scope
          /\ UNCHANGED <<screen, report>>
     ELSE /\ Close("rollback_copy")
          /\ UNCHANGED <<journal, todo>>
  /\ UNCHANGED <<active, snapshot, caller, op, before, bounds>>

UndoFails ==
  /\ pc = "undo"
  /\ Fault
  /\ \/ Close("rollback_shutdown") /\ UNCHANGED <<journal, child>>
     \/ /\ child' = "none"
        /\ FailJournal("rolling_back")
        /\ Close("rollback_copy")
  /\ UNCHANGED <<active, snapshot, caller, todo, op, before, operations>>

RestorationDone ==
  /\ pc = "restore" /\ todo = {}
  /\ \A p \in op.scope : active[p] = snapshot[p]
  /\ WriteJournal("rollback_applied")
  /\ pc' = "start_old"
  /\ UNCHANGED <<active, snapshot, caller, child, screen, todo, op, before,
                 report, bounds>>

RestorationFails ==
  /\ pc = "restore"
  /\ Fault
  /\ IF todo = {} THEN FailJournal("rollback_applied") ELSE UNCHANGED journal
  /\ todo' = {}
  /\ Close(IF caller = "startup" THEN "startup_recovery_restore"
                                 ELSE "rollback_copy")
  /\ UNCHANGED <<active, snapshot, caller, child, op, before, operations>>

(* Startup verifies that the served collections are well formed; a failed  *)
(* operation verifies the restored files with its own verifyState.         *)
OldStateVerified == caller = "startup" \/ Verified(op, active)

OldStateAccepted ==
  /\ pc = "verify_old" /\ child = "ready"
  /\ OldStateVerified
  /\ pc' = IF caller = "operation" /\ op.kind = "factory-reset"
           THEN "diagnose" ELSE "settle"
  /\ UNCHANGED <<disk, caller, child, screen, todo, op, before, report, bounds>>

(* Mutant: the workspace is reopened although the old backend failed.      *)
AbandonRestartReopening ==
  IF caller = "startup"
  THEN TryToStop /\ Close("startup_recovery_restart")
  ELSE UNCHANGED child /\ Finish("rollback_restart", "workspace")

(* Startup recovery stops the backend that failed, an operation's rollback *)
(* leaves it.                                                              *)
AbandonRestart ==
  IF caller = "startup"
  THEN TryToStop /\ Close("startup_recovery_restart")
  ELSE UNCHANGED child /\ Close("rollback_restart")

OldStateRejected ==
  /\ pc = "verify_old"
  /\ child # "ready" \/ ~OldStateVerified
  /\ AbandonRestart
  /\ UNCHANGED <<disk, caller, todo, op, before, bounds>>

RestartFails ==
  /\ pc \in {"start_old", "verify_old"}
  /\ Fault
  /\ todo' = {}
  /\ AbandonRestart
  /\ UNCHANGED <<disk, caller, op, before, operations>>

(* preserveRollbackDiagnostic copies the failure files into the logs.      *)
PreserveDiagnostic ==
  /\ pc = "diagnose"
  /\ \E c \in Work : active' = [active EXCEPT ![Logs] = c]
  /\ pc' = "settle"
  /\ UNCHANGED <<journal, snapshot, caller, child, screen, todo, op, before,
                 report, bounds>>

DiagnosticFails ==
  /\ pc = "diagnose"
  /\ Fault
  /\ Finish("rollback_diagnostic", "workspace")
  /\ UNCHANGED <<disk, caller, child, todo, op, before, operations>>

SettleRollback ==
  /\ pc = "settle"
  /\ WriteJournal("rolled_back")
  /\ pc' = "clean_rolled_back"
  /\ UNCHANGED <<active, snapshot, caller, child, screen, todo, op, before,
                 report, bounds>>

(* An unfinished cleanup after a rollback: startup closes, an operation    *)
(* reopens the workspace on the previous state.                            *)
RollbackCleanupFails ==
  IF caller = "startup"
  THEN TryToStop /\ Close("startup_recovery_cleanup")
  ELSE UNCHANGED child /\ Finish("rollback_cleanup", "workspace")

SettleFails ==
  /\ pc = "settle"
  /\ Fault
  /\ FailJournal("rolled_back")
  /\ RollbackCleanupFails
  /\ UNCHANGED <<active, snapshot, caller, todo, op, before, operations>>

-----------------------------------------------------------------------------
(* removeCompletedRecoveryJournal: a recursive removal is not atomic.      *)

BeginRemoval ==
  /\ pc \in Cleaning
  /\ journal \in Terminal
  /\ journal' = "torn"
  /\ UNCHANGED <<active, snapshot, pc, caller, child, screen, todo, op,
                 before, report, bounds>>

(* Mutant: a rolled-back operation returns like a committed one.           *)
FinishRemovalAlike ==
  /\ pc \in Cleaning
  /\ journal = "torn"
  /\ journal' = "none"
  /\ IF pc = "clean_terminal"
     THEN pc' = "boot" /\ UNCHANGED <<screen, report>>
     ELSE Finish("success", "workspace")
  /\ UNCHANGED <<active, snapshot, caller, child, todo, op, before, bounds>>

FinishRemoval ==
  /\ pc \in Cleaning
  /\ journal = "torn"
  /\ journal' = "none"
  /\ \/ pc = "clean_terminal" /\ pc' = "boot" /\ UNCHANGED <<screen, report>>
     \/ pc = "clean_committed" /\ Finish("success", screen)
     \/ /\ pc = "clean_rolled_back" /\ caller = "startup"
        /\ pc' = "open" /\ report' = "recovered" /\ UNCHANGED screen
     \/ /\ pc = "clean_rolled_back" /\ caller = "operation"
        /\ Finish("operation_rolled_back", "workspace")
  /\ UNCHANGED <<active, snapshot, caller, child, todo, op, before, bounds>>

RemovalFails ==
  /\ pc \in Cleaning
  /\ Fault
  /\ \/ /\ pc = "clean_terminal"
        /\ Close("startup_recovery_cleanup")
        /\ UNCHANGED child
     \/ /\ pc = "clean_committed"
        /\ Finish("commit_cleanup", screen)
        /\ UNCHANGED child
     \/ pc = "clean_rolled_back" /\ RollbackCleanupFails
  /\ UNCHANGED <<disk, caller, todo, op, before, operations>>

-----------------------------------------------------------------------------
(* The backend restarted on untouched files after a failed snapshot.       *)

SameStateAccepted ==
  /\ pc = "verify_same" /\ child = "ready"
  /\ Verified(op, active)
  /\ Finish("snapshot_failed", screen)
  /\ UNCHANGED <<disk, caller, child, todo, op, before, bounds>>

SameStateRejected ==
  /\ pc = "verify_same"
  /\ child # "ready" \/ ~Verified(op, active)
  /\ Close("snapshot_restart")
  /\ UNCHANGED <<disk, caller, child, todo, op, before, bounds>>

-----------------------------------------------------------------------------

(* What Electron does of itself once it has been asked to.                 *)
Progress ==
  \/ InspectRecoveryRoot \/ StartRecovery
  \/ StoreToken \/ StripToken \/ SpawnBackend \/ BackendReady \/ OpenWorkspace
  \/ StopForOperation \/ MakeRecoveryDirectory \/ PublishJournal
  \/ BeginMutation \/ RemoveFile \/ PublishFile \/ ChangesApplied
  \/ BeginVerification \/ Commit \/ NewStateRejected
  \/ UndoOperation \/ RestorationDone
  \/ OldStateAccepted \/ OldStateRejected
  \/ PreserveDiagnostic \/ SettleRollback
  \/ BeginRemoval \/ FinishRemoval
  \/ SameStateAccepted \/ SameStateRejected

Failure ==
  \/ Crash \/ BackendDies \/ InspectionFails \/ StartFails \/ OpenFails
  \/ StopFails
  \/ SnapshotFails \/ TransactionFails \/ UndoFails \/ RestorationFails
  \/ RestartFails \/ DiagnosticFails \/ SettleFails \/ RemovalFails

Environment ==
  Launch \/ Quit \/ BeginOperation \/ BackendWrites \/ UserEdits

Next == Progress \/ Failure \/ Environment

Spec == Init /\ [][Next]_vars

(* Electron's event loop runs every pending step of its own code; nothing  *)
(* makes the user, the backend's writers or a failure happen.              *)
FairSpec == Spec /\ WF_vars(Progress)

-----------------------------------------------------------------------------

(* The state every step leaves: a journal in one of the schema's states,    *)
(* error rules of the two runners, known locations of Electron's code.     *)
TypeOK ==
  /\ active \in [Paths -> Values]
  /\ journal \in JournalStates \cup {"none", "torn"}
  /\ snapshot \in [Paths -> Values]
  /\ pc \in Locations
  /\ caller \in {"startup", "operation"}
  /\ child \in {"none", "booting", "ready"}
  /\ screen \in {"none", "startup", "workspace", "error"}
  /\ todo \subseteq Paths
  /\ op \in Operations \cup {NoOperation}
  /\ before \in [Paths -> Values]
  /\ report \in Rules
  /\ faults \in Nat
  /\ operations \in Nat

(* No backend ever runs on files that are half the old and half the new    *)
(* state, whatever crashed, failed or was retried (stopBackend is awaited  *)
(* before every journal state in which Electron rewrites active files).    *)
NeverServesMixedState ==
  child # "none" => journal \notin {"mutating", "rolling_back"}

(* A workspace the user can work in has a ready backend and is never left  *)
(* on an operation that neither committed nor rolled back its files. The   *)
(* exception is a backend that ended while startup was still opening the   *)
(* workspace: runApplicationStartup loads the page over its error page.    *)
OpenWorkspaceIsServed ==
  pc = "idle" /\ screen = "workspace" =>
    /\ child = "ready" \/ (child = "none" /\ report = "backend_exited")
    /\ journal \in {"none", "torn", "rollback_applied"} \cup Terminal

(* Rollback is exact: when the journal says the snapshot is back, every    *)
(* declared file holds what the operation found after it stopped the       *)
(* backend, across any number of interrupted and repeated rollbacks; when  *)
(* it says the rollback is settled, so do the files no backend writes.     *)
ExactRollback ==
  /\ journal' = "rollback_applied" /\ journal # "rollback_applied" =>
       \A p \in op.scope : active'[p] = before[p]
  /\ journal' = "rolled_back" /\ journal # "rolled_back" =>
       \A p \in op.scope \cap SettledPaths : active'[p] = before[p]

RollbackIsExact == [][ExactRollback]_vars

(* What Electron reports of an operation is what is on the disk: success   *)
(* only with the requested files, "previous state restored" or "unchanged" *)
(* only with the previous ones.                                            *)
TrueReport ==
  report' # report =>
    /\ report' = "success" =>
         \A p \in op.scope \cap SettledPaths : active'[p] = op.goal[p]
    /\ report' \in {"snapshot_failed", "operation_rolled_back",
                    "rollback_diagnostic", "rollback_cleanup"} =>
         \A p \in op.scope \cap SettledPaths : active'[p] = before[p]

TruthfulReport == [][TrueReport]_vars

(* The content a restart of the application would come back to: recovery   *)
(* puts the snapshot of an unfinished operation over the active files.     *)
Recoverable ==
  [p \in Paths |-> IF journal \in Unfinished /\ p \in op.scope
                   THEN snapshot[p] ELSE active[p]]

UnderWay == {"prepared", "mutating", "applied", "verifying"}

(* The operation that may still take effect.                               *)
Requested == IF journal \in UnderWay THEN op ELSE NoOperation

Abstract == INSTANCE AtomicStorage WITH
  store <- Recoverable, requested <- Requested

(* The journaled protocol implements the atomic replacement: no crash, no  *)
(* failure and no retry exposes a state between the two.                   *)
ImplementsAtomicStorage == Abstract!Spec

-----------------------------------------------------------------------------
(* The inductive invariant behind the safety properties.                   *)

Undoing == {"start_old", "verify_old", "diagnose", "settle"}
Renewed == {"start_new", "started_new", "verify_new", "clean_committed"}
Untouched == {"start_same", "verify_same"}

(* The journal states each location of Electron's code can meet.           *)
JournalAt ==
  /\ pc \in {"stop", "boot", "open"} \cup Untouched => journal = "none"
  /\ pc = "capture" => journal \in {"none", "torn", "prepared"}
  /\ pc = "apply" => journal = "mutating"
  /\ pc \in {"start_new", "started_new"} => journal = "applied"
  /\ pc = "verify_new" => journal = "verifying"
  /\ pc = "undo" => journal \in UnderWay \cup {"committed"}
  /\ pc = "restore" => journal = "rolling_back"
  /\ pc \in Undoing => journal = "rollback_applied"
  /\ pc = "clean_committed" => journal \in {"committed", "torn"}
  /\ pc = "clean_rolled_back" => journal \in {"rolled_back", "torn"}
  /\ pc = "clean_terminal" => journal \in Terminal \cup {"torn"}

(* Where the backend is certainly down, and where certainly ready.         *)
ChildAt ==
  /\ pc \in {"down", "inspect", "capture", "apply", "restore",
             "clean_terminal"} => child = "none"
  /\ pc \in {"started_new", "diagnose", "settle", "clean_committed",
             "clean_rolled_back"} => child = "ready"
  /\ pc \in {"stop", "open"} => child \in {"ready", "none"}
  /\ pc = "open" /\ child = "none" => report = "backend_exited"

(* Which files hold the previous state, the requested one or the snapshot. *)
FilesAt ==
  /\ pc \in {"apply", "restore"} => todo \subseteq op.scope
  /\ pc \notin {"apply", "restore", "boot"} \/ child # "none" => todo = {}
  /\ journal \in Unfinished => \A p \in op.scope : snapshot[p] = before[p]
  /\ pc = "capture" => active = before
  /\ pc \in {"apply", "restore"} =>
       \A p \in op.scope : p \notin todo => active[p] = Goal[p]
  /\ pc \in Renewed =>
       \A p \in op.scope \cap SettledPaths : active[p] = op.goal[p]
  /\ pc \in Undoing \cup Untouched \cup {"clean_rolled_back"} =>
       \A p \in op.scope \cap SettledPaths : active[p] = before[p]

(* Where the active files are served, shown, recorded or restored.         *)
Exposed ==
  \/ child # "none"
  \/ pc \in {"open", "stop", "capture", "start_new", "start_old", "start_same"}
  \/ pc = "idle" /\ screen = "workspace"

(* There the token is not one that the next start would move behind the    *)
(* journal's back.                                                         *)
TokenAt ==
  /\ Exposed => ~Bare(active)
  /\ journal \in Unfinished => ~Bare(Recoverable)

IndInv ==
  /\ TypeOK
  /\ NeverServesMixedState
  /\ OpenWorkspaceIsServed
  /\ JournalAt
  /\ ChildAt
  /\ FilesAt
  /\ TokenAt

(* Once failures stop, a start of the application that finds any journal   *)
(* with a readable state ends in an open workspace without a journal,      *)
(* unless the user closes the application first.                           *)
RecoveryHeals ==
  (pc = "inspect" /\ journal \in JournalStates /\ faults = MaxFaults)
    ~> (pc = "down" \/ (pc = "idle" /\ screen = "workspace" /\ journal = "none"))

-----------------------------------------------------------------------------
(* What the product rules say and the code does not do.                    *)

(* "Deletion or restart failure restores and verifies the original         *)
(* database set": the rollback of an operation ends with a restart failure *)
(* only if the backend is not ready or a call to it failed.                *)
RestartFailureIsReal ==
  [][ report' = "rollback_restart" /\ report # "rollback_restart"
        => child' # "ready" \/ faults' > faults ]_vars

(* "Electron restores the previous active state": what a user changes in   *)
(* an open workspace is what the next start of the application shows.      *)
EditsAreDurable ==
  pc = "idle" /\ screen = "workspace" =>
    \A p \in SettledPaths : Recoverable[p] = active[p]

(* "Optional files absent from the selected backup remain unchanged", and  *)
(* a failed restore "must restore and restart the previous state": a file  *)
(* the operation did not declare survives its rollback.                    *)
RollbackKeepsOtherFiles ==
  [][ report' = "operation_rolled_back" /\ report # "operation_rolled_back"
        => \A p \in SettledPaths \ op.scope : active'[p] = before[p] ]_vars

(* "If rollback fails, the backend and workspace remain closed".           *)
FailedRollbackClosesBackend ==
  pc = "idle" /\ report = "rollback_restart" => child # "ready"

=============================================================================
