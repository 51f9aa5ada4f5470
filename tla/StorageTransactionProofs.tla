---------------------- MODULE StorageTransactionProofs ----------------------
(***************************************************************************)
(* Proofs about StorageTransaction for every set of files, contents and    *)
(* backups and every bound on failures and operations.                     *)
(***************************************************************************)
EXTENDS StorageTransaction, FiniteSetTheorems, TLAPS

(* A file plan declares only paths of the user-data directory and says for *)
(* each of them what it has to hold.                                       *)
LEMMA OperationShape ==
  ASSUME NEW o \in Operations \cup {NoOperation}
  PROVE  /\ o.scope \subseteq Paths
         /\ o.goal \in [Paths -> Values]
<1>1. CASE o \in {ClearDataPlan, FactoryResetPlan, NoOperation}
  BY <1>1 DEF ClearDataPlan, FactoryResetPlan, NoOperation, DatabaseSet,
     Paths, Values
<1>2. CASE \E b \in Backups : o = RestorePlan(b)
  <2>1. PICK b \in Backups : o = RestorePlan(b)
    BY <1>2
  <2>2. PICK S \in SUBSET {Database, Config, Token} \ {{}} : b \in [S -> Contents]
    BY BackupsAssumption DEF Payloads
  <2>3. DOMAIN b = S /\ S \subseteq Paths
    BY <2>2 DEF Paths
  <2>4. o.scope \subseteq Paths
    BY <2>1, <2>3 DEF RestorePlan, DatabaseSet, Paths
  <2>5. o.goal \in [Paths -> Values]
    BY <2>1, <2>2, <2>3 DEF RestorePlan, Values
  <2>6. QED
    BY <2>4, <2>5
<1>3. QED
  BY <1>1, <1>2 DEF Operations

LEMMA ThreeAtMost == \A a, b, c : Cardinality({a, b, c}) <= 3
<1> SUFFICES ASSUME NEW a, NEW b, NEW c PROVE Cardinality({a, b, c}) <= 3
  OBVIOUS
<1>1. IsFiniteSet({a}) /\ Cardinality({a}) = 1
  BY FS_Singleton
<1>2. IsFiniteSet({a} \cup {b}) /\ Cardinality({a} \cup {b}) <= 2
  BY <1>1, FS_AddElement
<1>3. Cardinality(({a} \cup {b}) \cup {c}) \in {Cardinality({a} \cup {b}),
                                              Cardinality({a} \cup {b}) + 1}
  BY <1>2, FS_AddElement
<1>4. ({a} \cup {b}) \cup {c} = {a, b, c} /\ Cardinality({a} \cup {b}) \in Nat
  BY <1>2, FS_CardinalityType
<1>5. QED
  BY <1>2, <1>3, <1>4

(* The backend writes neither the configuration nor the stored token.      *)
LEMMA SettledFiles ==
  /\ Config # Token
  /\ Config \in SettledPaths
  /\ Token \in SettledPaths
<1>1. ASSUME NEW a, NEW b, NEW c, {Database, Config, Token, Logs} = {a, b, c}
      PROVE  FALSE
  <2>1. Cardinality({a, b, c}) = 4
    BY <1>1, PathsAssumption
  <2>2. Cardinality({a, b, c}) <= 3
    BY ThreeAtMost
  <2>3. QED
    BY <2>1, <2>2
<1>2. Config # Token
  <2> SUFFICES ASSUME Config = Token PROVE FALSE
    OBVIOUS
  <2>1. {Database, Config, Token, Logs} = {Database, Token, Logs}
    OBVIOUS
  <2>2. QED
    BY <1>1, <2>1
<1>3. Config # Database /\ Token # Database
  <2>1. Config = Database => {Database, Config, Token, Logs} = {Database, Token, Logs}
    OBVIOUS
  <2>2. Token = Database => {Database, Config, Token, Logs} = {Database, Config, Logs}
    OBVIOUS
  <2>3. QED
    BY <1>1, <2>1, <2>2
<1>4. Config # Logs /\ Token # Logs
  <2>1. Config = Logs => {Database, Config, Token, Logs} = {Database, Config, Token}
    OBVIOUS
  <2>2. Token = Logs => {Database, Config, Token, Logs} = {Database, Config, Token}
    OBVIOUS
  <2>3. QED
    BY <1>1, <2>1, <2>2
<1>5. QED
  BY <1>2, <1>3, <1>4, PathsAssumption DEF SettledPaths, ServedPaths, Paths

LEMMA TypeInit == Init => TypeOK
  BY InitialFilesAssumption
  DEF Init, TypeOK, Values, Locations, JournalStates, Rules

LEMMA TypeProgress == TypeOK /\ Progress => TypeOK'
<1> SUFFICES ASSUME TypeOK, Progress PROVE TypeOK'
  OBVIOUS
<1> USE DEF TypeOK, disk, bounds
<1>o. op.scope \subseteq Paths /\ op.goal \in [Paths -> Values]
  BY OperationShape
<1>1. CASE InspectRecoveryRoot
  BY <1>1 DEF InspectRecoveryRoot, Close, Finish, Locations, Starting,
     Cleaning, Rules
<1>2. CASE StartRecovery
  BY <1>2, <1>o DEF StartRecovery, WriteJournal, JournalStates, Unfinished,
     Locations
<1>t. CASE StoreToken
  BY <1>t, TokenAssumption DEF StoreToken, Paths, Values
<1>s. CASE StripToken
  BY <1>s, TokenAssumption DEF StripToken, Values
<1>3. CASE SpawnBackend
  BY <1>3 DEF SpawnBackend
<1>4. CASE BackendReady
  <2>1. active' \in [Paths -> Values]
    BY <1>4, ContentsAssumption DEF BackendReady, Values
  <2>2. QED
    BY <1>4, <2>1 DEF BackendReady, Locations, Starting, Verifying, Rules
<1>w. CASE OpenWorkspace
  BY <1>w DEF OpenWorkspace, Locations
<1>5. CASE StopForOperation
  BY <1>5 DEF StopForOperation, Locations
<1>6. CASE MakeRecoveryDirectory
  BY <1>6 DEF MakeRecoveryDirectory
<1>7. CASE PublishJournal
  BY <1>7 DEF PublishJournal, JournalStates, Unfinished, Values
<1>8. CASE BeginMutation
  BY <1>8, <1>o DEF BeginMutation, WriteJournal, JournalStates, Unfinished,
     Locations
<1>9. CASE RemoveFile
  BY <1>9 DEF RemoveFile, Values
<1>10. CASE PublishFile
  BY <1>10, <1>o DEF PublishFile, Goal
<1>11. CASE ChangesApplied
  BY <1>11 DEF ChangesApplied, WriteJournal, JournalStates, Unfinished,
     Locations, Starting
<1>12. CASE BeginVerification
  BY <1>12 DEF BeginVerification, WriteJournal, JournalStates, Unfinished,
     Locations, Verifying
<1>13. CASE Commit
  BY <1>13 DEF Commit, WriteJournal, JournalStates, Terminal, Locations,
     Cleaning
<1>14. CASE NewStateRejected
  BY <1>14 DEF NewStateRejected, Locations
<1>15. CASE UndoOperation
  BY <1>15, <1>o DEF UndoOperation, WriteJournal, Close, Finish, JournalStates,
     Unfinished, Locations, Rules
<1>16. CASE RestorationDone
  BY <1>16 DEF RestorationDone, WriteJournal, JournalStates, Unfinished,
     Locations, Starting
<1>17. CASE OldStateAccepted
  BY <1>17 DEF OldStateAccepted, Locations
<1>18. CASE OldStateRejected
  BY <1>18 DEF OldStateRejected, AbandonRestart, TryToStop, Close, Finish,
     Locations, Rules
<1>19. CASE PreserveDiagnostic
  BY <1>19, WorkAssumption DEF PreserveDiagnostic, Locations, Values
<1>20. CASE SettleRollback
  BY <1>20 DEF SettleRollback, WriteJournal, JournalStates, Terminal,
     Locations, Cleaning
<1>21. CASE BeginRemoval
  BY <1>21 DEF BeginRemoval
<1>22. CASE FinishRemoval
  BY <1>22 DEF FinishRemoval, Finish, Cleaning, Locations, Starting, Rules
<1>23. CASE SameStateAccepted
  BY <1>23 DEF SameStateAccepted, Finish, Locations, Rules
<1>24. CASE SameStateRejected
  BY <1>24 DEF SameStateRejected, Close, Finish, Locations, Rules
<1>25. QED
  BY <1>1, <1>2, <1>3, <1>4, <1>5, <1>6, <1>7, <1>8, <1>9, <1>10, <1>11,
     <1>12, <1>13, <1>14, <1>15, <1>16, <1>17, <1>18, <1>19, <1>20, <1>21,
     <1>22, <1>23, <1>24, <1>t, <1>s, <1>w DEF Progress

LEMMA TypeFailure == TypeOK /\ Failure => TypeOK'
<1> SUFFICES ASSUME TypeOK, Failure PROVE TypeOK'
  OBVIOUS
<1> USE DEF TypeOK, disk, bounds
<1>o. op.scope \subseteq Paths
  BY OperationShape
<1>f. ASSUME Fault PROVE faults' \in Nat
  BY <1>f, BoundsAssumption DEF Fault
<1>1. CASE Crash
  BY <1>1, <1>f DEF Crash, Locations
<1>2. CASE BackendDies
  BY <1>2, <1>f DEF BackendDies, Rules
<1>3. CASE InspectionFails
  BY <1>3, <1>f DEF InspectionFails, FailJournal, Close, Finish, JournalStates,
     Unfinished, Locations, Rules
<1>4. CASE StartFails
  BY <1>4, <1>f DEF StartFails, Close, Finish, Locations, Rules
<1>w. CASE OpenFails
  BY <1>w, <1>f DEF OpenFails, Close, Finish, Locations, Rules
<1>5. CASE StopFails
  BY <1>5, <1>f DEF StopFails, Finish, Locations, Rules
<1>6. CASE SnapshotFails
  BY <1>6, <1>f DEF SnapshotFails, Close, Finish, Locations, Starting, Rules
<1>7. CASE TransactionFails
  <2>1. journal' \in JournalStates \cup {"none", "torn"}
    BY <1>7 DEF TransactionFails, FailJournal, AllowedTransitions,
       JournalStates, Unfinished, Terminal
  <2>2. QED
    BY <1>7, <1>f, <2>1 DEF TransactionFails, Locations
<1>8. CASE UndoFails
  BY <1>8, <1>f DEF UndoFails, FailJournal, Close, Finish, JournalStates,
     Unfinished, Locations, Rules
<1>9. CASE RestorationFails
  BY <1>9, <1>f DEF RestorationFails, FailJournal, Close, Finish,
     JournalStates, Unfinished, Locations, Rules
<1>10. CASE RestartFails
  BY <1>10, <1>f DEF RestartFails, AbandonRestart, TryToStop, Close, Finish,
     Locations, Rules
<1>11. CASE DiagnosticFails
  BY <1>11, <1>f DEF DiagnosticFails, Finish, Locations, Rules
<1>12. CASE SettleFails
  BY <1>12, <1>f DEF SettleFails, FailJournal, RollbackCleanupFails, TryToStop,
     Close, Finish, JournalStates, Terminal, Locations, Rules
<1>13. CASE RemovalFails
  BY <1>13, <1>f DEF RemovalFails, RollbackCleanupFails, TryToStop, Close,
     Finish, Locations, Rules
<1>14. QED
  BY <1>1, <1>2, <1>3, <1>4, <1>5, <1>6, <1>7, <1>8, <1>9, <1>10, <1>11,
     <1>12, <1>13, <1>w DEF Failure

LEMMA TypeEnvironment == TypeOK /\ Environment => TypeOK'
<1> SUFFICES ASSUME TypeOK, Environment PROVE TypeOK'
  OBVIOUS
<1> USE DEF TypeOK, disk, bounds
<1>1. CASE Launch
  BY <1>1 DEF Launch, Locations
<1>2. CASE Quit
  BY <1>2 DEF Quit, Locations
<1>3. CASE BeginOperation
  BY <1>3, BoundsAssumption DEF BeginOperation, Close, Finish, Locations, Rules
<1>4. CASE BackendWrites
  BY <1>4, WorkAssumption DEF BackendWrites, Values
<1>5. CASE UserEdits
  BY <1>5, WorkAssumption DEF UserEdits, Values
<1>6. QED
  BY <1>1, <1>2, <1>3, <1>4, <1>5 DEF Environment

(* Type correctness: journal states, locations and error rules stay inside *)
(* their schemas and every active file and snapshot entry stays a file's   *)
(* content, whatever the failures and however many operations.             *)
THEOREM TypeCorrect == Spec => []TypeOK
<1>1. TypeOK /\ [Next]_vars => TypeOK'
  <2> SUFFICES ASSUME TypeOK, [Next]_vars PROVE TypeOK'
    OBVIOUS
  <2>1. CASE Next
    BY <2>1, TypeProgress, TypeFailure, TypeEnvironment DEF Next
  <2>2. CASE UNCHANGED vars
    BY <2>2 DEF vars, TypeOK
  <2>3. QED
    BY <2>1, <2>2
<1>2. QED
  BY TypeInit, <1>1, PTL DEF Spec

-----------------------------------------------------------------------------

(* The conjuncts of the inductive invariant that speak of control only:    *)
(* which journal states and which backend each location can meet.          *)
Control == JournalAt /\ ChildAt /\ NeverServesMixedState /\ OpenWorkspaceIsServed

LEMMA ControlProgress == TypeOK /\ Control /\ Progress => Control'
<1> SUFFICES ASSUME TypeOK, Control, Progress PROVE Control'
  OBVIOUS
<1> USE DEF TypeOK, Control, JournalAt, ChildAt, NeverServesMixedState,
        OpenWorkspaceIsServed, disk, bounds, Locations, Starting, Verifying,
        Cleaning, Undoing, Untouched, UnderWay, JournalStates, Unfinished,
        Terminal
<1>1. CASE InspectRecoveryRoot
  BY <1>1 DEF InspectRecoveryRoot, Close, Finish
<1>2. CASE StartRecovery
  BY <1>2 DEF StartRecovery, WriteJournal
<1>t. CASE StoreToken
  BY <1>t DEF StoreToken
<1>s. CASE StripToken
  BY <1>s DEF StripToken
<1>3. CASE SpawnBackend
  BY <1>3 DEF SpawnBackend
<1>4. CASE BackendReady
  BY <1>4 DEF BackendReady
<1>w. CASE OpenWorkspace
  BY <1>w DEF OpenWorkspace
<1>5. CASE StopForOperation
  BY <1>5 DEF StopForOperation
<1>6. CASE MakeRecoveryDirectory
  BY <1>6 DEF MakeRecoveryDirectory
<1>7. CASE PublishJournal
  BY <1>7 DEF PublishJournal
<1>8. CASE BeginMutation
  BY <1>8 DEF BeginMutation, WriteJournal
<1>9. CASE RemoveFile
  BY <1>9 DEF RemoveFile
<1>10. CASE PublishFile
  BY <1>10 DEF PublishFile
<1>11. CASE ChangesApplied
  BY <1>11 DEF ChangesApplied, WriteJournal
<1>12. CASE BeginVerification
  BY <1>12 DEF BeginVerification, WriteJournal
<1>13. CASE Commit
  BY <1>13 DEF Commit, WriteJournal
<1>14. CASE NewStateRejected
  BY <1>14 DEF NewStateRejected
<1>15. CASE UndoOperation
  BY <1>15 DEF UndoOperation, WriteJournal, Close, Finish
<1>16. CASE RestorationDone
  BY <1>16 DEF RestorationDone, WriteJournal
<1>17. CASE OldStateAccepted
  BY <1>17 DEF OldStateAccepted
<1>18. CASE OldStateRejected
  BY <1>18 DEF OldStateRejected, AbandonRestart, TryToStop, Close, Finish
<1>19. CASE PreserveDiagnostic
  BY <1>19 DEF PreserveDiagnostic
<1>20. CASE SettleRollback
  BY <1>20 DEF SettleRollback, WriteJournal
<1>21. CASE BeginRemoval
  BY <1>21 DEF BeginRemoval
<1>22. CASE FinishRemoval
  BY <1>22 DEF FinishRemoval, Finish
<1>23. CASE SameStateAccepted
  BY <1>23 DEF SameStateAccepted, Finish
<1>24. CASE SameStateRejected
  BY <1>24 DEF SameStateRejected, Close, Finish
<1>25. QED
  BY <1>1, <1>2, <1>3, <1>4, <1>5, <1>6, <1>7, <1>8, <1>9, <1>10, <1>11, <1>12,
     <1>13, <1>14, <1>15, <1>16, <1>17, <1>18, <1>19, <1>20, <1>21, <1>22,
     <1>23, <1>24, <1>t, <1>s, <1>w DEF Progress

LEMMA ControlFailure == TypeOK /\ Control /\ Failure => Control'
<1> SUFFICES ASSUME TypeOK, Control, Failure PROVE Control'
  OBVIOUS
<1> USE DEF TypeOK, Control, JournalAt, ChildAt, NeverServesMixedState,
        OpenWorkspaceIsServed, disk, bounds, Locations, Starting, Verifying,
        Cleaning, Undoing, Untouched, UnderWay, JournalStates, Unfinished,
        Terminal
<1>1. CASE Crash
  BY <1>1 DEF Crash
<1>2. CASE BackendDies
  BY <1>2 DEF BackendDies
<1>3. CASE InspectionFails
  BY <1>3 DEF InspectionFails, FailJournal, Close, Finish
<1>4. CASE StartFails
  BY <1>4 DEF StartFails, Close, Finish
<1>w. CASE OpenFails
  BY <1>w DEF OpenFails, Close, Finish
<1>5. CASE StopFails
  BY <1>5 DEF StopFails, Finish
<1>6. CASE SnapshotFails
  BY <1>6 DEF SnapshotFails, Close, Finish
<1>7. CASE TransactionFails
  BY <1>7 DEF TransactionFails, FailJournal, NextState, AllowedTransitions
<1>8. CASE UndoFails
  BY <1>8 DEF UndoFails, FailJournal, Close, Finish
<1>9. CASE RestorationFails
  BY <1>9 DEF RestorationFails, FailJournal, Close, Finish
<1>10. CASE RestartFails
  BY <1>10 DEF RestartFails, AbandonRestart, TryToStop, Close, Finish
<1>11. CASE DiagnosticFails
  BY <1>11 DEF DiagnosticFails, Finish
<1>12. CASE SettleFails
  BY <1>12 DEF SettleFails, FailJournal, RollbackCleanupFails, TryToStop,
     Close, Finish
<1>13. CASE RemovalFails
  BY <1>13 DEF RemovalFails, RollbackCleanupFails, TryToStop, Close, Finish
<1>14. QED
  BY <1>1, <1>2, <1>3, <1>4, <1>5, <1>6, <1>7, <1>8, <1>9, <1>10, <1>11, <1>12,
     <1>13, <1>w DEF Failure

LEMMA ControlEnvironment == TypeOK /\ Control /\ Environment => Control'
<1> SUFFICES ASSUME TypeOK, Control, Environment PROVE Control'
  OBVIOUS
<1> USE DEF TypeOK, Control, JournalAt, ChildAt, NeverServesMixedState,
        OpenWorkspaceIsServed, disk, bounds, Locations, Starting, Verifying,
        Cleaning, Undoing, Untouched, UnderWay, JournalStates, Unfinished,
        Terminal
<1>1. CASE Launch
  BY <1>1 DEF Launch
<1>2. CASE Quit
  BY <1>2 DEF Quit
<1>3. CASE BeginOperation
  BY <1>3 DEF BeginOperation, Close, Finish
<1>4. CASE BackendWrites
  BY <1>4 DEF BackendWrites
<1>5. CASE UserEdits
  BY <1>5 DEF UserEdits
<1>6. QED
  BY <1>1, <1>2, <1>3, <1>4, <1>5 DEF Environment

LEMMA FilesProgress == IndInv /\ Progress => FilesAt'
<1> SUFFICES ASSUME IndInv, Progress PROVE FilesAt'
  OBVIOUS
<1> USE DEF IndInv, TypeOK, JournalAt, ChildAt, FilesAt, Goal, disk, bounds,
        Starting, Verifying, Cleaning, Undoing, Untouched, Renewed,
        JournalStates, Unfinished, Terminal
<1>o. op.scope \subseteq Paths /\ op.goal \in [Paths -> Values]
  BY OperationShape
<1>1. CASE InspectRecoveryRoot
  BY <1>1 DEF InspectRecoveryRoot, Close, Finish
<1>2. CASE StartRecovery
  BY <1>2 DEF StartRecovery, WriteJournal
<1>t. CASE StoreToken
  BY <1>t DEF StoreToken, TokenAt, Exposed
<1>s. CASE StripToken
  BY <1>s DEF StripToken
<1>3. CASE SpawnBackend
  BY <1>3 DEF SpawnBackend
<1>4. CASE BackendReady
  BY <1>4 DEF BackendReady, SettledPaths, ServedPaths
<1>w. CASE OpenWorkspace
  BY <1>w DEF OpenWorkspace
<1>5. CASE StopForOperation
  BY <1>5 DEF StopForOperation
<1>6. CASE MakeRecoveryDirectory
  BY <1>6 DEF MakeRecoveryDirectory
<1>7. CASE PublishJournal
  BY <1>7, <1>o DEF PublishJournal
<1>8. CASE BeginMutation
  BY <1>8 DEF BeginMutation, WriteJournal, AllowedTransitions
<1>9. CASE RemoveFile
  BY <1>9 DEF RemoveFile
<1>10. CASE PublishFile
  BY <1>10 DEF PublishFile
<1>11. CASE ChangesApplied
  BY <1>11 DEF ChangesApplied, WriteJournal
<1>12. CASE BeginVerification
  BY <1>12 DEF BeginVerification, WriteJournal
<1>13. CASE Commit
  BY <1>13 DEF Commit, WriteJournal
<1>14. CASE NewStateRejected
  BY <1>14 DEF NewStateRejected
<1>15. CASE UndoOperation
  BY <1>15 DEF UndoOperation, WriteJournal, AllowedTransitions, UnderWay,
     Close, Finish
<1>16. CASE RestorationDone
  BY <1>16 DEF RestorationDone, WriteJournal
<1>17. CASE OldStateAccepted
  BY <1>17 DEF OldStateAccepted
<1>18. CASE OldStateRejected
  BY <1>18 DEF OldStateRejected, AbandonRestart, TryToStop, Close, Finish
<1>19. CASE PreserveDiagnostic
  BY <1>19 DEF PreserveDiagnostic, SettledPaths, ServedPaths
<1>20. CASE SettleRollback
  BY <1>20 DEF SettleRollback, WriteJournal
<1>21. CASE BeginRemoval
  BY <1>21 DEF BeginRemoval
<1>22. CASE FinishRemoval
  BY <1>22 DEF FinishRemoval, Finish
<1>23. CASE SameStateAccepted
  BY <1>23 DEF SameStateAccepted, Finish
<1>24. CASE SameStateRejected
  BY <1>24 DEF SameStateRejected, Close, Finish
<1>25. QED
  BY <1>1, <1>2, <1>3, <1>4, <1>5, <1>6, <1>7, <1>8, <1>9, <1>10, <1>11, <1>12,
     <1>13, <1>14, <1>15, <1>16, <1>17, <1>18, <1>19, <1>20, <1>21, <1>22,
     <1>23, <1>24, <1>t, <1>s, <1>w DEF Progress

LEMMA FilesFailure == IndInv /\ Failure => FilesAt'
<1> SUFFICES ASSUME IndInv, Failure PROVE FilesAt'
  OBVIOUS
<1> USE DEF IndInv, TypeOK, JournalAt, ChildAt, FilesAt, Goal, disk, bounds,
        Starting, Verifying, Cleaning, Undoing, Untouched, Renewed,
        JournalStates, Unfinished, Terminal
<1>1. CASE Crash
  BY <1>1 DEF Crash
<1>2. CASE BackendDies
  BY <1>2 DEF BackendDies
<1>3. CASE InspectionFails
  BY <1>3 DEF InspectionFails, FailJournal, Close, Finish
<1>4. CASE StartFails
  BY <1>4 DEF StartFails, Close, Finish
<1>w. CASE OpenFails
  BY <1>w DEF OpenFails, Close, Finish
<1>5. CASE StopFails
  BY <1>5 DEF StopFails, Finish
<1>6. CASE SnapshotFails
  BY <1>6 DEF SnapshotFails, Close, Finish
<1>7. CASE TransactionFails
  BY <1>7 DEF TransactionFails, FailJournal, NextState, AllowedTransitions
<1>8. CASE UndoFails
  BY <1>8 DEF UndoFails, FailJournal, AllowedTransitions, UnderWay, Close,
     Finish
<1>9. CASE RestorationFails
  BY <1>9 DEF RestorationFails, FailJournal, Close, Finish
<1>10. CASE RestartFails
  BY <1>10 DEF RestartFails, AbandonRestart, TryToStop, Close, Finish
<1>11. CASE DiagnosticFails
  BY <1>11 DEF DiagnosticFails, Finish
<1>12. CASE SettleFails
  BY <1>12 DEF SettleFails, FailJournal, RollbackCleanupFails, TryToStop,
     Close, Finish
<1>13. CASE RemovalFails
  BY <1>13 DEF RemovalFails, RollbackCleanupFails, TryToStop, Close, Finish
<1>14. QED
  BY <1>1, <1>2, <1>3, <1>4, <1>5, <1>6, <1>7, <1>8, <1>9, <1>10, <1>11, <1>12,
     <1>13, <1>w DEF Failure

LEMMA FilesEnvironment == IndInv /\ Environment => FilesAt'
<1> SUFFICES ASSUME IndInv, Environment PROVE FilesAt'
  OBVIOUS
<1> USE DEF IndInv, TypeOK, JournalAt, ChildAt, FilesAt, Goal, disk, bounds,
        Starting, Verifying, Cleaning, Undoing, Untouched, Renewed,
        JournalStates, Unfinished, Terminal
<1>1. CASE Launch
  BY <1>1 DEF Launch
<1>2. CASE Quit
  BY <1>2 DEF Quit
<1>3. CASE BeginOperation
  BY <1>3 DEF BeginOperation, Close, Finish
<1>4. CASE BackendWrites
  BY <1>4 DEF BackendWrites, SettledPaths
<1>5. CASE UserEdits
  BY <1>5 DEF UserEdits
<1>6. QED
  BY <1>1, <1>2, <1>3, <1>4, <1>5 DEF Environment

(* What keeps TokenAt: steps that touch no file and expose none, and those *)
(* of a backend that writes its own files.                                 *)
LEMMA KeepsTokens ==
  /\ TokenAt
  /\ UNCHANGED <<active, snapshot, op>>
  /\ Exposed' => Exposed
  /\ journal' \in Unfinished => journal \in Unfinished
  => TokenAt'
  BY DEF TokenAt, Recoverable, Bare

LEMMA ServesTokens ==
  /\ TypeOK /\ TokenAt
  /\ child # "none"
  /\ UNCHANGED <<journal, snapshot, op>>
  /\ active'[Config] = active[Config] /\ active'[Token] = active[Token]
  => TokenAt'
<1> SUFFICES ASSUME TypeOK, TokenAt, child # "none",
                    UNCHANGED <<journal, snapshot, op>>,
                    active'[Config] = active[Config], active'[Token] = active[Token]
             PROVE  TokenAt'
  OBVIOUS
<1>1. Config \in Paths /\ Token \in Paths
  BY DEF Paths
<1>2. /\ Recoverable'[Config] = Recoverable[Config]
      /\ Recoverable'[Token] = Recoverable[Token]
  BY <1>1 DEF Recoverable
<1>3. QED
  BY <1>2 DEF TokenAt, Exposed, Bare

(* The new state of an operation has its token in its own file.            *)
LEMMA GoalHoldsToken ==
  BackupsHoldTheirToken /\ IndInv /\ pc = "apply" /\ todo = {} => ~Bare(active)
<1> SUFFICES ASSUME BackupsHoldTheirToken, IndInv, pc = "apply", todo = {}
             PROVE  ~Bare(active)
  OBVIOUS
<1>1. /\ op \in Operations \cup {NoOperation}
      /\ \A p \in op.scope : active[p] = op.goal[p]
      /\ ~Bare(Recoverable)
  BY DEF IndInv, TypeOK, JournalAt, FilesAt, TokenAt, Goal, Unfinished
<1>2. \A p \in Paths \ op.scope : active[p] = Recoverable[p]
  BY DEF Recoverable
<1>3. /\ Config \in Paths \ DatabaseSet
      /\ Token \in Paths \ DatabaseSet
      /\ Config # Token
  BY SettledFiles DEF SettledPaths, ServedPaths, DatabaseSet
<1>4. Absent \notin Plaintext
  BY ContentsAssumption, TokenAssumption
<1>5. CASE op \in {ClearDataPlan, NoOperation}
  BY <1>1, <1>2, <1>3, <1>5 DEF ClearDataPlan, NoOperation, Bare
<1>6. CASE op = FactoryResetPlan
  BY <1>1, <1>3, <1>4, <1>6 DEF FactoryResetPlan, Bare
<1>7. CASE \E b \in Backups : op = RestorePlan(b)
  <2>1. PICK b \in Backups : op = RestorePlan(b)
    BY <1>7
  <2>2. \A p \in DOMAIN b : b[p] \in Contents
    BY BackupsAssumption DEF Payloads
  <2>3. /\ Config \in op.scope <=> Config \in DOMAIN b
        /\ Token \in op.scope <=> Token \in DOMAIN b
    BY <1>3, <2>1 DEF RestorePlan
  <2>4. /\ Config \in DOMAIN b => active[Config] = b[Config]
        /\ Token \in DOMAIN b => active[Token] # Absent
    BY <1>1, <1>3, <2>1, <2>2, <2>3, ContentsAssumption DEF RestorePlan
  <2>5. CASE Token \in DOMAIN b
    BY <2>4, <2>5 DEF Bare
  <2>6. CASE Token \notin DOMAIN b /\ Config \in DOMAIN b
    BY <2>4, <2>6 DEF BackupsHoldTheirToken, Bare
  <2>7. CASE Token \notin DOMAIN b /\ Config \notin DOMAIN b
    BY <1>1, <1>2, <1>3, <2>3, <2>7 DEF Bare
  <2>8. QED
    BY <2>5, <2>6, <2>7
<1>8. QED
  BY <1>1, <1>5, <1>6, <1>7 DEF Operations

LEMMA TokenProgress == BackupsHoldTheirToken /\ IndInv /\ Progress => TokenAt'
<1> SUFFICES ASSUME BackupsHoldTheirToken, IndInv, Progress PROVE TokenAt'
  OBVIOUS
<1> USE DEF Exposed, Unfinished, disk
<1>i. TypeOK /\ JournalAt /\ ChildAt /\ FilesAt /\ TokenAt
  BY DEF IndInv
<1>1. CASE \/ InspectRecoveryRoot \/ StartRecovery
           \/ BeginVerification \/ Commit \/ NewStateRejected
           \/ UndoOperation \/ OldStateAccepted \/ OldStateRejected
           \/ SettleRollback \/ BeginRemoval \/ FinishRemoval
           \/ SameStateAccepted \/ SameStateRejected
           \/ MakeRecoveryDirectory \/ OpenWorkspace
  BY <1>1, <1>i, KeepsTokens
  DEF InspectRecoveryRoot, StartRecovery, BeginVerification, Commit,
      NewStateRejected, UndoOperation, OldStateAccepted, OldStateRejected,
      SettleRollback, BeginRemoval, FinishRemoval, SameStateAccepted,
      SameStateRejected, MakeRecoveryDirectory, OpenWorkspace, ChildAt,
      WriteJournal,
      AllowedTransitions, AbandonRestart, TryToStop, Close, Finish
<1>2. CASE StoreToken \/ StripToken
  BY <1>2, <1>i DEF StoreToken, StripToken, FilesAt, TokenAt, JournalAt, Starting
<1>3. CASE SpawnBackend
  BY <1>3, <1>i DEF SpawnBackend, TokenAt, Recoverable
<1>4. CASE BackendReady
  BY <1>4, <1>i, SettledFiles, ServesTokens
  DEF BackendReady, TypeOK, SettledPaths, ServedPaths
<1>5. CASE StopForOperation
  BY <1>5, <1>i DEF StopForOperation, TokenAt, JournalAt, ChildAt
<1>6. CASE PublishJournal
  <2>1. Recoverable' = active /\ ~Bare(active)
    BY <1>6, <1>i DEF PublishJournal, Recoverable, TypeOK, TokenAt
  <2>2. QED
    BY <1>6, <2>1 DEF PublishJournal, TokenAt
<1>7. CASE BeginMutation
  BY <1>7, <1>i, KeepsTokens DEF BeginMutation, WriteJournal, AllowedTransitions
<1>8. CASE RemoveFile \/ PublishFile
  <2>1. UNCHANGED Recoverable
    BY <1>8, <1>i
    DEF RemoveFile, PublishFile, Recoverable, JournalAt, FilesAt, TypeOK
  <2>2. ~Exposed' /\ UNCHANGED journal
    BY <1>8, <1>i DEF RemoveFile, PublishFile, ChildAt
  <2>3. QED
    BY <1>i, <2>1, <2>2 DEF TokenAt
<1>9. CASE ChangesApplied
  <2>1. ~Bare(active) /\ UNCHANGED <<active, Recoverable>>
    BY <1>9, <1>i, GoalHoldsToken
    DEF ChangesApplied, WriteJournal, JournalAt, Recoverable
  <2>2. journal \in Unfinished
    BY <1>9, <1>i DEF ChangesApplied, JournalAt
  <2>3. QED
    BY <1>i, <2>1, <2>2 DEF TokenAt
<1>10. CASE RestorationDone
  <2>1. active = Recoverable /\ UNCHANGED <<active, Recoverable>>
    BY <1>10, <1>i
    DEF RestorationDone, WriteJournal, JournalAt, Recoverable, TypeOK
  <2>2. journal \in Unfinished
    BY <1>10, <1>i DEF RestorationDone, JournalAt
  <2>3. QED
    BY <1>i, <2>1, <2>2 DEF TokenAt
<1>11. CASE PreserveDiagnostic
  BY <1>11, <1>i, SettledFiles, ServesTokens
  DEF PreserveDiagnostic, ChildAt, TypeOK, SettledPaths, ServedPaths
<1>12. QED
  BY <1>1, <1>2, <1>3, <1>4, <1>5, <1>6, <1>7, <1>8, <1>9, <1>10, <1>11
  DEF Progress

LEMMA TokenFailure == IndInv /\ Failure => TokenAt'
<1> SUFFICES ASSUME IndInv, Failure PROVE TokenAt'
  OBVIOUS
<1> USE DEF Exposed, Unfinished, disk
<1>i. TypeOK /\ JournalAt /\ ChildAt /\ FilesAt /\ TokenAt
  BY DEF IndInv
<1>1. CASE \/ Crash \/ BackendDies \/ StartFails \/ OpenFails \/ StopFails
           \/ RestartFails \/ DiagnosticFails \/ RemovalFails
  BY <1>1, <1>i, KeepsTokens
  DEF Crash, BackendDies, StartFails, OpenFails, StopFails, RestartFails,
      DiagnosticFails, RemovalFails, ChildAt, RollbackCleanupFails,
      AbandonRestart, TryToStop, Close, Finish
<1>2. CASE InspectionFails \/ UndoFails \/ RestorationFails \/ SettleFails
  BY <1>2, <1>i, KeepsTokens
  DEF InspectionFails, UndoFails, RestorationFails, SettleFails, FailJournal,
      AllowedTransitions, ChildAt, RollbackCleanupFails, TryToStop, Close, Finish
<1>3. CASE SnapshotFails
  BY <1>3, <1>i DEF SnapshotFails, TokenAt, Recoverable, Close, Finish
<1>4. CASE TransactionFails
  <2>1. journal \in Unfinished
    BY <1>4, <1>i DEF TransactionFails, JournalAt
  <2>2. QED
    BY <1>4, <1>i, <2>1, KeepsTokens DEF TransactionFails
<1>5. QED
  BY <1>1, <1>2, <1>3, <1>4 DEF Failure

LEMMA TokenEnvironment == IndInv /\ Environment => TokenAt'
<1> SUFFICES ASSUME IndInv, Environment PROVE TokenAt'
  OBVIOUS
<1> USE DEF Exposed, Unfinished, disk
<1>i. TypeOK /\ JournalAt /\ ChildAt /\ FilesAt /\ TokenAt
  BY DEF IndInv
<1>1. CASE Launch \/ Quit
  BY <1>1, <1>i, KeepsTokens DEF Launch, Quit
<1>2. CASE BeginOperation
  BY <1>2, <1>i DEF BeginOperation, TokenAt, Recoverable, Close, Finish
<1>3. CASE BackendWrites
  BY <1>3, <1>i, SettledFiles, ServesTokens
  DEF BackendWrites, TypeOK, SettledPaths
<1>4. CASE UserEdits
  <2>1. PICK p \in SettledPaths, c \in Work : active' = [active EXCEPT ![p] = c]
    BY <1>4 DEF UserEdits
  <2>2. c # Absent /\ c \notin Plaintext
    BY ContentsAssumption, WorkAssumption
  <2>3. ~Bare(active) /\ child' # "none" /\ UNCHANGED <<pc, journal, snapshot, op>>
    BY <1>4, <1>i DEF UserEdits, TokenAt
  <2>4. ~Bare(active')
    BY <1>i, <2>1, <2>2, <2>3 DEF Bare, TypeOK
  <2>5. /\ Recoverable'[Token] = Absent => Recoverable[Token] = Absent
        /\ Recoverable'[Config] \in Plaintext => Recoverable[Config] \in Plaintext
    BY <1>i, <2>1, <2>2, <2>3, SettledFiles DEF Recoverable, TypeOK, SettledPaths
  <2>6. QED
    BY <1>i, <2>3, <2>4, <2>5 DEF TokenAt, Bare
<1>5. QED
  BY <1>1, <1>2, <1>3, <1>4 DEF Environment

-----------------------------------------------------------------------------

LEMMA InitInv == Init => IndInv
<1> SUFFICES ASSUME Init PROVE IndInv
  OBVIOUS
<1>1. TypeOK
  BY TypeInit
<1>2. Control
  BY DEF Init, Control, JournalAt, ChildAt, NeverServesMixedState,
     OpenWorkspaceIsServed, Starting, Verifying, Cleaning, Undoing, Untouched
<1>3. FilesAt
  BY DEF Init, FilesAt, Goal, Unfinished, Starting, Verifying, Cleaning, Undoing,
     Untouched, Renewed
<1>4. TokenAt
  BY DEF Init, TokenAt, Exposed, Unfinished
<1>5. QED
  BY <1>1, <1>2, <1>3, <1>4 DEF IndInv, Control

LEMMA StepInv == BackupsHoldTheirToken /\ IndInv /\ [Next]_vars => IndInv'
<1> SUFFICES ASSUME BackupsHoldTheirToken, IndInv, [Next]_vars PROVE IndInv'
  OBVIOUS
<1>1. TypeOK /\ Control
  BY DEF IndInv, Control
<1>2. CASE Next
  <2>1. TypeOK'
    BY <1>1, <1>2, TypeProgress, TypeFailure, TypeEnvironment DEF Next
  <2>2. Control'
    BY <1>1, <1>2, ControlProgress, ControlFailure, ControlEnvironment DEF Next
  <2>3. FilesAt'
    BY <1>2, FilesProgress, FilesFailure, FilesEnvironment DEF Next
  <2>4. TokenAt'
    BY <1>2, TokenProgress, TokenFailure, TokenEnvironment DEF Next
  <2>5. QED
    BY <2>1, <2>2, <2>3, <2>4 DEF IndInv, Control
<1>3. CASE UNCHANGED vars
  BY <1>3 DEF vars, IndInv, TypeOK, NeverServesMixedState,
     OpenWorkspaceIsServed, JournalAt, ChildAt, FilesAt, Goal, TokenAt,
     Exposed, Recoverable
<1>4. QED
  BY <1>2, <1>3

(* The control part is inductive of itself, whatever the backups hold.     *)
LEMMA ControlInvariance == Spec => [](TypeOK /\ Control)
<1>1. Init => TypeOK /\ Control
  BY InitInv DEF IndInv, Control
<1>2. TypeOK /\ Control /\ [Next]_vars => (TypeOK /\ Control)'
  <2> SUFFICES ASSUME TypeOK, Control, [Next]_vars PROVE (TypeOK /\ Control)'
    OBVIOUS
  <2>1. CASE Next
    BY <2>1, TypeProgress, TypeFailure, TypeEnvironment, ControlProgress,
       ControlFailure, ControlEnvironment DEF Next
  <2>2. CASE UNCHANGED vars
    BY <2>2 DEF vars, TypeOK, Control, NeverServesMixedState,
       OpenWorkspaceIsServed, JournalAt, ChildAt
  <2>3. QED
    BY <2>1, <2>2
<1>3. QED
  BY <1>1, <1>2, PTL DEF Spec

(* No backend process ever runs while Electron rewrites its files.         *)
THEOREM NoMixedStateServed == Spec => []NeverServesMixedState
<1>1. TypeOK /\ Control => NeverServesMixedState
  BY DEF Control
<1>2. QED
  BY <1>1, ControlInvariance, PTL

(* The workspace is only ever open over a ready backend, or one that ended *)
(* while startup was opening it, and over files that no unfinished         *)
(* operation has left half-way.                                            *)
THEOREM ServedWorkspace == Spec => []OpenWorkspaceIsServed
<1>1. TypeOK /\ Control => OpenWorkspaceIsServed
  BY DEF Control
<1>2. QED
  BY <1>1, ControlInvariance, PTL

(* The inductive invariant: the journal states and the backend that each   *)
(* location of storage-transaction.cjs can meet, which of its files hold   *)
(* the previous state, the requested one or the snapshot, and that no      *)
(* restart has a token to move.                                            *)
THEOREM Invariance ==
  ASSUME BackupsHoldTheirToken
  PROVE  Spec => []IndInv
<1>1. IndInv /\ [Next]_vars => IndInv'
  BY StepInv
<1>2. QED
  BY InitInv, <1>1, PTL DEF Spec

-----------------------------------------------------------------------------

(* Only five steps write one of the two journal states the property is     *)
(* about; each finds the files as FilesAt says.                            *)
LEMMA ExactStep == IndInv /\ [Next]_vars => [ExactRollback]_vars
<1> SUFFICES ASSUME IndInv, Next PROVE ExactRollback
  BY DEF vars
<1> USE DEF IndInv, JournalAt, FilesAt, Goal, Undoing, Unfinished, ExactRollback
<1>1. CASE RestorationDone
  BY <1>1 DEF RestorationDone, WriteJournal
<1>2. CASE RestorationFails
  BY <1>2 DEF RestorationFails, FailJournal
<1>3. CASE SettleRollback
  BY <1>3 DEF SettleRollback, WriteJournal
<1>4. CASE SettleFails
  BY <1>4 DEF SettleFails, FailJournal
<1>5. ASSUME ~RestorationDone, ~RestorationFails, ~SettleRollback, ~SettleFails
      PROVE  journal' \notin {"rollback_applied", "rolled_back"} \ {journal}
  <2>1. CASE Progress
    BY <1>5, <2>1 DEF Progress, disk, WriteJournal,
       InspectRecoveryRoot, StartRecovery, StoreToken, StripToken,
       SpawnBackend, BackendReady, OpenWorkspace,
       StopForOperation, MakeRecoveryDirectory, PublishJournal, BeginMutation,
       RemoveFile, PublishFile, ChangesApplied, BeginVerification, Commit,
       NewStateRejected, UndoOperation, OldStateAccepted, OldStateRejected,
       PreserveDiagnostic, BeginRemoval, FinishRemoval, SameStateAccepted,
       SameStateRejected
  <2>2. CASE Failure
    BY <1>5, <2>2 DEF Failure, disk, FailJournal, NextState, TypeOK, Crash,
       BackendDies, InspectionFails, StartFails, OpenFails, StopFails,
       SnapshotFails,
       TransactionFails, UndoFails, RestartFails, DiagnosticFails, RemovalFails
  <2>3. CASE Environment
    BY <2>3 DEF Environment, disk, Launch, Quit, BeginOperation,
       BackendWrites, UserEdits
  <2>4. QED
    BY <2>1, <2>2, <2>3 DEF Next
<1>6. QED
  BY <1>1, <1>2, <1>3, <1>4, <1>5

(* A rollback that is declared done has put back every file the operation  *)
(* declared, however often storage-recovery.cjs had to repeat it.          *)
THEOREM ExactRollbacks ==
  ASSUME BackupsHoldTheirToken
  PROVE  Spec => RollbackIsExact
  BY Invariance, ExactStep, PTL DEF Spec, RollbackIsExact

(* Only five steps report an outcome that speaks of the files.             *)
LEMMA ReportStep == IndInv /\ [Next]_vars => [TrueReport]_vars
<1> SUFFICES ASSUME IndInv, Next, report' # report PROVE TrueReport
  BY DEF vars, TrueReport
<1> USE DEF IndInv, FilesAt, Renewed, Undoing, Untouched, TrueReport
<1>1. CASE FinishRemoval
  BY <1>1 DEF FinishRemoval, Finish
<1>2. CASE SameStateAccepted
  BY <1>2 DEF SameStateAccepted, Finish, disk
<1>3. CASE DiagnosticFails
  BY <1>3 DEF DiagnosticFails, Finish, disk
<1>4. CASE SettleFails
  BY <1>4 DEF SettleFails, RollbackCleanupFails, Close, Finish
<1>5. CASE RemovalFails
  BY <1>5 DEF RemovalFails, RollbackCleanupFails, Close, Finish, disk
<1>6. ASSUME ~FinishRemoval, ~SameStateAccepted, ~DiagnosticFails,
             ~SettleFails, ~RemovalFails
      PROVE  report' \notin {"success", "snapshot_failed", "rollback_cleanup",
                             "operation_rolled_back", "rollback_diagnostic"}
  <2>1. CASE Progress
    BY <1>6, <2>1 DEF Progress, Close, Finish, AbandonRestart,
       InspectRecoveryRoot, StartRecovery, StoreToken, StripToken,
       SpawnBackend, BackendReady, OpenWorkspace,
       StopForOperation, MakeRecoveryDirectory, PublishJournal, BeginMutation,
       RemoveFile, PublishFile, ChangesApplied, BeginVerification, Commit,
       NewStateRejected, UndoOperation, RestorationDone, OldStateAccepted,
       OldStateRejected, PreserveDiagnostic, SettleRollback, BeginRemoval,
       SameStateRejected
  <2>2. CASE Failure
    BY <1>6, <2>2 DEF Failure, Close, Finish, AbandonRestart, Crash,
       BackendDies, InspectionFails, StartFails, OpenFails, StopFails,
       SnapshotFails,
       TransactionFails, UndoFails, RestorationFails, RestartFails
  <2>3. CASE Environment
    BY <2>3 DEF Environment, Close, Finish, Launch, Quit, BeginOperation,
       BackendWrites, UserEdits
  <2>4. QED
    BY <2>1, <2>2, <2>3 DEF Next
<1>7. QED
  BY <1>1, <1>2, <1>3, <1>4, <1>5, <1>6

(* Success is reported only over the requested files, a restored or        *)
(* unchanged state only over the previous ones (the settled ones: a        *)
(* restarted backend writes its own).                                      *)
THEOREM Truthfulness ==
  ASSUME BackupsHoldTheirToken
  PROVE  Spec => TruthfulReport
  BY Invariance, ReportStep, PTL DEF Spec, TruthfulReport

-----------------------------------------------------------------------------
(* The refinement: what a restart would come back to, and the operation    *)
(* that may still take effect, move only as AtomicStorage lets them.       *)

(* The instance of StoragePlans under AtomicStorage is the one used here.  *)
LEMMA SamePlans ==
  /\ Abstract!Paths = Paths
  /\ Abstract!Values = Values
  /\ Abstract!SettledPaths = SettledPaths
  /\ Abstract!NoOperation = NoOperation
  /\ Abstract!Operations = Operations
  /\ \A o, f : Abstract!Verified(o, f) = Verified(o, f)
<1>1. /\ Abstract!Paths = Paths
      /\ Abstract!Values = Values
      /\ Abstract!DatabaseSet = DatabaseSet
  BY DEF Abstract!Paths, Paths, Abstract!Values, Values, Abstract!DatabaseSet,
     DatabaseSet
<1>2. Abstract!SettledPaths = SettledPaths
  BY <1>1 DEF Abstract!SettledPaths, SettledPaths, Abstract!ServedPaths, ServedPaths
<1>3. Abstract!NoOperation = NoOperation
  BY <1>1 DEF Abstract!NoOperation, NoOperation
<1>4. Abstract!Operations = Operations
  BY <1>1 DEF Abstract!Operations, Operations, Abstract!ClearDataPlan,
     ClearDataPlan, Abstract!FactoryResetPlan, FactoryResetPlan,
     Abstract!RestorePlan, RestorePlan
<1>5. \A o, f : Abstract!Verified(o, f) = Verified(o, f)
  BY DEF Abstract!Verified, Verified
<1>6. QED
  BY <1>1, <1>2, <1>3, <1>4, <1>5

AbstractStep == [Abstract!Next]_<<Recoverable, Requested>>

LEMMA StoreTyped == TypeOK => Recoverable \in [Paths -> Values]
  BY DEF TypeOK, Recoverable

LEMMA RequestedShape ==
  TypeOK => /\ Requested \in Operations \cup {NoOperation}
            /\ journal \notin UnderWay => Requested = NoOperation
  BY DEF TypeOK, Requested

(* Most steps move the journal inside one of the three classes of states   *)
(* the mapping tells apart, and touch no file.                             *)
LEMMA KeepsClass ==
  /\ UNCHANGED <<active, snapshot, op>>
  /\ journal \in Unfinished <=> journal' \in Unfinished
  /\ journal \in UnderWay <=> journal' \in UnderWay
  => AbstractStep
  BY DEF AbstractStep, Recoverable, Requested

(* Before the journal is published and after it is terminal, the store is  *)
(* what is on the disk.                                                    *)
LEMMA KeepsFiles ==
  /\ UNCHANGED active
  /\ journal \notin Unfinished
  /\ journal' \notin Unfinished
  => AbstractStep
  BY DEF AbstractStep, Recoverable, Requested, Unfinished, UnderWay

(* Giving the operation up leaves the snapshot as the store: rolling back  *)
(* is Abandon.                                                             *)
LEMMA GivesUp ==
  /\ UNCHANGED <<active, snapshot, op>>
  /\ journal \in UnderWay
  /\ journal' \in Unfinished \ UnderWay
  => AbstractStep
<1> SUFFICES ASSUME UNCHANGED <<active, snapshot, op>>, journal \in UnderWay,
                    journal' \in Unfinished \ UnderWay
             PROVE  AbstractStep
  OBVIOUS
<1>1. UNCHANGED Recoverable
  BY DEF Recoverable, Unfinished, UnderWay
<1>2. Requested' = NoOperation
  BY DEF Requested
<1>3. QED
  BY <1>1, <1>2, SamePlans DEF AbstractStep, Abstract!Next, Abstract!Abandon

(* A backend writes its own files: Serve.                                  *)
LEMMA Serves ==
  /\ TypeOK /\ TypeOK'
  /\ UNCHANGED <<journal, snapshot, op>>
  /\ \A p \in SettledPaths : active'[p] = active[p]
  => AbstractStep
<1> SUFFICES ASSUME TypeOK, TypeOK', UNCHANGED <<journal, snapshot, op>>,
                    \A p \in SettledPaths : active'[p] = active[p]
             PROVE  AbstractStep
  OBVIOUS
<1>1. UNCHANGED Requested
  BY DEF Requested
<1>2. \A p \in SettledPaths : p \in Paths
  BY DEF SettledPaths
<1>3. \A p \in Requested.scope : p \in Paths
  BY RequestedShape, OperationShape
<1>4. \A p \in SettledPaths : Recoverable'[p] = Recoverable[p]
  BY <1>2 DEF Recoverable
<1>5. \A p \in Requested.scope : Recoverable'[p] = Recoverable[p]
  <2>1. CASE journal \in UnderWay
    BY <1>3, <2>1 DEF Recoverable, Requested, UnderWay, Unfinished
  <2>2. CASE journal \notin UnderWay
    BY <2>2 DEF Requested, NoOperation
  <2>3. QED
    BY <2>1, <2>2
<1>6. Recoverable' \in [Paths -> Values]
  BY StoreTyped DEF Recoverable, TypeOK
<1>7. QED
  BY <1>1, <1>4, <1>5, <1>6, SamePlans DEF AbstractStep, Abstract!Next, Abstract!Serve

(* The commit, by Commit or by a journal write that failed after it.       *)
LEMMA Commits ==
  /\ IndInv
  /\ pc = "verify_new" /\ Verified(op, active)
  /\ UNCHANGED <<active, snapshot, op>>
  /\ journal' = "committed"
  => AbstractStep
<1> SUFFICES ASSUME IndInv, pc = "verify_new", Verified(op, active),
                    UNCHANGED <<active, snapshot, op>>, journal' = "committed"
             PROVE  AbstractStep
  OBVIOUS
<1>1. /\ journal = "verifying" /\ active \in [Paths -> Values]
      /\ \A p \in op.scope \cap SettledPaths : active[p] = op.goal[p]
  BY DEF IndInv, TypeOK, JournalAt, FilesAt, Renewed
<1>2. Requested = op /\ Requested' = NoOperation
  BY <1>1 DEF Requested, UnderWay
<1>3. Recoverable' = active
  <2>1. journal' \notin Unfinished
    BY DEF Unfinished
  <2>2. QED
    BY <1>1, <2>1 DEF Recoverable
<1>4. \A p \in SettledPaths :
        active[p] = IF p \in op.scope THEN op.goal[p] ELSE Recoverable[p]
  BY <1>1 DEF Recoverable, SettledPaths
<1>5. CASE op = NoOperation
  BY <1>1, <1>2, <1>3, <1>5 DEF AbstractStep, Recoverable, NoOperation
<1>6. CASE op # NoOperation
  <2>1. Abstract!Commit
    BY <1>1, <1>2, <1>3, <1>4, <1>6, SamePlans DEF Abstract!Commit
  <2>2. QED
    BY <2>1 DEF AbstractStep, Abstract!Next
<1>7. QED
  BY <1>5, <1>6

(* Both ends of a rollback that becomes terminal hold the same settled     *)
(* files; what the restarted backend wrote becomes the store: Serve.       *)
LEMMA Settles ==
  /\ IndInv
  /\ pc = "settle"
  /\ UNCHANGED <<active, snapshot, op>>
  /\ journal' = "rolled_back"
  => AbstractStep
<1> SUFFICES ASSUME IndInv, pc = "settle", UNCHANGED <<active, snapshot, op>>,
                    journal' = "rolled_back"
             PROVE  AbstractStep
  OBVIOUS
<1>1. /\ journal = "rollback_applied" /\ active \in [Paths -> Values]
      /\ \A p \in op.scope \cap SettledPaths : active[p] = snapshot[p]
  BY DEF IndInv, TypeOK, JournalAt, FilesAt, Undoing, Unfinished
<1>2. Requested = NoOperation /\ Requested' = NoOperation
  BY <1>1 DEF Requested, UnderWay
<1>3. Recoverable' = active
  <2>1. journal' \notin Unfinished
    BY DEF Unfinished
  <2>2. QED
    BY <1>1, <2>1 DEF Recoverable
<1>4. \A p \in SettledPaths : active[p] = Recoverable[p]
  BY <1>1 DEF Recoverable, SettledPaths
<1>5. NoOperation.scope = {}
  BY DEF NoOperation
<1>6. Abstract!Serve
  BY <1>1, <1>2, <1>3, <1>4, <1>5, SamePlans DEF Abstract!Serve
<1>7. QED
  BY <1>6 DEF AbstractStep, Abstract!Next

LEMMA RefineProgress == IndInv /\ TypeOK' /\ Progress => AbstractStep
<1> SUFFICES ASSUME IndInv, TypeOK', Progress PROVE AbstractStep
  OBVIOUS
<1> USE DEF disk, Unfinished, Terminal, UnderWay
<1>i. TypeOK /\ JournalAt /\ FilesAt
  BY DEF IndInv
<1>1. CASE InspectRecoveryRoot
  BY <1>1, KeepsClass DEF InspectRecoveryRoot
<1>2. CASE StartRecovery
  BY <1>2, KeepsClass, GivesUp DEF StartRecovery, WriteJournal
<1>t. CASE StoreToken
  <2>1. journal = "none" /\ Token \in SettledPaths
    BY <1>t, <1>i, SettledFiles DEF StoreToken, IndInv, TokenAt, Exposed, JournalAt,
       Starting
  <2>2. Recoverable' = [Recoverable EXCEPT ![Token] = Encrypted]
    BY <1>t, <1>i, <2>1 DEF StoreToken, Recoverable, TypeOK
  <2>3. Requested = NoOperation /\ Requested' = NoOperation
    BY <1>t, <2>1 DEF StoreToken, Requested
  <2>4. QED
    BY <2>1, <2>2, <2>3, TokenAssumption, SamePlans
    DEF AbstractStep, Abstract!Next, Abstract!Edit
<1>s. CASE StripToken
  <2>1. journal = "none" /\ Config \in SettledPaths
    BY <1>s, <1>i, SettledFiles DEF StripToken, FilesAt, JournalAt, Starting
  <2>2. Recoverable' = [Recoverable EXCEPT ![Config] = Stripped]
    BY <1>s, <1>i, <2>1 DEF StripToken, Recoverable, TypeOK
  <2>3. Requested = NoOperation /\ Requested' = NoOperation
    BY <1>s, <2>1 DEF StripToken, Requested
  <2>4. QED
    BY <2>1, <2>2, <2>3, TokenAssumption, SamePlans
    DEF AbstractStep, Abstract!Next, Abstract!Edit
<1>3. CASE SpawnBackend
  BY <1>3, KeepsClass DEF SpawnBackend
<1>4. CASE BackendReady
  <2>1. \A p \in SettledPaths : active'[p] = active[p]
    BY <1>4, <1>i DEF BackendReady, TypeOK, SettledPaths, ServedPaths
  <2>2. QED
    BY <1>4, <1>i, <2>1, Serves DEF BackendReady
<1>w. CASE OpenWorkspace
  BY <1>w, KeepsClass DEF OpenWorkspace
<1>5. CASE StopForOperation
  BY <1>5, KeepsClass DEF StopForOperation
<1>6. CASE MakeRecoveryDirectory
  BY <1>6, KeepsFiles DEF MakeRecoveryDirectory
<1>7. CASE PublishJournal
  <2>1. UNCHANGED Recoverable
    BY <1>7, <1>i DEF PublishJournal, Recoverable, TypeOK
  <2>2. Requested = NoOperation /\ Requested' \in Operations \cup {NoOperation}
    BY <1>7, <1>i DEF PublishJournal, Requested, TypeOK
  <2>3. QED
    BY <2>1, <2>2, SamePlans DEF AbstractStep, Abstract!Next, Abstract!Request
<1>8. CASE BeginMutation
  BY <1>8, KeepsClass DEF BeginMutation, WriteJournal, AllowedTransitions
<1>9. CASE RemoveFile \/ PublishFile
  <2>1. /\ journal \in {"mutating", "rolling_back"} /\ todo \subseteq op.scope
        /\ UNCHANGED <<journal, snapshot, op>>
        /\ \A p \in Paths \ todo : active'[p] = active[p]
    BY <1>9, <1>i DEF RemoveFile, PublishFile, JournalAt, FilesAt, TypeOK
  <2>2. UNCHANGED <<Recoverable, Requested>>
    BY <2>1 DEF Recoverable, Requested
  <2>3. QED
    BY <2>2 DEF AbstractStep
<1>10. CASE ChangesApplied
  BY <1>10, <1>i, KeepsClass DEF ChangesApplied, WriteJournal, JournalAt
<1>11. CASE BeginVerification
  BY <1>11, <1>i, KeepsClass DEF BeginVerification, WriteJournal, JournalAt
<1>12. CASE Commit
  BY <1>12, Commits DEF Commit, WriteJournal
<1>13. CASE NewStateRejected
  BY <1>13, KeepsClass DEF NewStateRejected
<1>14. CASE UndoOperation
  BY <1>14, <1>i, KeepsClass, GivesUp
  DEF UndoOperation, WriteJournal, AllowedTransitions, JournalAt
<1>15. CASE RestorationDone
  BY <1>15, <1>i, KeepsClass DEF RestorationDone, WriteJournal, JournalAt
<1>16. CASE OldStateAccepted
  BY <1>16, KeepsClass DEF OldStateAccepted
<1>17. CASE OldStateRejected
  BY <1>17, KeepsClass DEF OldStateRejected
<1>18. CASE PreserveDiagnostic
  BY <1>18, <1>i, Serves
  DEF PreserveDiagnostic, TypeOK, SettledPaths, ServedPaths
<1>19. CASE SettleRollback
  BY <1>19, Settles DEF SettleRollback, WriteJournal
<1>20. CASE BeginRemoval \/ FinishRemoval
  BY <1>20, KeepsFiles DEF BeginRemoval, FinishRemoval
<1>21. CASE SameStateAccepted \/ SameStateRejected
  BY <1>21, KeepsClass DEF SameStateAccepted, SameStateRejected
<1>22. QED
  BY <1>1, <1>2, <1>3, <1>4, <1>5, <1>6, <1>7, <1>8, <1>9, <1>10, <1>11,
     <1>12, <1>13, <1>14, <1>15, <1>16, <1>17, <1>18, <1>19, <1>20, <1>21,
     <1>t, <1>s, <1>w
  DEF Progress

LEMMA RefineFailure == IndInv /\ Failure => AbstractStep
<1> SUFFICES ASSUME IndInv, Failure PROVE AbstractStep
  OBVIOUS
<1> USE DEF disk, Unfinished, Terminal, UnderWay
<1>i. TypeOK /\ JournalAt /\ FilesAt
  BY DEF IndInv
<1>1. CASE \/ Crash \/ BackendDies \/ StartFails \/ OpenFails \/ StopFails
           \/ RestartFails \/ DiagnosticFails \/ RemovalFails
  BY <1>1, KeepsClass DEF Crash, BackendDies, StartFails, OpenFails, StopFails,
     RestartFails, DiagnosticFails, RemovalFails
<1>2. CASE InspectionFails
  BY <1>2, KeepsClass, GivesUp DEF InspectionFails, FailJournal
<1>3. CASE SnapshotFails
  <2>1. UNCHANGED <<journal, active, snapshot, op>>
        \/ journal' \in {"none", "torn"}
    BY <1>3 DEF SnapshotFails
  <2>2. CASE UNCHANGED <<journal, active, snapshot, op>>
    BY <2>2, KeepsClass
  <2>3. CASE journal' \in {"none", "torn"} /\ journal \in {"none", "torn"}
    BY <1>3, <2>3, KeepsFiles DEF SnapshotFails
  <2>4. CASE journal' \in {"none", "torn"} /\ journal = "prepared"
    <3>1. UNCHANGED Recoverable
      BY <1>3, <1>i, <2>4 DEF SnapshotFails, Recoverable, FilesAt, TypeOK
    <3>2. Requested' = NoOperation
      BY <2>4, RequestedShape DEF Requested
    <3>3. QED
      BY <3>1, <3>2, SamePlans DEF AbstractStep, Abstract!Next, Abstract!Abandon
  <2>5. QED
    BY <1>3, <1>i, <2>1, <2>2, <2>3, <2>4 DEF SnapshotFails, JournalAt
<1>4. CASE TransactionFails
  <2>1. CASE journal' = "committed" /\ journal # "committed"
    BY <1>4, <1>i, <2>1, Commits
    DEF TransactionFails, FailJournal, NextState, JournalAt
  <2>2. CASE journal' # "committed" \/ journal = "committed"
    BY <1>4, <1>i, <2>2, KeepsClass
    DEF TransactionFails, FailJournal, NextState, AllowedTransitions, JournalAt
  <2>3. QED
    BY <2>1, <2>2
<1>5. CASE UndoFails
  BY <1>5, <1>i, KeepsClass, GivesUp
  DEF UndoFails, FailJournal, AllowedTransitions, JournalAt
<1>6. CASE RestorationFails
  BY <1>6, <1>i, KeepsClass DEF RestorationFails, FailJournal, JournalAt
<1>7. CASE SettleFails
  BY <1>7, <1>i, KeepsClass, Settles DEF SettleFails, FailJournal
<1>8. QED
  BY <1>1, <1>2, <1>3, <1>4, <1>5, <1>6, <1>7 DEF Failure

LEMMA RefineEnvironment == IndInv /\ TypeOK' /\ Environment => AbstractStep
<1> SUFFICES ASSUME IndInv, TypeOK', Environment PROVE AbstractStep
  OBVIOUS
<1> USE DEF disk
<1>i. TypeOK
  BY DEF IndInv
<1>1. CASE Launch \/ Quit
  BY <1>1, KeepsClass DEF Launch, Quit
<1>2. CASE BeginOperation
  <2>1. CASE journal = "none"
    BY <1>2, <2>1, KeepsFiles DEF BeginOperation, Unfinished
  <2>2. CASE journal # "none"
    BY <1>2, <2>2, KeepsClass DEF BeginOperation
  <2>3. QED
    BY <2>1, <2>2
<1>3. CASE BackendWrites
  BY <1>3, <1>i, Serves DEF BackendWrites, TypeOK, SettledPaths
<1>4. CASE UserEdits
  <2>1. PICK p \in SettledPaths, c \in Work : active' = [active EXCEPT ![p] = c]
    BY <1>4 DEF UserEdits
  <2>2. /\ journal \in {"none", "torn", "rollback_applied"} \cup Terminal
        /\ UNCHANGED <<journal, snapshot, op>>
    BY <1>4 DEF UserEdits, IndInv, OpenWorkspaceIsServed
  <2>3. Requested = NoOperation /\ Requested' = NoOperation
    BY <2>2 DEF Requested, UnderWay, Terminal
  <2>4. CASE journal \in Unfinished /\ p \in op.scope
    BY <1>i, <2>1, <2>2, <2>3, <2>4 DEF AbstractStep, Recoverable, TypeOK
  <2>5. CASE ~(journal \in Unfinished /\ p \in op.scope)
    <3>1. Recoverable' = [Recoverable EXCEPT ![p] = c]
      BY <1>i, <2>1, <2>2, <2>5 DEF Recoverable, TypeOK, SettledPaths
    <3>2. c \in Contents
      BY <2>1, WorkAssumption
    <3>3. QED
      BY <2>1, <2>3, <3>1, <3>2, SamePlans
      DEF AbstractStep, Abstract!Next, Abstract!Edit
  <2>6. QED
    BY <2>4, <2>5
<1>5. QED
  BY <1>1, <1>2, <1>3, <1>4 DEF Environment

(* The journaled protocol of storage-transaction.cjs and                   *)
(* storage-recovery.cjs implements the atomic replacement of the stored    *)
(* workspace: through any crash, failure or retry, what a restart comes    *)
(* back to is the previous state or a verified requested one.              *)
THEOREM Refinement ==
  ASSUME BackupsHoldTheirToken
  PROVE  Spec => ImplementsAtomicStorage
<1>1. Init => Abstract!Init
  <2> SUFFICES ASSUME Init PROVE Abstract!Init
    OBVIOUS
  <2>1. TypeOK /\ journal \notin UnderWay
    BY TypeInit DEF Init, UnderWay
  <2>2. QED
    BY <2>1, StoreTyped, RequestedShape, SamePlans DEF Abstract!Init
<1>2. IndInv /\ IndInv' /\ [Next]_vars => [Abstract!Next]_<<Recoverable, Requested>>
  <2> SUFFICES ASSUME IndInv, IndInv', [Next]_vars PROVE AbstractStep
    BY DEF AbstractStep
  <2>1. TypeOK'
    BY DEF IndInv
  <2>2. CASE Next
    BY <2>1, <2>2, RefineProgress, RefineFailure, RefineEnvironment DEF Next
  <2>3. CASE UNCHANGED vars
    BY <2>3, KeepsClass DEF vars
  <2>4. QED
    BY <2>2, <2>3
<1>3. QED
  BY <1>1, <1>2, Invariance, PTL DEF Spec, ImplementsAtomicStorage, Abstract!Spec

=============================================================================
