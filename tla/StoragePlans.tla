---------------------------- MODULE StoragePlans ----------------------------
(***************************************************************************)
(* The files of the desktop application's user-data directory that a       *)
(* destructive storage operation may touch, and the file plan each         *)
(* operation hands to the storage transaction (desktop/src/main.cjs).      *)
(* A file is abstracted to its content; a directory (logs) to one file.    *)
(***************************************************************************)
EXTENDS FiniteSets

CONSTANTS
  Database,     \* data/lighthouse.db
  Companions,   \* its -wal and -shm files
  Config,       \* backend.env, beside the executable or in the user data
  Token,        \* secrets/jira-token.bin
  Logs,         \* the logs directory
  Contents,     \* what a present file can hold
  Empty,        \* the database of a fresh, current-head installation
  Absent,       \* there is no file at the path
  Plaintext,    \* the configurations that hold a Jira token in plain text
  Stripped,     \* what is left of one without that token
  Encrypted,    \* the token file that token is moved to
  Backups       \* the settings backups that passed preflight validation

Paths == {Database, Config, Token, Logs} \cup Companions
Values == Contents \cup {Absent}

(* Files the backend process itself writes while it runs: SQLite's three   *)
(* files and backend.log. The other two change only by a user's request.   *)
ServedPaths == {Database, Logs} \cup Companions
SettledPaths == Paths \ ServedPaths

DatabaseSet == {Database} \cup Companions

(* A validated backup: a payload for a non-empty part of the allowlist.    *)
Payloads ==
  UNION {[S -> Contents] : S \in SUBSET {Database, Config, Token} \ {{}}}

ASSUME ContentsAssumption == Empty \in Contents /\ Absent \notin Contents
ASSUME TokenAssumption ==
  /\ Plaintext \subseteq Contents
  /\ Stripped \in Contents \ Plaintext
  /\ Encrypted \in Contents
ASSUME PathsAssumption ==
  /\ Cardinality({Database, Config, Token, Logs}) = 4
  /\ Companions \cap {Database, Config, Token, Logs} = {}
ASSUME BackupsAssumption == Backups \subseteq Payloads

-----------------------------------------------------------------------------

(* scope: the paths declared to the recovery journal; deletes: the paths   *)
(* removed before the first replacement; goal: what each declared path     *)
(* holds once the plan is applied.                                         *)
ClearDataPlan ==
  [kind |-> "clear-data", scope |-> DatabaseSet, deletes |-> DatabaseSet,
   goal |-> [p \in Paths |-> Absent]]

FactoryResetPlan ==
  [kind |-> "factory-reset", scope |-> Paths, deletes |-> Paths,
   goal |-> [p \in Paths |-> Absent]]

(* A restored database replaces the active one and drops its WAL and SHM;  *)
(* files the backup does not hold are not declared and stay as they are.   *)
RestorePlan(payload) ==
  LET databaseFiles == IF Database \in DOMAIN payload THEN DatabaseSet ELSE {}
  IN  [kind |-> "restore",
       scope |-> DOMAIN payload \cup databaseFiles,
       deletes |-> databaseFiles,
       goal |-> [p \in Paths |->
                   IF p \in DOMAIN payload THEN payload[p] ELSE Absent]]

Operations ==
  {ClearDataPlan, FactoryResetPlan} \cup {RestorePlan(b) : b \in Backups}

NoOperation ==
  [kind |-> "none", scope |-> {}, deletes |-> {},
   goal |-> [p \in Paths |-> Absent]]

(* The next start of a backend moves the token out of the configuration.   *)
Bare(files) == files[Token] = Absent /\ files[Config] \in Plaintext

(* No backup brings a token in its configuration only. A backup written    *)
(* while the backend has run since the configuration was last changed does *)
(* not; validation alone does not refuse one.                              *)
BackupsHoldTheirToken ==
  \A b \in Backups :
    Config \in DOMAIN b /\ b[Config] \in Plaintext => Token \in DOMAIN b

(* What the operation's verifyState callback asks of the served data. The  *)
(* restore only needs well-formed collections, the other two need an empty *)
(* database, and the factory reset also that no token is configured: then  *)
(* a configuration is not complete either, the other thing it asks.        *)
Verified(operation, files) ==
  /\ operation.kind \in {"clear-data", "factory-reset"} => files[Database] = Empty
  /\ operation.kind = "factory-reset" => files[Token] = Absent

=============================================================================
