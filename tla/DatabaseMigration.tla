-------------------------- MODULE DatabaseMigration --------------------------
(***************************************************************************)
(* The start of the backend over an existing SQLite database: identify its *)
(* revision, keep a backup, stamp a database of the time before Alembic,   *)
(* run the missing revisions (migrations.py, schema_revision.py,           *)
(* backup_validation.py).  One backend uses a database at a time; it may   *)
(* stop anywhere and be started again.                                     *)
(*                                                                         *)
(* SQLite's driver opens a transaction at the first statement that changes *)
(* rows: schema statements before it are final at once, all after it last  *)
(* only if the whole start succeeds.                                       *)
(***************************************************************************)
EXTENDS Integers, Sequences

CONSTANTS
  Newest,            \* the number of revisions
  Kinds,             \* Kinds[r]: the statements of revision r, "schema" or "rows"
  Repeatable,        \* revisions that look whether they are applied already
  LastLegacy,        \* the last revision recognized without version table
  Originals          \* databases the backend may find

ASSUME NewestAssumption == Newest \in Nat \ {0}
ASSUME LegacyAssumption == LastLegacy \in 0 .. Newest
ASSUME KindsAssumption ==
  Kinds \in [1 .. Newest -> Seq({"schema", "rows"})] /\ \A r \in 1 .. Newest : Kinds[r] # <<>>

(* done revisions are applied, and part statements of the next one; the    *)
(* version table is there or not, and records a revision or none.          *)
Databases ==
  [done : 0 .. Newest + 1, part : Nat, table : BOOLEAN, version : 0 .. Newest + 1]
NoRevision == 0
Absent == [done |-> 0, part |-> 0, table |-> FALSE, version |-> NoRevision]

ASSUME OriginalsAssumption ==
  \A d \in Originals :
    /\ d \in Databases
    /\ d.version # NoRevision => d.table /\ d.done = d.version /\ d.part = 0

VARIABLES
  disk,              \* what is final
  view,              \* what the transaction of the backend sees
  open,              \* whether it has begun a transaction
  backup,            \* the canonical backup, Absent if there is none
  copy,              \* the temporary copy
  step,              \* where the start is
  seen,              \* the identity found: kind and revision
  at,                \* statements executed of the revision that is run
  original           \* the database first found

vars == <<disk, view, open, backup, copy, step, seen, at, original>>

Init ==
  /\ original \in Originals
  /\ disk = original
  /\ view = original
  /\ open = FALSE
  /\ backup = Absent
  /\ copy = Absent
  /\ step = "stopped"
  /\ seen = [kind |-> "none", revision |-> NoRevision]
  /\ at = 0

-----------------------------------------------------------------------------
(* Identification.                                                         *)

HasSchema(d) == d.done > 0 \/ d.part > 0

(* infer_legacy_revision, by the names of tables and columns.  It sees no  *)
(* indexes: a revision that lacks only these is recognized by the code and *)
(* refused here.  The mutant takes every old schema for the newest one.    *)
InferNewest(d) == LastLegacy
InferLegacyRevision(d) == d.done
Recognized(d) == d.part = 0 /\ d.done \in 1 .. LastLegacy

Identity(d) ==
  IF d.table /\ d.version = NoRevision THEN [kind |-> "refused", revision |-> NoRevision]
  ELSE IF d.version > Newest THEN [kind |-> "refused", revision |-> NoRevision]
  ELSE IF d.version # NoRevision THEN [kind |-> "alembic", revision |-> d.version]
  ELSE IF ~HasSchema(d) THEN [kind |-> "fresh", revision |-> NoRevision]
  ELSE IF Recognized(d)
       THEN [kind |-> "recognized_legacy", revision |-> InferLegacyRevision(d)]
  ELSE [kind |-> "refused", revision |-> NoRevision]

Start ==
  /\ step = "stopped"
  /\ seen' = Identity(disk)
  /\ step' = CASE Identity(disk).kind = "refused" -> "stopped"
               [] Identity(disk).revision = Newest /\ Identity(disk).kind = "alembic" -> "ready"
               [] Identity(disk).kind = "fresh" -> "table"
               [] OTHER -> "backup"
  /\ at' = 0
  /\ view' = disk
  /\ UNCHANGED <<disk, open, backup, copy, original>>

-----------------------------------------------------------------------------
(* The backup.                                                             *)

AfterBackup == IF seen.kind = "alembic" THEN "upgrade" ELSE "table"

(* An existing backup is kept; it must be of the revision to be upgraded.  *)
Reuse ==
  /\ step = "backup"
  /\ backup # Absent
  /\ step' = IF Identity(backup) = seen THEN AfterBackup ELSE "stopped"
  /\ UNCHANGED <<disk, view, open, backup, copy, seen, at, original>>

(* Mutant: every start makes a backup of its own.                          *)
CopyAlways ==
  /\ step = "backup"
  /\ copy' = disk
  /\ step' = "publish"
  /\ UNCHANGED <<disk, view, open, backup, seen, at, original>>

Copy ==
  /\ step = "backup"
  /\ backup = Absent
  /\ copy' = disk
  /\ step' = "publish"
  /\ UNCHANGED <<disk, view, open, backup, seen, at, original>>

Publish ==
  /\ step = "publish"
  /\ Identity(copy) = seen
  /\ backup' = copy
  /\ copy' = Absent
  /\ step' = AfterBackup
  /\ UNCHANGED <<disk, view, open, seen, at, original>>

-----------------------------------------------------------------------------
(* Stamp and upgrade.  The version table is created outside of any         *)
(* transaction.                                                            *)

EnsureVersionTable ==
  /\ step = "table"
  /\ disk' = [disk EXCEPT !.table = TRUE]
  /\ view' = [view EXCEPT !.table = TRUE]
  /\ step' = IF seen.kind = "fresh" THEN "upgrade" ELSE "stamp"
  /\ UNCHANGED <<open, backup, copy, seen, at, original>>

Stamp ==
  /\ step = "stamp"
  /\ open' = TRUE
  /\ view' = [view EXCEPT !.version = seen.revision]
  /\ step' = "upgrade"
  /\ UNCHANGED <<disk, backup, copy, seen, at, original>>

Running == view.version + 1
Applied == view.done >= Running \/ view.part > at

(* The database after the next statement of the revision.                  *)
Advanced(d) ==
  IF at + 1 = Len(Kinds[Running]) THEN [d EXCEPT !.done = @ + 1, !.part = 0]
  ELSE [d EXCEPT !.part = at + 1]

(* A statement that meets its own result fails, and the start ends.        *)
Statement ==
  /\ step = "upgrade"
  /\ view.version < Newest
  /\ at < Len(Kinds[Running])
  /\ ~Applied
  /\ view' = Advanced(view)
  /\ open' = (open \/ Kinds[Running][at + 1] = "rows")
  /\ disk' = IF open' THEN disk ELSE Advanced(disk)
  /\ at' = at + 1
  /\ UNCHANGED <<backup, copy, step, seen, original>>

Skip ==
  /\ step = "upgrade"
  /\ view.version < Newest
  /\ at < Len(Kinds[Running])
  /\ view.done >= Running
  /\ Running \in Repeatable
  /\ at' = Len(Kinds[Running])
  /\ UNCHANGED <<disk, view, open, backup, copy, step, seen, original>>

Record ==
  /\ step = "upgrade"
  /\ view.version < Newest
  /\ at = Len(Kinds[Running])
  /\ open' = TRUE
  /\ view' = [view EXCEPT !.version = Running]
  /\ at' = 0
  /\ UNCHANGED <<disk, backup, copy, step, seen, original>>

Commit ==
  /\ step = "upgrade"
  /\ view.version = Newest
  /\ open
  /\ disk' = view
  /\ open' = FALSE
  /\ step' = "ready"
  /\ UNCHANGED <<view, backup, copy, seen, at, original>>

(* An error or a crash; a temporary copy is of no use to a later start.    *)
Stop ==
  /\ step # "stopped"
  /\ step' = "stopped"
  /\ open' = FALSE
  /\ view' = disk
  /\ copy' = Absent
  /\ at' = 0
  /\ UNCHANGED <<disk, backup, seen, original>>

Next ==
  \/ Start \/ Reuse \/ Copy \/ Publish
  \/ EnsureVersionTable \/ Stamp \/ Statement \/ Skip \/ Record \/ Commit
  \/ Stop

Spec == Init /\ [][Next]_vars

-----------------------------------------------------------------------------
(* Properties.                                                             *)

(* However often the start fails and is repeated, the database as it was   *)
(* before the first change is in the canonical backup; a schema that       *)
(* nobody recognized is never touched.                                     *)
BackupProtects ==
  HasSchema(original) /\ disk # original =>
    /\ backup = original
    /\ Identity(original).kind # "refused"

(* Requests are only served over the complete schema, and a recorded       *)
(* revision is really applied, although statements of failed starts stay   *)
(* behind and the recorded revision of an old database is a guess.         *)
NeverServesPartialSchema ==
  /\ step = "ready" => disk.version = Newest /\ disk.done = Newest /\ disk.part = 0
  /\ original.version <= Newest => disk.version <= disk.done

=============================================================================
