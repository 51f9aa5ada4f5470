------------------------- MODULE BackendStartProofs -------------------------
(***************************************************************************)
(* Proofs about what the backend finds when it starts: DatabaseMigration,  *)
(* for any revisions, any statements in them and any databases it may      *)
(* find, and Configuration, for any statuses and any number of requests.   *)
(***************************************************************************)
EXTENDS DatabaseMigration, Configuration, TLAPS

Identities == {"none", "refused", "alembic", "fresh", "recognized_legacy"}
Steps == {"stopped", "backup", "publish", "table", "stamp", "upgrade", "ready"}

MigrationTypes ==
  /\ original \in Originals
  /\ disk \in Databases
  /\ view \in Databases
  /\ backup \in Databases
  /\ copy \in Databases
  /\ open \in BOOLEAN
  /\ step \in Steps
  /\ seen \in [kind : Identities, revision : 0 .. Newest]
  /\ at \in Nat

(* Only an upgrade has a transaction open; without one the backend sees    *)
(* what is final.                                                          *)
TransactionInv ==
  /\ open => step = "upgrade"
  /\ ~open => view = disk

(* A database with a schema never loses it, so no later start takes it for *)
(* a fresh one; nothing is changed before its backup is in place.          *)
Protected == backup = original /\ Identity(original).kind # "refused"
BackupInv ==
  HasSchema(original) =>
    /\ HasSchema(disk)
    /\ backup \in {Absent, original}
    /\ disk # original => Protected
    /\ step \in {"table", "stamp", "upgrade"} => Protected

(* What is recorded is applied; the statements of the next revision at     *)
(* most are there without a record of them.                                *)
Recorded(d) ==
  /\ d.version <= d.done
  /\ d.version \in 1 .. Newest =>
       /\ d.done <= Newest
       /\ d.done = Newest => d.part = 0
Upgradable(d) ==
  /\ d.version \in 0 .. Newest
  /\ d.done \in d.version .. Newest
  /\ d.done = Newest => d.part = 0

(* What each step may take for granted of the identification.              *)
IdentifiedInv ==
  /\ step \in {"backup", "publish"} =>
       /\ seen = Identity(disk)
       /\ seen.kind \in {"alembic", "recognized_legacy"}
  /\ step = "publish" => copy = disk /\ backup = Absent
  /\ step \in {"table", "stamp"} =>
       /\ view.version = NoRevision
       /\ \/ seen.kind = "fresh" /\ ~HasSchema(view) /\ step = "table"
          \/ /\ seen.kind = "recognized_legacy"
             /\ seen.revision = view.done
             /\ Recognized(view)
  /\ step \in {"backup", "publish", "table", "stamp"} => at = 0

UpgradeInv ==
  /\ Recorded(disk)
  /\ step = "upgrade" =>
       /\ Upgradable(view)
       /\ view.version < Newest =>
            /\ at <= Len(Kinds[Running])
            /\ at = Len(Kinds[Running]) => view.done >= Running
  /\ step = "ready" => disk.version = Newest /\ disk.done = Newest /\ disk.part = 0

MigrationInv ==
  /\ MigrationTypes
  /\ TransactionInv
  /\ BackupInv
  /\ IdentifiedInv
  /\ UpgradeInv

-----------------------------------------------------------------------------
(* The operators.                                                          *)

LEMMA IdentityFacts ==
  ASSUME NEW d \in Databases
  PROVE  /\ Identity(d) \in [kind : Identities, revision : 0 .. Newest]
         /\ Identity(d).kind # "none"
         /\ Identity(d).kind = "alembic" =>
              d.version \in 1 .. Newest /\ Identity(d).revision = d.version
         /\ Identity(d).kind = "fresh" => d.version = NoRevision /\ ~HasSchema(d)
         /\ Identity(d).kind = "recognized_legacy" =>
              /\ d.version = NoRevision
              /\ Recognized(d)
              /\ Identity(d).revision = d.done
<1>1. d.version \in Nat /\ d.done \in Nat /\ NoRevision = 0 /\ Newest \in Nat
  BY NewestAssumption DEF Databases, NoRevision
<1>2. CASE d.table /\ d.version = NoRevision
  BY <1>1, <1>2 DEF Identity, Identities
<1>3. CASE ~(d.table /\ d.version = NoRevision) /\ d.version > Newest
  BY <1>1, <1>3 DEF Identity, Identities
<1>4. CASE ~(d.version > Newest) /\ d.version # NoRevision
  BY <1>1, <1>4 DEF Identity, Identities
<1>5. CASE ~d.table /\ d.version = NoRevision /\ ~HasSchema(d)
  BY <1>1, <1>5, NewestAssumption DEF Identity, Identities
<1>6. CASE ~d.table /\ d.version = NoRevision /\ HasSchema(d) /\ Recognized(d)
  <2>1. d.done \in 0 .. Newest
    BY <1>1, <1>6, LegacyAssumption DEF Recognized
  <2>2. QED
    BY <1>1, <1>6, <2>1, NewestAssumption DEF Identity, Identities, InferLegacyRevision
<1>7. CASE ~d.table /\ d.version = NoRevision /\ HasSchema(d) /\ ~Recognized(d)
  BY <1>1, <1>7, NewestAssumption DEF Identity, Identities
<1>8. QED
  BY <1>2, <1>3, <1>4, <1>5, <1>6, <1>7

LEMMA StatementCounts ==
  ASSUME NEW r \in 1 .. Newest PROVE Len(Kinds[r]) \in Nat \ {0}
<1>1. Kinds[r] \in Seq({"schema", "rows"}) /\ Kinds[r] # <<>>
  BY KindsAssumption
<1>2. QED
  BY <1>1

(* A statement is only executed where the recorded revision is also the    *)
(* last one applied.                                                       *)
LEMMA AdvancedFacts ==
  ASSUME view \in Databases, at \in Nat, Upgradable(view),
         view.version < Newest, at < Len(Kinds[Running]), ~Applied
  PROVE  /\ Advanced(view) \in Databases
         /\ HasSchema(Advanced(view))
         /\ Recorded(Advanced(view))
         /\ Upgradable(Advanced(view))
         /\ Advanced(view).version = view.version
         /\ at + 1 = Len(Kinds[Running]) => Advanced(view).done = Running
<1>1. /\ view.version \in 0 .. Newest /\ view.done = view.version
      /\ Running = view.version + 1 /\ Running \in 1 .. Newest
      /\ view.part \in Nat
  BY NewestAssumption DEF Upgradable, Applied, Running, Databases
<1>2. CASE at + 1 = Len(Kinds[Running])
  <2> DEFINE next == [view EXCEPT !.done = @ + 1, !.part = 0]
  <2>1. Advanced(view) = next
    BY <1>2 DEF Advanced
  <2>2. next.done = Running /\ next.part = 0 /\ next.version = view.version
    BY <1>1 DEF Databases
  <2>3. next \in Databases
    <3>1. view.done + 1 \in 0 .. Newest + 1
      BY <1>1, NewestAssumption
    <3>2. QED
      BY <3>1 DEF Databases
  <2> HIDE DEF next
  <2>4. HasSchema(next) /\ Recorded(next) /\ Upgradable(next)
    BY <1>1, <2>2, NewestAssumption DEF HasSchema, Recorded, Upgradable
  <2>5. QED
    BY <2>1, <2>2, <2>3, <2>4
<1>3. CASE at + 1 # Len(Kinds[Running])
  <2> DEFINE next == [view EXCEPT !.part = at + 1]
  <2>1. Advanced(view) = next
    BY <1>3 DEF Advanced
  <2>2. /\ next \in Databases /\ next.done = view.done /\ next.part = at + 1
        /\ next.version = view.version
    BY <1>1, NewestAssumption DEF Databases
  <2> HIDE DEF next
  <2>3. HasSchema(next) /\ Recorded(next) /\ Upgradable(next)
    BY <1>1, <2>2, NewestAssumption DEF HasSchema, Recorded, Upgradable
  <2>4. QED
    BY <1>3, <2>1, <2>2, <2>3
<1>4. QED
  BY <1>2, <1>3

-----------------------------------------------------------------------------
(* The invariant.                                                          *)

LEMMA MigrationInit == Init => MigrationInv
<1> SUFFICES ASSUME Init PROVE MigrationInv
  OBVIOUS
<1> USE DEF Init
<1>1. original \in Databases /\ NoRevision = 0 /\ Newest \in Nat \ {0}
  BY OriginalsAssumption, NewestAssumption DEF NoRevision
<1>2. Absent \in Databases
  BY <1>1 DEF Absent, Databases
<1>3. MigrationTypes
  <2>1. seen \in [kind : Identities, revision : 0 .. Newest]
    BY <1>1 DEF Identities
  <2>2. QED
    BY <1>1, <1>2, <2>1 DEF MigrationTypes, Steps
<1>4. Recorded(disk)
  <2>1. CASE original.version = NoRevision
    BY <1>1, <2>1 DEF Recorded, Databases
  <2>2. CASE original.version # NoRevision
    <3>1. original.done = original.version /\ original.part = 0
      BY <2>2, OriginalsAssumption
    <3>2. QED
      BY <1>1, <3>1 DEF Recorded, Databases
  <2>3. QED
    BY <2>1, <2>2
<1>5. QED
  BY <1>3, <1>4 DEF MigrationInv, TransactionInv, BackupInv, IdentifiedInv, UpgradeInv

LEMMA TypesStep == MigrationInv /\ [Next]_vars => MigrationTypes'
<1> SUFFICES ASSUME MigrationInv, [Next]_vars PROVE MigrationTypes'
  OBVIOUS
<1> USE DEF MigrationInv, MigrationTypes, Steps
<1>a. NoRevision = 0 /\ Newest \in Nat \ {0}
  BY NewestAssumption DEF NoRevision
<1>b. Absent \in Databases
  BY <1>a DEF Absent, Databases
<1>1. CASE Start
  <2>1. Identity(disk) \in [kind : Identities, revision : 0 .. Newest]
    BY IdentityFacts
  <2>2. QED
    BY <1>1, <2>1 DEF Start
<1>2. CASE Reuse
  BY <1>2 DEF Reuse, AfterBackup
<1>3. CASE Copy
  BY <1>3 DEF Copy
<1>4. CASE Publish
  BY <1>4, <1>b DEF Publish, AfterBackup
<1>5. CASE EnsureVersionTable
  BY <1>5 DEF EnsureVersionTable, Databases
<1>6. CASE Stamp
  <2>1. seen.revision \in 0 .. Newest + 1
    BY <1>a
  <2>2. QED
    BY <1>6, <2>1 DEF Stamp, Databases
<1>7. CASE Statement
  <2>1. Upgradable(view)
    BY <1>7 DEF Statement, UpgradeInv
  <2>2. Advanced(view) \in Databases
    BY <1>7, <2>1, AdvancedFacts DEF Statement
  <2>3. ~open' => disk' = Advanced(view)
    BY <1>7 DEF Statement, TransactionInv
  <2>4. disk' \in Databases
    BY <1>7, <2>2, <2>3 DEF Statement
  <2>5. QED
    BY <1>7, <2>2, <2>4 DEF Statement
<1>8. CASE Skip
  <2>1. Running \in 1 .. Newest
    BY <1>8, <1>a DEF Skip, Running, UpgradeInv, Upgradable
  <2>2. Len(Kinds[Running]) \in Nat
    BY <2>1, StatementCounts
  <2>3. QED
    BY <1>8, <2>2 DEF Skip
<1>9. CASE Record
  <2>1. Running \in 0 .. Newest + 1
    BY <1>9, <1>a DEF Record, Running, UpgradeInv, Upgradable
  <2>2. QED
    BY <1>9, <2>1 DEF Record, Databases
<1>10. CASE Commit
  BY <1>10 DEF Commit
<1>11. CASE Stop
  BY <1>11, <1>b DEF Stop
<1>12. CASE UNCHANGED vars
  BY <1>12 DEF vars
<1>13. QED
  BY <1>1, <1>2, <1>3, <1>4, <1>5, <1>6, <1>7, <1>8, <1>9, <1>10, <1>11, <1>12 DEF Next

LEMMA TransactionStep == MigrationInv /\ [Next]_vars => TransactionInv'
<1> SUFFICES ASSUME MigrationInv, [Next]_vars PROVE TransactionInv'
  OBVIOUS
<1> USE DEF MigrationInv, TransactionInv
<1>1. CASE Start
  BY <1>1 DEF Start
<1>2. CASE Reuse \/ Copy \/ Publish
  BY <1>2 DEF Reuse, Copy, Publish
<1>3. CASE EnsureVersionTable
  BY <1>3 DEF EnsureVersionTable
<1>4. CASE Stamp
  BY <1>4 DEF Stamp
<1>5. CASE Statement
  BY <1>5 DEF Statement
<1>6. CASE Skip \/ Record
  BY <1>6 DEF Skip, Record
<1>7. CASE Commit \/ Stop
  BY <1>7 DEF Commit, Stop
<1>8. CASE UNCHANGED vars
  BY <1>8 DEF vars
<1>9. QED
  BY <1>1, <1>2, <1>3, <1>4, <1>5, <1>6, <1>7, <1>8 DEF Next

LEMMA OriginalStays == [Next]_vars => original' = original
<1>1. Start \/ Reuse \/ Copy \/ Publish => original' = original
  BY DEF Start, Reuse, Copy, Publish
<1>2. EnsureVersionTable \/ Stamp \/ Statement => original' = original
  BY DEF EnsureVersionTable, Stamp, Statement
<1>3. Skip \/ Record \/ Commit \/ Stop => original' = original
  BY DEF Skip, Record, Commit, Stop
<1>4. QED
  BY <1>1, <1>2, <1>3 DEF Next, vars

(* The backup is published before the first change, and the starts that    *)
(* make later changes find it.                                             *)
LEMMA BackupStep == MigrationInv /\ [Next]_vars => BackupInv'
<1> SUFFICES ASSUME MigrationInv, [Next]_vars PROVE BackupInv'
  OBVIOUS
<1> SUFFICES ASSUME HasSchema(original) PROVE BackupInv'
  BY OriginalStays DEF BackupInv, HasSchema
<1>a. /\ HasSchema(disk) /\ backup \in {Absent, original}
      /\ disk # original => Protected
      /\ step \in {"table", "stamp", "upgrade"} => Protected
  BY DEF MigrationInv, BackupInv
<1>b. original # Absent
  BY DEF HasSchema, Absent
<1>c. /\ disk \in Databases /\ view \in Databases /\ at \in Nat
      /\ Newest \in Nat \ {0} /\ NoRevision = 0
  BY NewestAssumption DEF MigrationInv, MigrationTypes, NoRevision
<1> USE DEF BackupInv, Protected
<1>1. CASE Start
  <2>1. Identity(disk).kind # "fresh"
    BY <1>a, <1>c, IdentityFacts
  <2>2. QED
    BY <1>1, <1>a, <2>1 DEF Start
<1>2. CASE Reuse
  <2>1. seen.kind \in {"alembic", "recognized_legacy"}
    BY <1>2 DEF Reuse, MigrationInv, IdentifiedInv
  <2>2. backup = original
    BY <1>2, <1>a DEF Reuse
  <2>3. step' # "stopped" => Identity(original).kind # "refused"
    BY <1>2, <2>1, <2>2 DEF Reuse
  <2>4. QED
    BY <1>2, <1>a, <2>2, <2>3 DEF Reuse
<1>3. CASE Copy
  BY <1>3, <1>a DEF Copy
<1>4. CASE Publish
  <2>1. /\ seen = Identity(disk) /\ seen.kind \in {"alembic", "recognized_legacy"}
        /\ copy = disk /\ backup = Absent
    BY <1>4 DEF Publish, MigrationInv, IdentifiedInv
  <2>2. disk = original
    BY <1>a, <1>b, <2>1
  <2>3. QED
    BY <1>4, <1>a, <2>1, <2>2 DEF Publish
<1>5. CASE EnsureVersionTable
  BY <1>5, <1>a, <1>c DEF EnsureVersionTable, HasSchema, Databases
<1>6. CASE Stamp
  BY <1>6, <1>a DEF Stamp
<1>7. CASE Statement
  <2>1. Upgradable(view) /\ step = "upgrade"
    BY <1>7 DEF Statement, MigrationInv, UpgradeInv
  <2>2. HasSchema(Advanced(view))
    BY <1>7, <1>c, <2>1, AdvancedFacts DEF Statement
  <2>3. ~open' => disk' = Advanced(view)
    BY <1>7 DEF Statement, MigrationInv, TransactionInv
  <2>4. HasSchema(disk')
    BY <1>7, <1>a, <2>2, <2>3 DEF Statement
  <2>5. HasSchema(disk)'
    BY <2>4 DEF HasSchema
  <2>6. QED
    BY <1>7, <1>a, <2>1, <2>5 DEF Statement
<1>8. CASE Skip \/ Record
  BY <1>8, <1>a DEF Skip, Record
<1>9. CASE Commit
  <2>1. view.done \in view.version .. Newest /\ view.version = Newest
    BY <1>9 DEF Commit, MigrationInv, UpgradeInv, Upgradable
  <2>2. HasSchema(view)
    BY <1>c, <2>1 DEF HasSchema
  <2>3. HasSchema(disk)'
    BY <1>9, <2>2 DEF Commit, HasSchema
  <2>4. QED
    BY <1>9, <1>a, <2>3 DEF Commit
<1>10. CASE Stop
  BY <1>10, <1>a DEF Stop
<1>11. CASE UNCHANGED vars
  BY <1>11, <1>a DEF vars
<1>12. QED
  BY <1>1, <1>2, <1>3, <1>4, <1>5, <1>6, <1>7, <1>8, <1>9, <1>10, <1>11 DEF Next

LEMMA IdentifiedStep == MigrationInv /\ [Next]_vars => IdentifiedInv'
<1> SUFFICES ASSUME MigrationInv, [Next]_vars PROVE IdentifiedInv'
  OBVIOUS
<1>a. disk \in Databases /\ NoRevision = 0 /\ IdentifiedInv
  BY DEF MigrationInv, MigrationTypes, NoRevision
<1>b. step # "upgrade" => ~open /\ view = disk
  BY DEF MigrationInv, TransactionInv
<1>1. CASE Start
  <2>1. /\ Identity(disk).kind \in Identities \ {"none"}
        /\ Identity(disk).kind = "fresh" => disk.version = NoRevision /\ ~HasSchema(disk)
    BY <1>a, IdentityFacts
  <2>2. /\ step' = "table" => Identity(disk).kind = "fresh"
        /\ step' = "backup" => Identity(disk).kind \in {"alembic", "recognized_legacy"}
        /\ step' \in {"stopped", "ready", "table", "backup"}
    BY <1>1, <2>1 DEF Start, Identities
  <2>3. HasSchema(view)' = HasSchema(disk) /\ Identity(disk)' = Identity(disk)
    BY <1>1 DEF Start, HasSchema, Identity, Recognized, InferLegacyRevision
  <2>4. QED
    BY <1>1, <2>1, <2>2, <2>3 DEF Start, IdentifiedInv
<1>2. ASSUME step' = AfterBackup, seen = Identity(disk),
             seen.kind \in {"alembic", "recognized_legacy"}, view = disk, at = 0,
             UNCHANGED <<disk, view, seen, at>>
      PROVE  IdentifiedInv'
  <2>1. /\ seen.kind = "recognized_legacy" =>
             /\ view.version = NoRevision
             /\ Recognized(view)
             /\ seen.revision = view.done
        /\ seen.kind = "recognized_legacy" => step' = "table"
        /\ seen.kind # "recognized_legacy" => step' = "upgrade"
    BY <1>a, <1>2, IdentityFacts DEF AfterBackup
  <2>2. Recognized(view)' = Recognized(view)
    BY <1>2 DEF Recognized
  <2>3. QED
    BY <1>2, <2>1, <2>2 DEF IdentifiedInv
<1>3. CASE Reuse
  <2>1. CASE Identity(backup) = seen
    BY <1>2, <1>3, <1>a, <1>b, <2>1 DEF Reuse, IdentifiedInv
  <2>2. CASE Identity(backup) # seen
    BY <1>3, <2>2 DEF Reuse, IdentifiedInv
  <2>3. QED
    BY <2>1, <2>2
<1>4. CASE Copy
  <2>1. Identity(disk)' = Identity(disk)
    BY <1>4 DEF Copy, HasSchema, Identity, Recognized, InferLegacyRevision
  <2>2. QED
    BY <1>4, <1>a, <2>1 DEF Copy, IdentifiedInv
<1>5. CASE Publish
  BY <1>2, <1>5, <1>a, <1>b DEF Publish, IdentifiedInv
<1>6. CASE EnsureVersionTable
  <2>1. /\ view.version' = view.version /\ view.done' = view.done
        /\ view.part' = view.part
    BY <1>6, <1>a, <1>b DEF EnsureVersionTable, Databases
  <2>2. Recognized(view)' = Recognized(view)
    BY <2>1 DEF Recognized
  <2>3. QED
    BY <1>6, <1>a, <2>1, <2>2 DEF EnsureVersionTable, IdentifiedInv
<1>7. CASE Stamp
  BY <1>7 DEF Stamp, IdentifiedInv
<1>8. CASE Statement \/ Skip \/ Record
  BY <1>8 DEF Statement, Skip, Record, IdentifiedInv
<1>9. CASE Commit \/ Stop
  BY <1>9 DEF Commit, Stop, IdentifiedInv
<1>10. CASE UNCHANGED vars
  BY <1>10, <1>a DEF vars, IdentifiedInv, HasSchema, Identity, Recognized, InferLegacyRevision
<1>11. QED
  BY <1>1, <1>3, <1>4, <1>5, <1>6, <1>7, <1>8, <1>9, <1>10 DEF Next

LEMMA UpgradeStep == MigrationInv /\ [Next]_vars => UpgradeInv'
<1> SUFFICES ASSUME MigrationInv, [Next]_vars PROVE UpgradeInv'
  OBVIOUS
<1>a. /\ disk \in Databases /\ view \in Databases /\ at \in Nat
      /\ Newest \in Nat \ {0} /\ NoRevision = 0 /\ UpgradeInv
  BY NewestAssumption DEF MigrationInv, MigrationTypes, NoRevision
<1>b. step # "upgrade" => ~open /\ view = disk
  BY DEF MigrationInv, TransactionInv
<1>c. view' = view => Running' = Running
  BY DEF Running
<1>d. ASSUME Recorded(disk'), Upgradable(view'), at' = 0, step' = "upgrade"
      PROVE  UpgradeInv'
  <2>1. view'.version < Newest => Running' \in 1 .. Newest
    BY <1>a, <1>d DEF Upgradable, Running
  <2>2. view'.version < Newest => Len(Kinds[Running']) \in Nat \ {0}
    BY <2>1, StatementCounts
  <2>3. QED
    BY <1>d, <2>2 DEF UpgradeInv, Recorded, Upgradable, Running
<1>1. CASE Start
  <2>1. Identity(disk).kind = "alembic" => Identity(disk).revision = disk.version
    BY <1>a, IdentityFacts
  <2>2. step' = "ready" => disk.version = Newest
    BY <1>1, <2>1 DEF Start
  <2>3. step' # "upgrade"
    BY <1>1 DEF Start
  <2>4. disk.version = Newest => disk.done = Newest /\ disk.part = 0
    BY <1>a DEF UpgradeInv, Recorded, Databases
  <2>5. QED
    BY <1>1, <1>a, <2>2, <2>3, <2>4 DEF Start, UpgradeInv, Recorded
<1>2. ASSUME step' \in {AfterBackup, "stopped"}, step \in {"backup", "publish"},
             UNCHANGED <<disk, view, seen, at>>
      PROVE  UpgradeInv'
  <2>1. seen = Identity(disk) /\ at = 0 /\ view = disk
    BY <1>2, <1>b DEF MigrationInv, IdentifiedInv
  <2>2. CASE step' = "upgrade"
    <3>1. disk.version \in 1 .. Newest
      BY <1>2, <1>a, <2>1, <2>2, IdentityFacts DEF AfterBackup
    <3>2. Upgradable(view) /\ Recorded(disk)
      BY <1>a, <2>1, <3>1 DEF UpgradeInv, Recorded, Upgradable, Databases
    <3>3. QED
      BY <1>2, <1>d, <2>1, <2>2, <3>2
  <2>3. CASE step' # "upgrade"
    BY <1>2, <1>a, <2>3 DEF AfterBackup, UpgradeInv, Recorded
  <2>4. QED
    BY <2>2, <2>3
<1>3. CASE Reuse
  BY <1>2, <1>3 DEF Reuse
<1>4. CASE Copy
  BY <1>4, <1>a DEF Copy, UpgradeInv, Recorded
<1>5. CASE Publish
  BY <1>2, <1>5 DEF Publish
<1>6. CASE EnsureVersionTable
  <2>1. /\ disk'.version = disk.version /\ disk'.done = disk.done /\ disk'.part = disk.part
        /\ view'.version = view.version /\ view'.done = view.done /\ view'.part = view.part
    BY <1>6, <1>a DEF EnsureVersionTable, Databases
  <2>2. Recorded(disk')
    BY <1>a, <2>1 DEF UpgradeInv, Recorded
  <2>3. CASE seen.kind = "fresh"
    <3>1. view.version = 0 /\ ~HasSchema(view) /\ at = 0
      BY <1>6, <1>a, <2>3 DEF EnsureVersionTable, MigrationInv, IdentifiedInv
    <3>2. Upgradable(view')
      BY <1>a, <2>1, <3>1 DEF Upgradable, HasSchema, Databases
    <3>3. QED
      BY <1>6, <1>d, <2>2, <2>3, <3>1, <3>2 DEF EnsureVersionTable
  <2>4. CASE seen.kind # "fresh"
    BY <1>6, <2>2, <2>4 DEF EnsureVersionTable, UpgradeInv, Recorded
  <2>5. QED
    BY <2>3, <2>4
<1>7. CASE Stamp
  <2>1. /\ seen.revision = view.done /\ Recognized(view) /\ at = 0
    BY <1>7 DEF Stamp, MigrationInv, IdentifiedInv
  <2>2. /\ view'.version = view.done /\ view'.done = view.done /\ view'.part = 0
    BY <1>7, <1>a, <2>1 DEF Stamp, Databases, Recognized
  <2>3. Upgradable(view')
    BY <1>a, <2>1, <2>2, LegacyAssumption DEF Upgradable, Recognized
  <2>4. QED
    BY <1>7, <1>a, <1>d, <2>1, <2>3 DEF Stamp, UpgradeInv
<1>8. CASE Statement
  <2>1. Upgradable(view)
    BY <1>8, <1>a DEF Statement, UpgradeInv
  <2>2. /\ Recorded(Advanced(view)) /\ Upgradable(Advanced(view))
        /\ Advanced(view).version = view.version
        /\ at + 1 = Len(Kinds[Running]) => Advanced(view).done = Running
    BY <1>8, <1>a, <2>1, AdvancedFacts DEF Statement
  <2>3. disk' \in {disk, Advanced(view)}
    BY <1>8 DEF Statement, MigrationInv, TransactionInv
  <2>4. Recorded(disk') /\ Upgradable(view')
    BY <1>8, <1>a, <2>2, <2>3 DEF Statement, UpgradeInv
  <2>5. Running' = Running /\ at' = at + 1 /\ step' = "upgrade"
    BY <1>8, <2>2 DEF Statement, Running
  <2>6. Running \in 1 .. Newest /\ Len(Kinds[Running]) \in Nat
    BY <1>8, <1>a, <2>1, StatementCounts DEF Statement, Running, Upgradable
  <2>7. /\ at' <= Len(Kinds[Running'])
        /\ at' = Len(Kinds[Running']) => view'.done >= Running'
    BY <1>8, <1>a, <2>2, <2>5, <2>6 DEF Statement
  <2>8. QED
    BY <2>4, <2>5, <2>7 DEF UpgradeInv, Recorded, Upgradable, Running
<1>9. CASE Skip
  <2>1. Upgradable(view)
    BY <1>9, <1>a DEF Skip, UpgradeInv
  <2>2. Running \in 1 .. Newest /\ Len(Kinds[Running]) \in Nat
    BY <1>9, <1>a, <2>1, StatementCounts DEF Skip, Running, Upgradable
  <2>3. QED
    BY <1>9, <1>a, <1>c, <2>1, <2>2 DEF Skip, UpgradeInv, Recorded, Upgradable, Running
<1>10. CASE Record
  <2>1. Upgradable(view) /\ view.done >= Running
    BY <1>10, <1>a DEF Record, UpgradeInv
  <2>2. /\ view'.version = Running /\ view'.done = view.done /\ view'.part = view.part
    BY <1>10, <1>a DEF Record, Databases
  <2>3. Upgradable(view')
    BY <1>10, <1>a, <2>1, <2>2 DEF Record, Upgradable, Running
  <2>4. QED
    BY <1>10, <1>a, <1>d, <2>3 DEF Record, UpgradeInv
<1>11. CASE Commit
  <2>1. Upgradable(view) /\ view.version = Newest
    BY <1>11, <1>a DEF Commit, UpgradeInv
  <2>2. disk'.version = Newest /\ disk'.done = Newest /\ disk'.part = 0
    BY <1>11, <1>a, <2>1 DEF Commit, Upgradable
  <2>3. QED
    BY <1>11, <1>a, <2>2 DEF Commit, UpgradeInv, Recorded
<1>12. CASE Stop
  BY <1>12, <1>a DEF Stop, UpgradeInv, Recorded
<1>13. CASE UNCHANGED vars
  BY <1>13, <1>a DEF vars, UpgradeInv, Recorded, Upgradable, Running
<1>14. QED
  BY <1>1, <1>3, <1>4, <1>5, <1>6, <1>7, <1>8, <1>9, <1>10, <1>11, <1>12, <1>13 DEF Next

(* The inductive invariant of a start, however many starts failed before.  *)
THEOREM MigrationInvariance == Spec => []MigrationInv
<1>1. Init => MigrationInv
  BY MigrationInit
<1>2. MigrationInv /\ [Next]_vars => MigrationInv'
  <2>1. SUFFICES ASSUME MigrationInv, [Next]_vars PROVE MigrationInv'
    OBVIOUS
  <2>2. MigrationTypes' /\ TransactionInv' /\ BackupInv' /\ IdentifiedInv' /\ UpgradeInv'
    BY <2>1, TypesStep, TransactionStep, BackupStep, IdentifiedStep, UpgradeStep
  <2>3. QED
    BY <2>2 DEF MigrationInv
<1>3. QED
  BY <1>1, <1>2, PTL DEF Spec

-----------------------------------------------------------------------------
(* The theorems.                                                           *)

(* migrate_database: whatever the revisions are, and wherever starts fail, *)
(* the database of before the first change is in the canonical backup, and *)
(* a schema that was not recognized is untouched.                          *)
THEOREM BackupIsKept == Spec => []BackupProtects
<1>1. MigrationInv => BackupProtects
  BY DEF MigrationInv, BackupInv, Protected, BackupProtects
<1>2. QED
  BY <1>1, MigrationInvariance, PTL

(* migrate_database: requests are served over the complete schema only,    *)
(* and the recorded revision is applied.                                   *)
THEOREM CompleteSchemaServed == Spec => []NeverServesPartialSchema
<1>1. MigrationInv => NeverServesPartialSchema
  BY DEF MigrationInv, UpgradeInv, Recorded, NeverServesPartialSchema
<1>2. QED
  BY <1>1, MigrationInvariance, PTL

-----------------------------------------------------------------------------
(* Configuration.                                                          *)

(* Laying settings over others is associative.                             *)
LEMMA OverOver ==
  ASSUME NEW f, NEW g, NEW h
  PROVE  Over(Over(f, g), h) = Over(f, Over(g, h))
BY DEF Over

LEMMA OverNothing ==
  ASSUME NEW f, NEW S, NEW T, f \in [S -> T]
  PROVE  Over(NoSettings, f) = f
BY DEF Over, NoSettings

(* What the file and the defaults give: what a restart will find.          *)
Saved == Over(file, Default)

Agrees(but) ==
  \A s \in DOMAIN environment \ but : s \in DOMAIN file /\ environment[s] = file[s]

FullSettings == [SettingNames -> SUBSET JiraStatuses]
SomeSettings == UNION {[S -> SUBSET JiraStatuses] : S \in SUBSET SettingNames}

RequestSteps == {"idle", "loading", "read", "replace", "apply", "clear"}
ConfigurationTypes ==
  /\ DOMAIN request = Requests
  /\ \A r \in Requests : /\ DOMAIN request[r] = {"step", "values", "text"}
                         /\ request[r].step \in RequestSteps

(* What a request that is served alone has seen and done so far.           *)
RequestAt(r) ==
  /\ request[r].step = "loading" =>
       Agrees({}) /\ cache \in {Unset, Saved} /\ request[r].values = Saved
  /\ request[r].step \in {"read", "replace"} =>
       /\ Agrees({}) /\ cache = Saved
       /\ request[r].values \in Updates
       /\ Valid(Over(request[r].values, Saved))
  /\ request[r].step = "replace" => request[r].text = file
  /\ request[r].step = "apply" =>
       /\ Agrees(DOMAIN request[r].values)
       /\ \A s \in DOMAIN request[r].values :
            s \in DOMAIN file /\ request[r].values[s] = file[s]
  /\ request[r].step = "clear" => Agrees({})

SavedInv ==
  /\ running
  /\ file \in SomeSettings
  /\ DOMAIN environment \subseteq SettingNames
  /\ Valid(Saved)
  /\ \A q, r \in Busy : q = r
  /\ Busy = {} => Agrees({}) /\ cache \in {Unset, Saved}
  /\ \A r \in Requests : RequestAt(r)

ConfigurationInv ==
  /\ ConfigurationTypes
  /\ overlapped \in BOOLEAN
  /\ ~overlapped /\ Deployed = NoSettings => SavedInv

LEMMA SavedIsFull ==
  ASSUME file \in SomeSettings
  PROVE  /\ Saved \in FullSettings
         /\ Saved # Unset
         /\ DOMAIN file \subseteq SettingNames
<1>1. PICK S \in SUBSET SettingNames : file \in [S -> SUBSET JiraStatuses]
  BY DEF SomeSettings
<1>2. Saved \in FullSettings
  BY <1>1, DefaultAssumption DEF Saved, Over, FullSettings
<1> QED
  BY <1>1, <1>2, UnsetAssumption DEF FullSettings

(* An environment that agrees with the file adds nothing to it.            *)
LEMMA AgreementShowsSaved ==
  ASSUME file \in SomeSettings, Agrees({})
  PROVE  Effective = Saved
<1>1. Saved \in FullSettings
  BY SavedIsFull
<1>2. DOMAIN environment \subseteq SettingNames
  BY SavedIsFull DEF Agrees
<1>3. \A s \in DOMAIN environment : environment[s] = Saved[s]
  BY DEF Agrees, Saved, Over
<1> DEFINE saved == Saved
<1>4. Over(environment, saved) = saved
  <2> HIDE DEF saved
  <2>1. DOMAIN Over(environment, saved) = SettingNames
    BY <1>1, <1>2 DEF Over, FullSettings, saved
  <2>2. \A s \in SettingNames : Over(environment, saved)[s] = saved[s]
    BY <1>1, <1>2, <1>3 DEF Over, FullSettings, saved
  <2>3. Over(environment, saved) = [s \in SettingNames |-> Over(environment, saved)[s]]
    BY <2>1 DEF Over
  <2>4. saved = [s \in SettingNames |-> saved[s]]
    BY <1>1 DEF FullSettings, saved
  <2> QED
    BY <2>2, <2>3, <2>4
<1> QED
  BY <1>4 DEF Effective, Saved

LEMMA SavedCached ==
  ASSUME file \in SomeSettings, Agrees({}), cache \in {Unset, Saved}
  PROVE  Cached = Saved
BY AgreementShowsSaved DEF Cached

-----------------------------------------------------------------------------
(* A request changes: nothing else does, and it was the only one.          *)
Served(r) == \A q \in Requests \ {r} : request'[q] = request[q] /\ request[q].step = "idle"

LEMMA ConfigurationStarts ==
  ConfigurationInit => ConfigurationInv
<1> SUFFICES ASSUME ConfigurationInit
             PROVE  ConfigurationInv
  OBVIOUS
<1> USE DEF ConfigurationInit, Idle
<1>1. ConfigurationTypes
  BY DEF ConfigurationTypes, RequestSteps
<1>2. ASSUME Deployed = NoSettings
      PROVE  SavedInv
  <2>1. file \in SomeSettings
    BY DEF NoSettings, SomeSettings
  <2>2. Agrees({}) /\ DOMAIN environment = {}
    BY <1>2 DEF Agrees, NoSettings
  <2>3. Valid(Saved)
    BY OverNothing, DefaultAssumption DEF Saved
  <2>4. Busy = {} /\ \A r \in Requests : RequestAt(r)
    BY DEF Busy, RequestAt
  <2> QED
    BY <2>1, <2>2, <2>3, <2>4 DEF SavedInv
<1> QED
  BY <1>1, <1>2 DEF ConfigurationInv

(* Every action keeps the form of the requests.                            *)
LEMMA ConfigurationForms ==
  ASSUME ConfigurationTypes, overlapped \in BOOLEAN, ConfigurationNext
  PROVE  ConfigurationTypes' /\ overlapped' \in BOOLEAN
<1> USE DEF ConfigurationTypes, RequestSteps, Idle
<1>1. ASSUME NEW r \in Requests, LoadSettings(r)
      PROVE  ConfigurationTypes' /\ overlapped' \in BOOLEAN
  BY <1>1 DEF LoadSettings, Begins
<1>2. ASSUME NEW r \in Requests, KeepSettings(r)
      PROVE  ConfigurationTypes' /\ overlapped' \in BOOLEAN
  BY <1>2 DEF KeepSettings
<1>3. ASSUME NEW r \in Requests, Begin(r)
      PROVE  ConfigurationTypes' /\ overlapped' \in BOOLEAN
  BY <1>3 DEF Begin, Begins
<1>4. ASSUME NEW r \in Requests, ReadFile(r)
      PROVE  ConfigurationTypes' /\ overlapped' \in BOOLEAN
  BY <1>4 DEF ReadFile
<1>5. ASSUME NEW r \in Requests, Replace(r)
      PROVE  ConfigurationTypes' /\ overlapped' \in BOOLEAN
  BY <1>5 DEF Replace
<1>6. ASSUME NEW r \in Requests, Apply(r)
      PROVE  ConfigurationTypes' /\ overlapped' \in BOOLEAN
  BY <1>6 DEF Apply
<1>7. ASSUME NEW r \in Requests, Clear(r)
      PROVE  ConfigurationTypes' /\ overlapped' \in BOOLEAN
  BY <1>7 DEF Clear
<1>8. ASSUME Restart
      PROVE  ConfigurationTypes' /\ overlapped' \in BOOLEAN
  BY <1>8 DEF Restart
<1> QED
  BY <1>1, <1>2, <1>3, <1>4, <1>5, <1>6, <1>7, <1>8 DEF ConfigurationNext

(* The request that is served takes a step, and nobody else does.          *)
LEMMA OneIsServed ==
  ASSUME ConfigurationTypes, SavedInv, NEW r \in Requests, NEW next,
         request[r].step # "idle" \/ Busy = {},
         request' = [request EXCEPT ![r] = next]
  PROVE  /\ request'[r] = next
         /\ Served(r)
         /\ Busy' \subseteq {r}
         /\ (Busy' = {}) <=> (next.step = "idle")
BY DEF ConfigurationTypes, SavedInv, Served, Busy

(* So the invariant has to be shown of that request alone.                 *)
LEMMA OneIsEnough ==
  ASSUME ConfigurationTypes, NEW r \in Requests, Served(r), Busy' \subseteq {r},
         running', file' \in SomeSettings, DOMAIN environment' \subseteq SettingNames,
         Valid(Saved)', RequestAt(r)',
         request'[r].step = "idle" => (Agrees({}) /\ cache \in {Unset, Saved})'
  PROVE  SavedInv'
<1>1. \A q \in Requests \ {r} : RequestAt(q)'
  BY DEF Served, RequestAt
<1>2. \A p, q \in Busy' : p = q
  OBVIOUS
<1>3. Busy' = {} => request'[r].step = "idle"
  BY DEF Busy
<1> QED
  BY <1>1, <1>2, <1>3 DEF SavedInv

-----------------------------------------------------------------------------
(* A request begins alone, or overlapped becomes true.                     *)
LEMMA BeginsAlone ==
  ASSUME ConfigurationTypes, overlapped \in BOOLEAN, NEW r \in Requests, NEW next,
         Begins(r, next), ~overlapped'
  PROVE  /\ ~overlapped /\ Busy = {}
         /\ request' = [request EXCEPT ![r] = next]
BY DEF Begins

LEMMA KeepsSavedByLoad ==
  ASSUME ConfigurationTypes, SavedInv, NEW r \in Requests, LoadSettings(r),
         overlapped \in BOOLEAN, ~overlapped'
  PROVE  SavedInv'
<1> DEFINE next == [Idle EXCEPT !.step = "loading", !.values = Effective]
<1>1. Busy = {} /\ request' = [request EXCEPT ![r] = next]
  BY BeginsAlone DEF LoadSettings
<1>2. next.step = "loading" /\ next.values = Effective
  BY DEF Idle
<1>3. request'[r] = next /\ Served(r) /\ Busy' \subseteq {r}
  <2> HIDE DEF next
  <2> QED
    BY <1>1, OneIsServed
<1>4. Agrees({}) /\ Effective = Saved /\ cache = Unset
  BY <1>1, AgreementShowsSaved DEF SavedInv, LoadSettings
<1>5. UNCHANGED <<file, environment, cache, running>>
  BY DEF LoadSettings
<1>6. RequestAt(r)'
  <2> HIDE DEF next
  <2> QED
    BY <1>2, <1>3, <1>4, <1>5 DEF RequestAt, Agrees, Saved
<1>7. request'[r].step # "idle"
  <2> HIDE DEF next
  <2> QED
    BY <1>2, <1>3
<1> QED
  BY <1>3, <1>5, <1>6, <1>7, OneIsEnough DEF SavedInv, Saved

LEMMA KeepsSavedByKeep ==
  ASSUME ConfigurationTypes, SavedInv, NEW r \in Requests, KeepSettings(r)
  PROVE  SavedInv'
<1>1. request'[r] = Idle /\ Served(r) /\ Busy' \subseteq {r}
  BY OneIsServed DEF KeepSettings
<1>2. UNCHANGED <<file, environment, running>>
  BY DEF KeepSettings
<1>3. Agrees({}) /\ cache' \in {Unset, Saved}
  BY DEF KeepSettings, SavedInv, RequestAt
<1>4. RequestAt(r)' /\ (Agrees({}) /\ cache \in {Unset, Saved})'
  BY <1>1, <1>2, <1>3 DEF RequestAt, Idle, Agrees, Saved
<1> QED
  BY <1>1, <1>2, <1>4, OneIsEnough DEF SavedInv, Saved

LEMMA KeepsSavedByBegin ==
  ASSUME ConfigurationTypes, SavedInv, NEW r \in Requests, Begin(r),
         overlapped \in BOOLEAN, ~overlapped'
  PROVE  SavedInv'
<1>1. PICK values \in Updates :
        /\ Valid(Over(values, Cached))
        /\ Begins(r, [Idle EXCEPT !.step = "read", !.values = values])
  BY DEF Begin
<1> DEFINE next == [Idle EXCEPT !.step = "read", !.values = values]
<1>2. Busy = {} /\ request' = [request EXCEPT ![r] = next]
  BY <1>1, BeginsAlone
<1>3. next.step = "read" /\ next.values = values
  BY DEF Idle
<1>4. request'[r] = next /\ Served(r) /\ Busy' \subseteq {r}
  <2> HIDE DEF next
  <2> QED
    BY <1>2, OneIsServed
<1>5. Agrees({}) /\ Cached = Saved
  BY <1>2, SavedCached DEF SavedInv
<1>6. cache' = Saved /\ UNCHANGED <<file, environment, running>>
  BY <1>5 DEF Begin
<1>7. RequestAt(r)' /\ request'[r].step # "idle"
  <2> HIDE DEF next
  <2> QED
    BY <1>1, <1>3, <1>4, <1>5, <1>6 DEF RequestAt, Agrees, Saved
<1> QED
  BY <1>4, <1>6, <1>7, OneIsEnough DEF SavedInv, Saved

LEMMA KeepsSavedByReadFile ==
  ASSUME ConfigurationTypes, SavedInv, NEW r \in Requests, ReadFile(r)
  PROVE  SavedInv'
<1> DEFINE next == [request[r] EXCEPT !.step = "replace", !.text = file]
<1>1. request' = [request EXCEPT ![r] = next] /\ request[r].step = "read"
  BY DEF ReadFile
<1>2. next.step = "replace" /\ next.text = file /\ next.values = request[r].values
  BY DEF ConfigurationTypes
<1>3. request'[r] = next /\ Served(r) /\ Busy' \subseteq {r}
  <2> HIDE DEF next
  <2> QED
    BY <1>1, OneIsServed
<1>4. UNCHANGED <<file, environment, cache, running>>
  BY DEF ReadFile
<1>5. RequestAt(r)' /\ request'[r].step # "idle"
  <2> HIDE DEF next
  <2>1. RequestAt(r)
    BY DEF SavedInv
  <2> QED
    BY <2>1, <1>1, <1>2, <1>3, <1>4 DEF RequestAt, Agrees, Saved
<1> QED
  BY <1>3, <1>4, <1>5, OneIsEnough DEF SavedInv, Saved

LEMMA KeepsSavedByReplace ==
  ASSUME ConfigurationTypes, SavedInv, NEW r \in Requests, Replace(r)
  PROVE  SavedInv'
<1> DEFINE values == request[r].values
           next == [request[r] EXCEPT !.step = "apply"]
<1>1. request' = [request EXCEPT ![r] = next] /\ request[r].step = "replace"
  BY DEF Replace
<1>2. next.step = "apply" /\ next.values = values
  BY DEF ConfigurationTypes
<1>3. request'[r] = next /\ Served(r) /\ Busy' \subseteq {r}
  <2> HIDE DEF next
  <2> QED
    BY <1>1, OneIsServed
<1>4. /\ Agrees({}) /\ values \in Updates /\ Valid(Over(values, Saved))
      /\ request[r].text = file
  BY <1>1 DEF SavedInv, RequestAt
<1>5. file' = Over(values, file) /\ UNCHANGED <<environment, cache, running>>
  BY <1>4 DEF Replace
<1>6. Saved' = Over(values, Saved)
  BY <1>5, OverOver DEF Saved
<1>7. file' \in SomeSettings
  <2> HIDE DEF values
  <2>1. PICK S \in SUBSET SettingNames : file \in [S -> SUBSET JiraStatuses]
    BY DEF SavedInv, SomeSettings
  <2>2. PICK T \in SUBSET SettingNames : values \in [T -> SUBSET JiraStatuses]
    BY <1>4 DEF Updates
  <2>3. file' \in [S \cup T -> SUBSET JiraStatuses]
    BY <2>1, <2>2, <1>5 DEF Over
  <2> QED
    BY <2>3 DEF SomeSettings
<1>8. \A s \in DOMAIN values : s \in DOMAIN file' /\ file'[s] = values[s]
  <2> HIDE DEF values
  <2> QED
    BY <1>5 DEF Over
<1>9. \A s \in DOMAIN environment \ DOMAIN values :
        s \in DOMAIN file' /\ file'[s] = environment[s]
  <2> HIDE DEF values
  <2> QED
    BY <1>4, <1>5 DEF Over, Agrees
<1>10. RequestAt(r)' /\ request'[r].step # "idle"
  <2> HIDE DEF next, values
  <2> QED
    BY <1>2, <1>3, <1>5, <1>8, <1>9 DEF RequestAt, Agrees
<1> HIDE DEF next, values
<1> QED
  BY <1>3, <1>4, <1>5, <1>6, <1>7, <1>10, OneIsEnough DEF SavedInv

LEMMA KeepsSavedByApply ==
  ASSUME ConfigurationTypes, SavedInv, NEW r \in Requests, Apply(r)
  PROVE  SavedInv'
<1> DEFINE values == request[r].values
<1>1. PICK s \in DOMAIN values :
        /\ environment' = Over([q \in {s} |-> values[s]], environment)
        /\ request' = [request EXCEPT
             ![r].values = [q \in DOMAIN @ \ {s} |-> @[q]],
             ![r].step = IF DOMAIN values = {s} THEN "clear" ELSE "apply"]
  BY DEF Apply
<1> DEFINE next == [request[r] EXCEPT
                      !.values = [q \in DOMAIN @ \ {s} |-> @[q]],
                      !.step = IF DOMAIN values = {s} THEN "clear" ELSE "apply"]
<1>2. request[r].step = "apply" /\ UNCHANGED <<file, cache, running>>
  BY DEF Apply
<1>3. request' = [request EXCEPT ![r] = next]
  BY <1>1 DEF ConfigurationTypes
<1>4. /\ next.values = [q \in DOMAIN values \ {s} |-> values[q]]
      /\ next.step = IF DOMAIN values = {s} THEN "clear" ELSE "apply"
  BY DEF ConfigurationTypes
<1>5. request'[r] = next /\ Served(r) /\ Busy' \subseteq {r}
  <2> HIDE DEF next
  <2> QED
    BY <1>2, <1>3, OneIsServed
<1> HIDE DEF next
<1>6. /\ Agrees(DOMAIN values)
      /\ \A q \in DOMAIN values : q \in DOMAIN file /\ values[q] = file[q]
  BY <1>2 DEF SavedInv, RequestAt
<1> HIDE DEF values
<1>7. /\ DOMAIN environment' = {s} \cup DOMAIN environment
      /\ environment'[s] = values[s]
      /\ \A q \in DOMAIN environment \ {s} : environment'[q] = environment[q]
  BY <1>1 DEF Over
<1>8. \A q \in DOMAIN environment' \ (DOMAIN values \ {s}) :
        q \in DOMAIN file /\ environment'[q] = file[q]
  BY <1>1, <1>6, <1>7 DEF Agrees
<1>9. DOMAIN next.values = DOMAIN values \ {s}
      /\ \A q \in DOMAIN next.values : next.values[q] = values[q]
  BY <1>4
<1>10. RequestAt(r)'
  <2>1. CASE DOMAIN values = {s}
    <3>1. Agrees({})'
      BY <2>1, <1>2, <1>8 DEF Agrees
    <3> QED
      BY <2>1, <3>1, <1>4, <1>5 DEF RequestAt
  <2>2. CASE DOMAIN values # {s}
    <3>1. request'[r].step = "apply" /\ request'[r].values = next.values
      BY <2>2, <1>4, <1>5
    <3>2. \A q \in DOMAIN environment' \ DOMAIN next.values :
            q \in DOMAIN file' /\ environment'[q] = file'[q]
      BY <1>2, <1>8, <1>9
    <3>3. \A q \in DOMAIN next.values : q \in DOMAIN file' /\ next.values[q] = file'[q]
      BY <1>2, <1>6, <1>9
    <3> QED
      BY <3>1, <3>2, <3>3 DEF RequestAt, Agrees
  <2> QED
    BY <2>1, <2>2
<1>11. request'[r].step # "idle"
  BY <1>4, <1>5
<1>12. DOMAIN environment' \subseteq SettingNames
  BY <1>1, <1>6, <1>7, SavedIsFull DEF SavedInv
<1> QED
  BY <1>2, <1>5, <1>10, <1>11, <1>12, OneIsEnough DEF SavedInv, Saved

LEMMA KeepsSavedByClear ==
  ASSUME ConfigurationTypes, SavedInv, NEW r \in Requests, Clear(r)
  PROVE  SavedInv'
<1> DEFINE next == [Idle EXCEPT !.step = "loading", !.values = Effective]
<1>1. /\ request[r].step = "clear" /\ cache' = Unset
      /\ request' = [request EXCEPT ![r] = next]
      /\ UNCHANGED <<file, environment, running>>
  BY DEF Clear
<1>2. next.step = "loading" /\ next.values = Effective
  BY DEF Idle
<1>3. Agrees({}) /\ Effective = Saved
  BY <1>1, AgreementShowsSaved DEF SavedInv, RequestAt
<1> HIDE DEF next
<1>4. request'[r] = next /\ Served(r) /\ Busy' \subseteq {r}
  BY <1>1, OneIsServed
<1>5. RequestAt(r)' /\ request'[r].step # "idle"
  BY <1>1, <1>2, <1>3, <1>4 DEF RequestAt, Agrees, Saved
<1> QED
  BY <1>1, <1>4, <1>5, OneIsEnough DEF SavedInv, Saved

LEMMA KeepsSavedByRestart ==
  ASSUME SavedInv, Deployed = NoSettings, Restart
  PROVE  SavedInv'
<1>1. Saved \in FullSettings
  BY SavedIsFull DEF SavedInv
<1>2. Over(Deployed, Saved) = Saved
  BY <1>1, OverNothing DEF FullSettings
<1>3. cache' = Saved /\ environment' = NoSettings /\ file' = file /\ Saved' = Saved
  BY <1>2 DEF Restart, Saved
<1>4. running' /\ Valid(Saved)'
  BY <1>2, <1>3 DEF Restart, SavedInv, Saved
<1>5. Agrees({})' /\ DOMAIN environment' = {}
  BY <1>3 DEF Agrees, NoSettings
<1>6. Busy' = {} /\ \A r \in Requests : request'[r].step = "idle"
  BY DEF Restart, Busy, Idle
<1>7. \A r \in Requests : RequestAt(r)'
  BY <1>6 DEF RequestAt
<1> QED
  BY <1>3, <1>4, <1>5, <1>6, <1>7 DEF SavedInv

LEMMA ConfigurationInvStep ==
  ASSUME ConfigurationInv, [ConfigurationNext]_configurationVars
  PROVE  ConfigurationInv'
<1>1. CASE UNCHANGED configurationVars
  BY <1>1 DEF configurationVars, ConfigurationInv, ConfigurationTypes, SavedInv, RequestAt,
              Agrees, Saved, Busy
<1>2. CASE ConfigurationNext
  <2>1. ConfigurationTypes' /\ overlapped' \in BOOLEAN
    BY <1>2, ConfigurationForms DEF ConfigurationInv
  <2>2. overlapped => overlapped'
    BY <1>2 DEF ConfigurationNext, LoadSettings, KeepSettings, Begin, ReadFile, Replace, Apply,
                Clear, Restart, Begins
  <2>3. ASSUME ~overlapped', Deployed = NoSettings
        PROVE  SavedInv'
    BY <1>2, <2>2, <2>3, KeepsSavedByLoad, KeepsSavedByKeep, KeepsSavedByBegin,
       KeepsSavedByReadFile, KeepsSavedByReplace, KeepsSavedByApply, KeepsSavedByClear,
       KeepsSavedByRestart DEF ConfigurationNext, ConfigurationInv
  <2> QED
    BY <2>1, <2>3 DEF ConfigurationInv
<1> QED
  BY <1>1, <1>2

(* What the requests see of the settings, whatever they do.                *)
THEOREM SettingsStayReadable == ConfigurationSpec => []ConfigurationInv
BY ConfigurationStarts, ConfigurationInvStep, PTL DEF ConfigurationSpec

(* An accepted configuration is in use, is saved and lets the backend      *)
(* start, whatever the settings, for any number of requests and restarts   *)
(* between any two of the steps of a save.                                 *)
THEOREM AcceptedConfigurationIsSaved == ConfigurationSpec => []AcceptedConfigurationStarts
<1>1. ConfigurationInv => AcceptedConfigurationStarts
  BY SavedCached DEF ConfigurationInv, SavedInv, AcceptedConfigurationStarts, Saved
<1> QED
  BY <1>1, SettingsStayReadable, PTL

=============================================================================
