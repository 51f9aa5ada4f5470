SPECIFICATION Spec
CONSTANTS
  db = db
  wal = wal
  env = env
  token = token
  logs = logs
  empty = empty
  old = old
  new = new
  work = work
  plain = plain
  stripped = stripped
  secret = secret
  absent = absent
  Database = db
  Companions <- MCCompanions
  Config = env
  Token = token
  Logs = logs
  Contents <- MCContents
  Empty = empty
  Absent = absent
  Plaintext <- MCPlaintext
  Stripped = stripped
  Encrypted = secret
  Backups <- MCBothBackups
  Work <- MCWork
  InitialFiles <- MCInitialFiles
  MaxFaults = 2
  MaxOperations = 1
INVARIANTS
  TypeOK
  NeverServesMixedState
  OpenWorkspaceIsServed
PROPERTIES
  RollbackIsExact
  TruthfulReport
  ImplementsAtomicStorage
