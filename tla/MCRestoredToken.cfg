SPECIFICATION Spec
CONSTANTS
  db = db
  wal = wal
  env = env
  token = token
  logs = logs
  empty = empty
  old = old
  new = new
  work = work
  plain = plain
  stripped = stripped
  secret = secret
  absent = absent
  Database = db
  Companions <- MCNoCompanions
  Config = env
  Token = token
  Logs = logs
  Contents <- MCContents
  Empty = empty
  Absent = absent
  Plaintext <- MCPlaintext
  Stripped = stripped
  Encrypted = secret
  Backups <- MCBareBackups
  Work <- MCWork
  InitialFiles <- MCWithoutToken
  MaxFaults = 1
  MaxOperations = 1
PROPERTY
  RollbackKeepsOtherFiles
