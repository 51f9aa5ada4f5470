SPECIFICATION FairSpec
CONSTANTS
  db = db
  wal = wal
  env = env
  token = token
  logs = logs
  empty = empty
  old = old
  new = new
  work = work
  plain = plain
  stripped = stripped
  secret = secret
  absent = absent
  Database = db
  Companions <- MCNoCompanions
  Config = env
  Token = token
  Logs = logs
  Contents <- MCContents
  Empty = empty
  Absent = absent
  Plaintext <- MCPlaintext
  Stripped = stripped
  Encrypted = secret
  Backups <- MCBackups
  Work <- MCWork
  InitialFiles <- MCInUse
  MaxFaults = 2
  MaxOperations = 2
PROPERTIES
  RecoveryHeals
