------------------------ MODULE MCStorageTransaction ------------------------
(***************************************************************************)
(* Small instances of StorageTransaction for TLC: one SQLite companion,    *)
(* two files' worth of user data, two backups.                             *)
(***************************************************************************)
EXTENDS StorageTransaction, TLC

CONSTANTS db, wal, env, token, logs, empty, old, new, work, plain, stripped,
          secret, absent

MCCompanions == {wal}
MCContents == {empty, old, new, work, plain, stripped, secret}
MCPlaintext == {plain}
MCWork == {work}

(* A backup of the database and the configuration, without the token; one  *)
(* of the configuration and the token, which the former still holds too;   *)
(* and one of a configuration that holds its token alone.                  *)
MCBackups == {(db :> new) @@ (env :> new)}
MCBothBackups == MCBackups \cup {(env :> plain) @@ (token :> new)}
MCBareBackups == {env :> plain}

(* Enough for the runs about startup: the database without its companions, *)
(* on an installation in use.                                              *)
MCNoCompanions == {}
MCInUse == {[p \in Paths |-> old]}

(* An installation in use, and one that was never started beside a         *)
(* configuration with a token in plain text.                               *)
MCInitialFiles ==
  {[p \in Paths |-> IF p = wal THEN absent ELSE old],
   [p \in Paths |-> IF p = env THEN plain ELSE absent]}

(* An installation in use that has no token yet.                           *)
MCWithoutToken ==
  {[p \in Paths |-> IF p = token THEN absent ELSE old]}

=============================================================================
