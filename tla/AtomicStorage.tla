---------------------------- MODULE AtomicStorage ---------------------------
(***************************************************************************)
(* What the transactional storage operations promise, without journals,    *)
(* crashes or rollbacks: the stored workspace is replaced by the outcome   *)
(* of a requested operation in one step, or not at all. Backend-owned      *)
(* files may also change because a backend served them, and the others by  *)
(* a user's own edit while no operation is requested.                      *)
(***************************************************************************)
EXTENDS StoragePlans

VARIABLES
  store,      \* the content a restart of the application comes back to
  requested   \* the operation under way, or NoOperation

Init ==
  /\ store \in [Paths -> Values]
  /\ requested = NoOperation

Request ==
  /\ requested = NoOperation
  /\ requested' \in Operations
  /\ UNCHANGED store

(* The operation takes effect on every file it declared, and the outcome   *)
(* passes the operation's own verification.                                *)
Commit ==
  /\ requested # NoOperation
  /\ requested' = NoOperation
  /\ store' \in [Paths -> Values]
  /\ Verified(requested, store')
  /\ \A p \in SettledPaths :
       store'[p] = IF p \in requested.scope THEN requested.goal[p] ELSE store[p]

(* The operation is abandoned: every settled file is what it was.          *)
Abandon ==
  /\ requested # NoOperation
  /\ requested' = NoOperation
  /\ UNCHANGED store

(* A backend writes its files; a requested operation has its own files     *)
(* to itself.                                                              *)
Serve ==
  /\ store' \in [Paths -> Values]
  /\ \A p \in SettledPaths \cup requested.scope : store'[p] = store[p]
  /\ UNCHANGED requested

Edit ==
  /\ requested = NoOperation
  /\ \E p \in SettledPaths, c \in Contents : store' = [store EXCEPT ![p] = c]
  /\ UNCHANGED requested

Next == Request \/ Commit \/ Abandon \/ Serve \/ Edit

Spec == Init /\ [][Next]_<<store, requested>>

=============================================================================
