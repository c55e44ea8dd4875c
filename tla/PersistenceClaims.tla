-------------------------- MODULE PersistenceClaims --------------------------
(***************************************************************************)
(* What json_io.h and the messages of src/main.c say of saving a database, *)
(* as properties of Persistence.  A run each refutes them.                 *)
(***************************************************************************)
EXTENDS MCPersistence

\* atomic_write, "Use atomic file writes" (json_io.h:105), which save_state
\* sets: a process that dies leaves no file that is neither the old nor the new.
AtomicWrite == ~open => \A f \in Files : disk[f].state # "torn"

\* signal_handler, "Received interrupt signal. Saving state..." (main.c:166):
\* what save_state writes is the state of the database.
StateSaved == saves["signal"].stage # "garbled"
=============================================================================
