--------------------------- MODULE MCTransactions ---------------------------
(***************************************************************************)
(* Two threads, three objects and three ids: objects are used again.       *)
(***************************************************************************)
EXTENDS Transactions
=============================================================================
