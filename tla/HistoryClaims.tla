---------------------------- MODULE HistoryClaims ----------------------------
(***************************************************************************)
(* What a comment of src/main.c says of the query history, where the code  *)
(* does otherwise.                                                         *)
(***************************************************************************)
EXTENDS MCHistory

\* main.c:276, before the comparison in add_to_history: "Don't add duplicates".
\* At the least, the query executed last is not listed a second time.
NoDuplicates == \A i \in 2 .. g_history_count : Listed[i] # Listed[i - 1]
=============================================================================
