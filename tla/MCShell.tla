------------------------------ MODULE MCShell ------------------------------
(***************************************************************************)
(* One table name with one field to index, the two state files and one     *)
(* backup; a history of one slot.                                          *)
(***************************************************************************)
EXTENDS Shell

Same == [q \in Texts |-> q]
=============================================================================
