------------------------------ MODULE MCHistory ------------------------------
(***************************************************************************)
(* A ring of four slots and four queries, the longest of which is stored   *)
(* as another one.                                                         *)
(***************************************************************************)
EXTENDS History

Cut == [q \in Texts |-> IF q = "long" THEN "a" ELSE q]
=============================================================================
