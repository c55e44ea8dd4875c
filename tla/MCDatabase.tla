------------------------------ MODULE MCDatabase ------------------------------
(***************************************************************************)
(* Small instances of Database.  Ids range over a 3-bit int, with the      *)
(* generated ids starting at 2, so that wrap-around, collisions of the     *)
(* shared counter with caller-chosen ids and full tables all happen.       *)
(***************************************************************************)
EXTENDS Database

Def(type, nullable, unique, key) ==
    [name |-> "plain", type |-> type, nullable |-> nullable, unique |-> unique, primary_key |-> key]
Arg(type, value) == [type |-> type, value |-> value]

DefaultSchema == <<Def("INT", TRUE, FALSE, TRUE)>>
KeySecond == <<Def("STRING", FALSE, TRUE, FALSE), Def("INT", TRUE, FALSE, TRUE)>>

MCSchemas == {DefaultSchema, KeySecond}

\* Names that fit
Short == [n \in Names |-> n]

\* An explicit key, which the counter gives first; no key (-1 and NULL); the key of the second field; an
\* UNKNOWN first value, refused by the table
Keyed == <<Arg("INT", 2), Arg("INT", 3)>>
NoKey == <<Arg("INT", -1), Arg("NULL", 0)>>
KeyTwo == <<Arg("NULL", 2), Arg("INT", 2)>>
Untyped == <<Arg("UNKNOWN", 1), Arg("STRING", 1)>>

MCRows == {Keyed, NoKey, KeyTwo, Untyped}
MCBatches == {<<>>, <<Keyed, NoKey>>, <<NoKey, Untyped>>}

\* A table of one INT field
OneSchema == {<<>>, DefaultSchema}
=============================================================================
