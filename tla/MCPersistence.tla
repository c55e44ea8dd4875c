---------------------------- MODULE MCPersistence ----------------------------
(***************************************************************************)
(* Small instances of Persistence.  A table has an INT key and a string;   *)
(* string 1 needs escaping and grows with every save, string 2 does not.   *)
(***************************************************************************)
EXTENDS Persistence

NamedDef(name, type, nullable, key) ==
    [name |-> name, type |-> type, nullable |-> nullable, unique |-> FALSE, primary_key |-> key]
MCDef(type, nullable, key) == NamedDef("plain", type, nullable, key)
MCField(type, value) == [type |-> type, value |-> value]

KeyAndText == <<MCDef("INT", TRUE, TRUE), MCDef("STRING", TRUE, FALSE)>>

MCSchemas == {KeyAndText}
MCRows == {<<MCField("INT", 1), MCField("STRING", 2)>>, <<MCField("INT", 2), MCField("STRING", 1)>>}
MCBatches == {<<r1, r2>> : r1, r2 \in MCRows}
OneRow == {<<MCField("INT", 1), MCField("STRING", 2)>>}
OneBatch == {<<r, r>> : r \in OneRow}

\* An id of the caller's, and none, which asks for a generated one
KeyedRows == {<<MCField("INT", 2), MCField("STRING", 2)>>, <<MCField("NULL", 0), MCField("STRING", 2)>>}

\* All the types: a key that is not the first field, values that do not
\* survive printing, NULLs
Mixed == <<MCDef("STRING", TRUE, FALSE), MCDef("INT", FALSE, TRUE), MCDef("FLOAT", TRUE, FALSE),
           MCDef("DOUBLE", TRUE, FALSE), NamedDef("escaped", "BOOL", TRUE, FALSE),
           MCDef("DATETIME", TRUE, FALSE), MCDef("BLOB", TRUE, FALSE)>>
Plain == <<MCDef("INT", TRUE, TRUE), MCDef("FLOAT", TRUE, FALSE), MCDef("BOOL", TRUE, FALSE)>>
Quotes == <<MCDef("INT", TRUE, TRUE), NamedDef("broken", "STRING", TRUE, FALSE)>>
FormatSchemas == {Mixed, Plain, Quotes} \cup {ReadSchema(s) : s \in {Mixed, Plain, Quotes}}
MixedRow == <<MCField("INT", 2), MCField("INT", 1), MCField("FLOAT", 3), MCField("DOUBLE", 2),
              MCField("BOOL", 1), MCField("DATETIME", 3), MCField("BLOB", 2)>>
\* NULLs, and in the FLOAT of Mixed an infinity
NullRow == <<MCField("INT", 1), MCField("NULL", 0), MCField("BOOL", -4), MCField("NULL", 2),
             MCField("UNKNOWN", 1), MCField("NULL", 0), MCField("NULL", 3)>>
FormatRows == {MixedRow, NullRow}

Same == [n \in Names |-> n]

\* Name "along" is cut to "a" when it is given; the last character of "q" needs
\* escaping, and with the escape "q" is cut to "a" when it is read back
Cut == [n \in Names |-> IF n = "along" THEN "a" ELSE n]
Quoted == [n \in Names |-> IF n \in {"q", "along"} THEN "a" ELSE n]
Backup == [second \in {0} |-> "b"]
NoBackup == [second \in {} |-> "s"]

\* Escaping turns content 1 into 3, which needs no more room
Escape == [v \in CInt |-> IF v = 1 THEN 3 ELSE v]
Round == [v \in CInt |-> v - (v % 2)]
\* An infinity, and a double too long to print
Odd == [type \in {"FLOAT", "DOUBLE"} |-> IF type = "FLOAT" THEN {-4} ELSE {-4, 3}]
Winter == [v \in CInt |-> v]
Zero == [to \in FieldTypes |-> [from \in FieldTypes |-> [v \in CInt |-> 0]]]

\* All the state but ret, the code of the last engine call: no action reads it,
\* and no property of the runs with this view mentions it
EngineAndFiles == <<tables, txn, global_counter, batch, pvars>>
=============================================================================
