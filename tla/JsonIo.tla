------------------------------- MODULE JsonIo -------------------------------
(***************************************************************************)
(* What src/json_io.c makes of a table when it writes it to a file, and of *)
(* the file when it reads it back.  A document keeps the structure of the  *)
(* JSON text and abstracts its characters: a value is the content that was *)
(* printed, with the type that printed it.  The records of a document are  *)
(* numbered like the list nodes they come from, largest first.  Field      *)
(* names of a table are distinct, escaped and not, and short enough to be  *)
(* kept in full when they are escaped, so that fields stay positions.  The *)
(* characters are in JsonText.                                             *)
(***************************************************************************)
EXTENDS Table

CONSTANTS
    Renamed,  \* a table name as it is escaped and, unescaped by nobody, read
              \* into the 64 bytes of a new table's name
    Escaped,  \* a string as json_escape_string writes it; the reader unescapes
              \* nothing, and cuts at MAX_FIELD_LEN
    Printed,  \* a float after %.6f and atof
    NoNumber,  \* by type, the floats that are printed as no number: inf and nan,
               \* and what is longer than the 32-byte buffer, cut by its NUL
    Remade,   \* a time after localtime and mktime with tm_isdst = 0
    Coerced   \* what a field of one type reads from a value printed as another

ASSUME JsonConstants ==
    /\ Escaped \in [CInt -> CInt]
    /\ Printed \in [CInt -> CInt]
    /\ NoNumber \in [{"FLOAT", "DOUBLE"} -> SUBSET CInt]
    /\ Remade \in [CInt -> CInt]
    /\ Coerced \in [FieldTypes -> [FieldTypes -> [CInt -> CInt]]]

-----------------------------------------------------------------------------
(***************************************************************************)
(* Writing                                                                 *)
(***************************************************************************)

json_serialize_field_value(field) ==
    [type |-> field.type,
     value |-> CASE field.type = "STRING" -> Escaped[field.value]
                 [] field.type = "BOOL" -> IF field.value = 0 THEN 0 ELSE 1
                 [] field.type \in {"NULL", "UNKNOWN", "BLOB"} -> 0
                 [] OTHER -> field.value]

\* Mutant: the loop ends when there is no next record
json_serialize_table_records_NoLast(t) ==
    [n \in {m \in DOMAIN t.records : \E k \in DOMAIN t.records : k < m} |->
        [id |-> t.records[n].id,
         fields |-> [i \in DOMAIN t.schema |->
                       json_serialize_field_value(t.records[n].fields[i])]]]

\* Ids and field values; the metadata of a record is written and never read
json_serialize_table_records(t) ==
    [n \in DOMAIN t.records |->
        [id |-> t.records[n].id,
         fields |-> [i \in DOMAIN t.schema |->
                       json_serialize_field_value(t.records[n].fields[i])]]]

\* Types and constraints are written, indexes are not
json_serialize_table(t) ==
    [name |-> Renamed[t.name], schema |-> t.schema, records |-> json_serialize_table_records(t)]

-----------------------------------------------------------------------------
(***************************************************************************)
(* Reading                                                                 *)
(***************************************************************************)

string_to_field_type(type) == IF type = "DOUBLE" THEN "UNKNOWN" ELSE type

\* The constraints of the document are skipped: db_add_table's defaults apply
ReadSchema(schema) ==
    [i \in DOMAIN schema |->
        [name |-> IF schema[i].name = "plain" THEN "plain" ELSE "escaped", \* read with its escapes
         type |-> string_to_field_type(schema[i].type),
         nullable |-> TRUE, unique |-> FALSE, primary_key |-> i = 1]]

json_parse_field_value(type, token) ==
    IF token.type = "NULL" THEN [type |-> "NULL", value |-> 0]
    ELSE [type |-> type,
          value |-> CASE {type, token.type} \cap {"UNKNOWN", "BLOB"} # {} -> 0
                      [] type # token.type -> Coerced[type][token.type][token.value]
                      [] type = "FLOAT" -> Printed[token.value]
                      [] type = "DATETIME" -> Remade[token.value]
                      [] OTHER -> token.value]

\* Mutant: the key field keeps the value read for it
ReadRow_OwnKey(schema, rec) ==
    [i \in DOMAIN schema |-> json_parse_field_value(schema[i].type, rec.fields[i])]

\* The Field array passed to table_insert_record: the record id overwrites
\* the first primary key, which is the first field, whatever its type.  The
\* keys of a record are the field names as they are, those of the schema were
\* escaped: where they differ the value is skipped.
ReadRow(schema, rec) ==
    [i \in DOMAIN schema |->
        IF i = 1 THEN [type |-> "INT", value |-> rec.id]
        ELSE IF schema[i].name # "plain" THEN [type |-> schema[i].type, value |-> 0]
        ELSE json_parse_field_value(schema[i].type, rec.fields[i])]

\* A record whose text is no JSON: a field name, written as it is, breaks the
\* key (once loaded, its escapes keep it from doing so again), or a float is
\* no number
Unparsable(schema, rec) ==
    \E i \in DOMAIN schema :
        \/ schema[i].name = "broken"
        \/ /\ rec.fields[i].type \in {"FLOAT", "DOUBLE"}
           /\ rec.fields[i].value \in NoNumber[rec.fields[i].type]

=============================================================================
