-------------------------------- MODULE Table --------------------------------
(***************************************************************************)
(* One table of the Luminix engine and the record operations on it         *)
(* (src/database.c, table_* functions and their helpers), as functions     *)
(* from a table value to a table value and the ErrorCode returned.         *)
(*                                                                         *)
(* Data abstraction.  A Field is a type tag and the content of the         *)
(* FieldValue union; the content is an integer, read by every view of the  *)
(* union (two contents are equal in the view of a schema type iff the      *)
(* integers are).  Fields are found by position, not by name.  Timestamps  *)
(* and the statistics counters, which no operation reads, are left out.    *)
(*                                                                         *)
(* The linked list of records is a function from list nodes to records.    *)
(* Nodes are numbered in the order they were allocated, and since          *)
(* table_insert_record always prepends, the list runs from the largest     *)
(* node (the head) down to the smallest.                                   *)
(***************************************************************************)
EXTENDS Integers, Sequences, FiniteSets

CONSTANTS
    MAX_RECORDS_PER_TABLE,  \* config.h:55
    MAX_INDEXES_PER_TABLE,  \* config.h:62
    INT_MAX,                \* largest C int; INT_MIN is -INT_MAX - 1
    GLOBAL_COUNTER          \* initial value of the id counter, 1000 in the code

ASSUME TableConstants ==
    /\ MAX_RECORDS_PER_TABLE \in Nat
    /\ MAX_INDEXES_PER_TABLE \in Nat
    /\ INT_MAX \in Nat
    /\ GLOBAL_COUNTER \in 1 .. INT_MAX

CInt == (-INT_MAX - 1) .. INT_MAX

\* x + 1 in a C int, as the -O0 build computes it: two's complement wrap
Succ(x) == IF x = INT_MAX THEN -INT_MAX - 1 ELSE x + 1

\* UNKNOWN is what string_to_field_type makes of the type of a saved DOUBLE
SchemaTypes == {"INT", "STRING", "FLOAT", "DOUBLE", "BOOL", "DATETIME", "BLOB", "UNKNOWN"}
FieldTypes == SchemaTypes \cup {"NULL"}

\* The types db_delete_records_by_field and the finders compare values of
Comparable == {"INT", "STRING", "FLOAT", "DOUBLE", "BOOL"}

Field == [type : FieldTypes, value : CInt]
\* Of a field's name only what JSON makes of it: nothing needs escaping; it
\* does, and a record with the name as it stands is JSON all the same; or it
\* is not (as for a quote, or an odd run of backslashes at the name's end)
NameKinds == {"plain", "escaped", "broken"}
FieldDef == [name : NameKinds, type : SchemaTypes, nullable : BOOLEAN, unique : BOOLEAN,
             primary_key : BOOLEAN]
Record == [id : CInt, fields : Seq(Field), version : Nat]

\* The table db_add_table leaves in db->tables, with constraints applied
NewTable(name, schema) ==
    [name |-> name, schema |-> schema, records |-> [n \in {} |-> 0],
     record_count |-> 0, nodes |-> 0, indexes |-> {}]

-----------------------------------------------------------------------------
(***************************************************************************)
(* Lookups                                                                 *)
(***************************************************************************)

NodesWithId(t, id) == {n \in DOMAIN t.records : t.records[n].id = id}

\* table_find_record(table, id) != NULL
table_find_record(t, id) == NodesWithId(t, id) # {}

\* The records db_find_all_records_by_field returns, and the ones
\* db_delete_records_by_field unlinks: compared in the view of the schema type
Matching(t, f, value) ==
    {n \in DOMAIN t.records : /\ t.schema[f].type \in Comparable
                              /\ t.records[n].fields[f].value = value}

Ids(t) == {t.records[n].id : n \in DOMAIN t.records}

max_id(t) == CHOOSE m \in Ids(t) \cup {0} : \A i \in Ids(t) \cup {0} : i <= m

\* Mutant: only the counter, which knows nothing of caller-chosen ids
generate_record_id_CounterOnly(t, counter) ==
    [id |-> counter, counter |-> Succ(counter)]

\* The id for a record whose caller gave none, and the counter afterwards
generate_record_id(t, counter) ==
    LET next == Succ(max_id(t))
    IN  IF next > counter THEN [id |-> next, counter |-> counter]
                          ELSE [id |-> counter, counter |-> Succ(counter)]

-----------------------------------------------------------------------------
(***************************************************************************)
(* table_insert_record.  values is the caller's Field array.               *)
(***************************************************************************)

ViolatesNotNull(t, values) ==
    \E i \in DOMAIN t.schema : ~t.schema[i].nullable /\ values[i].type = "NULL"

IntKeys(t, values) ==
    {i \in DOMAIN t.schema : t.schema[i].primary_key /\ values[i].type = "INT"}

\* The value of the first primary key field that is given as an INT; -1, which
\* stands for "none", when there is no such field (or when its value is -1)
given_id(t, values) ==
    IF IntKeys(t, values) = {} THEN -1
    ELSE values[CHOOSE i \in IntKeys(t, values) :
                    \A j \in IntKeys(t, values) : i <= j].value

Rejected(t, counter, code) == [table |-> t, counter |-> counter, code |-> code]

\* The record takes the schema's types, whatever types the caller's values have
AddRecord(t, id, values) ==
    LET rec == [id |-> id, version |-> 1,
                fields |-> [i \in DOMAIN t.schema |->
                              [type |-> t.schema[i].type, value |-> values[i].value]]]
        node == t.nodes + 1
    IN  [t EXCEPT !.records = [n \in DOMAIN t.records \cup {node} |->
                                  IF n = node THEN rec ELSE t.records[n]],
                  !.nodes = node,
                  !.record_count = @ + 1]

\* Mutant: no duplicate check
InsertWithId_NoCheck(t, values, counter) ==
    LET own == given_id(t, values)
        chosen == IF own = -1 THEN generate_record_id(t, counter)
                              ELSE [id |-> own, counter |-> counter]
    IN  [table |-> AddRecord(t, chosen.id, values),
         counter |-> chosen.counter, code |-> "SUCCESS"]

\* Choosing the id, and the duplicate check that follows it
InsertWithId(t, values, counter) ==
    LET own == given_id(t, values)
        chosen == IF own = -1 THEN generate_record_id(t, counter)
                              ELSE [id |-> own, counter |-> counter]
    IN  IF table_find_record(t, chosen.id)
        THEN Rejected(t, chosen.counter, "ERROR_DUPLICATE_KEY")
        ELSE [table |-> AddRecord(t, chosen.id, values),
              counter |-> chosen.counter, code |-> "SUCCESS"]

table_insert_record(t, values, counter) ==
    IF t.record_count >= MAX_RECORDS_PER_TABLE
    THEN Rejected(t, counter, "ERROR_TABLE_FULL")
    ELSE IF values[1].type = "UNKNOWN"
    THEN Rejected(t, counter, "ERROR_INVALID_INPUT")
    ELSE IF ViolatesNotNull(t, values)
    THEN Rejected(t, counter, "ERROR_CONSTRAINT_VIOLATION")
    ELSE InsertWithId(t, values, counter)

-----------------------------------------------------------------------------
(***************************************************************************)
(* table_update_record.  Fields are overwritten one by one; a primary key  *)
(* value that is the id of another record stops the loop where it stands,  *)
(* with the earlier fields already overwritten.  The id never changes.     *)
(***************************************************************************)

KeyConflict(t, id, values, i) ==
    LET new_id == IF values[i].type = "INT" THEN values[i].value ELSE 0
    IN  /\ t.schema[i].primary_key
        /\ values[i].type # "NULL"
        /\ new_id # id
        /\ table_find_record(t, new_id)

Overwritten(t, id, values, i) == ~\E j \in 1 .. i : KeyConflict(t, id, values, j)

NewField(old, new) ==
    [value |-> new.value, type |-> IF new.type = "UNKNOWN" THEN old.type ELSE new.type]

\* Mutant: a refused key does not stop the loop
UpdatedFields_NoStop(t, n, values) ==
    [i \in DOMAIN t.schema |-> NewField(t.records[n].fields[i], values[i])]

\* Record n after the loop over its fields
UpdatedFields(t, n, values) ==
    [i \in DOMAIN t.schema |->
        IF Overwritten(t, t.records[n].id, values, i)
        THEN NewField(t.records[n].fields[i], values[i])
        ELSE t.records[n].fields[i]]

\* Mutant: the record's id follows its key
UpdateNode_Rekeys(t, n, values) ==
    LET all == Overwritten(t, t.records[n].id, values, Len(t.schema))
        rec == [id |-> IF all /\ IntKeys(t, values) # {} THEN given_id(t, values) ELSE t.records[n].id,
                fields |-> UpdatedFields(t, n, values),
                version |-> t.records[n].version + (IF all THEN 1 ELSE 0)]
    IN  [table |-> [t EXCEPT !.records = [@ EXCEPT ![n] = rec]],
         code |-> IF all THEN "SUCCESS" ELSE "ERROR_DUPLICATE_KEY"]

UpdateNode(t, n, values) ==
    LET all == Overwritten(t, t.records[n].id, values, Len(t.schema))
        rec == [id |-> t.records[n].id,
                fields |-> UpdatedFields(t, n, values),
                version |-> t.records[n].version + (IF all THEN 1 ELSE 0)]
    IN  [table |-> [t EXCEPT !.records = [@ EXCEPT ![n] = rec]],
         code |-> IF all THEN "SUCCESS" ELSE "ERROR_DUPLICATE_KEY"]

table_update_record(t, id, values) ==
    IF ~table_find_record(t, id) THEN [table |-> t, code |-> "ERROR_NOT_FOUND"]
    ELSE UpdateNode(t, CHOOSE n \in NodesWithId(t, id) : TRUE, values)

-----------------------------------------------------------------------------
(***************************************************************************)
(* Deletion                                                                *)
(***************************************************************************)

Without(records, nodes) == [n \in DOMAIN records \ nodes |-> records[n]]

UnlinkNode(t, n) ==
    [t EXCEPT !.records = Without(t.records, {n}),
              !.record_count = @ - 1]

table_delete_record(t, id) ==
    IF ~table_find_record(t, id) THEN [table |-> t, code |-> "ERROR_NOT_FOUND"]
    ELSE [table |-> UnlinkNode(t, CHOOSE n \in NodesWithId(t, id) : TRUE),
          code |-> "SUCCESS"]

\* Mutant: record_count is decremented once for the whole loop
UnlinkMatching_CountOnce(t, f, value) ==
    [t EXCEPT !.records = Without(t.records, Matching(t, f, value)),
              !.record_count = IF Matching(t, f, value) = {} THEN @ ELSE @ - 1]

\* The loop of db_delete_records_by_field: every match is unlinked, and
\* record_count decremented for each
UnlinkMatching(t, f, value) ==
    [t EXCEPT !.records = Without(t.records, Matching(t, f, value)),
              !.record_count = @ - Cardinality(Matching(t, f, value))]

=============================================================================
