---------------------------- MODULE ReloadProofs ----------------------------
(***************************************************************************)
(* What comes back from a file is what was saved, and a complete file is   *)
(* never refused: the two action properties of Persistence about reloading *)
(* a database, proved for every set of files, names, schemas and rows.     *)
(*                                                                         *)
(* The argument relates three things that the program never holds at the   *)
(* same time: the tables a file was made from, the document in it, and the *)
(* tables read back so far.  The invariant says that the document is the   *)
(* text of those tables, and that a table being read has exactly the       *)
(* records of its original that are no longer to be read, except one with  *)
(* the id -1.                                                              *)
(***************************************************************************)
EXTENDS PersistenceProofs

\* The document is the text of the tables
DocOf(doc, ts) ==
    DOMAIN doc = DOMAIN ts /\ \A i \in DOMAIN ts : doc[i] = json_serialize_table(ts[i])

\* Within the limits that db_add_table enforces, when a program creates a
\* table and when the loader does
Sized(ts) ==
    /\ Len(ts) <= MAX_TABLES
    /\ \A i \in DOMAIN ts : Len(ts[i].schema) <= MAX_FIELDS_PER_TABLE

ImageOK(ts) == GoodTables(ts) /\ Sized(ts)

\* The list nodes of the original whose records have been read
Read(old, todo) == {n \in DOMAIN old.records \ todo : old.records[n].id # -1}

ReadIds(old, todo) == {old.records[n].id : n \in Read(old, todo)}
ReadContent(old, todo) ==
    {<<old.records[n].id, old.records[n].fields>> : n \in Read(old, todo)}

\* A table on its way back: new has been read from what old was written as,
\* all but the records of todo
Arrived(new, old, todo) ==
    /\ new.name = Renamed[old.name]
    /\ new.schema = ReadSchema(old.schema)
    /\ todo \subseteq DOMAIN old.records
    /\ Ids(new) = ReadIds(old, todo)
    /\ new.record_count = Cardinality(Read(old, todo))
    /\ Portable(old) => Content(new) = ReadContent(old, todo)

-----------------------------------------------------------------------------
(***************************************************************************)
(* One record                                                              *)
(***************************************************************************)

\* A record is linked in front of the others, which stay as they are.
LEMMA AddRecordEffect ==
    ASSUME NEW t, TableOK(t), NEW id, NEW row, NEW u, u = AddRecord(t, id, row),
           NEW fields,
           fields = [i \in DOMAIN t.schema |-> [type |-> t.schema[i].type, value |-> row[i].value]]
    PROVE  /\ u.name = t.name /\ u.schema = t.schema
           /\ u.record_count = t.record_count + 1
           /\ Ids(u) = Ids(t) \cup {id}
           /\ Content(u) = Content(t) \cup {<<id, fields>>}
<1> DEFINE node == t.nodes + 1
           rec == [id |-> id, version |-> 1, fields |-> fields]
           list == [n \in DOMAIN t.records \cup {node} |->
                       IF n = node THEN rec ELSE t.records[n]]
<1>1. u = [t EXCEPT !.records = list, !.nodes = node, !.record_count = @ + 1]
  BY DEF AddRecord
<1>2. rec.id = id /\ rec.fields = fields
  OBVIOUS
<1>3. node \notin DOMAIN t.records
  BY DEF TableOK
<1> HIDE DEF rec
<1>4. /\ DOMAIN list = DOMAIN t.records \cup {node}
      /\ list[node] = rec
      /\ \A n \in DOMAIN t.records : list[n] = t.records[n]
  BY <1>3
<1> HIDE DEF list, node
<1>5. u.records = list /\ u.name = t.name /\ u.schema = t.schema /\ u.record_count = t.record_count + 1
  BY <1>1 DEF TableOK
<1>6. Ids(u) = Ids(t) \cup {id}
  BY <1>2, <1>4, <1>5 DEF Ids
<1>7. Content(u) = Content(t) \cup {<<id, fields>>}
  <2> DEFINE Pair(r) == <<r.id, r.fields>>
  <2>1. Content(u) = {Pair(list[n]) : n \in DOMAIN list} /\ Content(t) = {Pair(t.records[n]) : n \in DOMAIN t.records}
    BY <1>5 DEF Content
  <2>2. Pair(rec) = <<id, fields>>
    BY <1>2
  <2> HIDE DEF Pair
  <2> QED BY <1>4, <2>1, <2>2
<1> QED BY <1>5, <1>6, <1>7

\* The row made of a record (ReadRow) gives its id as the key, and is refused
\* neither for its first field nor for a NULL: the schema of a table that is
\* read back has its key first and lets every field be NULL (ReadSchema).
LEMMA ReadRowKey ==
    ASSUME NEW t, NEW schema \in Seq(FieldDef), Len(schema) >= 1, t.schema = ReadSchema(schema),
           NEW rec, NEW row, row = ReadRow(t.schema, rec)
    PROVE  /\ given_id(t, row) = rec.id
           /\ row[1].type # "UNKNOWN"
           /\ ~ViolatesNotNull(t, row)
<1>1. DOMAIN t.schema = DOMAIN schema /\ 1 \in DOMAIN schema
  BY DEF ReadSchema
<1>2. \A i \in DOMAIN schema : t.schema[i].nullable = TRUE /\ t.schema[i].primary_key = (i = 1)
  BY DEF ReadSchema
<1>3. row[1] = [type |-> "INT", value |-> rec.id]
  BY <1>1 DEF ReadRow
<1>4. row[1].type = "INT" /\ row[1].value = rec.id
  BY <1>3
<1>5. IntKeys(t, row) = {1}
  BY <1>1, <1>2, <1>4 DEF IntKeys
<1>6. (CHOOSE i \in {1} : \A j \in {1} : i <= j) = 1
  OBVIOUS
<1>7. given_id(t, row) = rec.id
  BY <1>4, <1>5, <1>6 DEF given_id
<1>8. ~ViolatesNotNull(t, row)
  BY <1>1, <1>2 DEF ViolatesNotNull
<1> QED BY <1>4, <1>7, <1>8

\* A value that survives printing is read back as it was.
LEMMA ValueBack ==
    ASSUME NEW f \in Field, SurvivesPrinting(f)
    PROVE  /\ string_to_field_type(f.type) = f.type
           /\ json_parse_field_value(f.type, json_serialize_field_value(f)).value = f.value
<1>1. CASE f.type = "STRING"
  BY <1>1 DEF SurvivesPrinting, string_to_field_type, json_parse_field_value, json_serialize_field_value
<1>2. CASE f.type = "FLOAT"
  BY <1>2 DEF SurvivesPrinting, string_to_field_type, json_parse_field_value, json_serialize_field_value
<1>3. CASE f.type = "BOOL"
  BY <1>3 DEF SurvivesPrinting, string_to_field_type, json_parse_field_value, json_serialize_field_value
<1>4. CASE f.type = "DATETIME"
  BY <1>4 DEF SurvivesPrinting, string_to_field_type, json_parse_field_value, json_serialize_field_value
<1>5. CASE f.type = "INT"
  BY <1>5 DEF SurvivesPrinting, string_to_field_type, json_parse_field_value, json_serialize_field_value
<1> QED BY <1>1, <1>2, <1>3, <1>4, <1>5 DEF SurvivesPrinting

\* A record of a portable table is read back with the fields it had.
LEMMA RecordBack ==
    ASSUME NEW old, TableOK(old), Portable(old), NEW n \in DOMAIN old.records,
           NEW schema, schema = ReadSchema(old.schema),
           NEW rec, rec = json_serialize_table(old).records[n],
           NEW row, row = ReadRow(schema, rec)
    PROVE  [i \in DOMAIN schema |-> [type |-> schema[i].type, value |-> row[i].value]]
             = old.records[n].fields
<1> DEFINE fields == old.records[n].fields
<1>1. /\ old.schema \in Seq(FieldDef) /\ fields \in Seq(Field)
      /\ Len(fields) = Len(old.schema) /\ Len(old.schema) >= 1
  BY DatabaseConstants DEF TableOK, Record
<1>2. /\ rec.id = old.records[n].id
      /\ rec.fields = [i \in DOMAIN old.schema |-> json_serialize_field_value(fields[i])]
  BY DEF json_serialize_table, json_serialize_table_records
<1>3. /\ DOMAIN schema = DOMAIN old.schema
      /\ \A i \in DOMAIN schema : schema[i].type = string_to_field_type(old.schema[i].type)
      /\ \A i \in DOMAIN schema : schema[i].name = "plain"
  BY DEF ReadSchema, Portable
<1>4. ASSUME NEW i \in DOMAIN schema
      PROVE  [type |-> schema[i].type, value |-> row[i].value] = fields[i]
  <2>1. fields[i] \in Field /\ fields[i].type = old.schema[i].type /\ SurvivesPrinting(fields[i])
    BY <1>1, <1>3 DEF Portable
  <2>2. /\ schema[i].type = fields[i].type
        /\ json_parse_field_value(schema[i].type, rec.fields[i]).value = fields[i].value
    BY <1>2, <1>3, <2>1, ValueBack
  <2>3. row[i].value = fields[i].value
    <3>1. CASE i = 1
      <4>1. row[1] = [type |-> "INT", value |-> rec.id]
        BY <3>1 DEF ReadRow
      <4> QED BY <1>2, <3>1, <4>1 DEF Portable
    <3>2. CASE i # 1
      <4>1. row[i] = json_parse_field_value(schema[i].type, rec.fields[i])
        BY <1>3, <3>2 DEF ReadRow
      <4> QED BY <2>2, <4>1
    <3> QED BY <3>1, <3>2
  <2> QED BY <2>1, <2>2, <2>3 DEF Field
<1>5. fields = [i \in DOMAIN schema |-> fields[i]]
  <2>1. DOMAIN fields = DOMAIN schema
    BY <1>1, <1>3
  <2> QED BY <1>1, <2>1
<1> HIDE DEF fields
<1>6. [i \in DOMAIN schema |-> [type |-> schema[i].type, value |-> row[i].value]] = fields
  BY <1>4, <1>5
<1> QED BY <1>6 DEF fields

\* Of a record still to be read nothing is in the new table, which has room
\* for it: the original had, and its ids were unique.
LEMMA RoomForRecord ==
    ASSUME NEW old, TableInv(old), NEW todo, todo \subseteq DOMAIN old.records, NEW n \in todo
    PROVE  /\ old.records[n].id \notin ReadIds(old, todo)
           /\ Cardinality(Read(old, todo)) < MAX_RECORDS_PER_TABLE
           /\ IsFiniteSet(Read(old, todo))
<1>1. TableOK(old) /\ UniqueIds(old) /\ CountedExactly(old)
  BY DEF TableInv
<1>2. n \in DOMAIN old.records /\ n \notin Read(old, todo)
  BY DEF Read
<1>3. old.records[n].id \notin ReadIds(old, todo)
  BY <1>1, <1>2 DEF ReadIds, Read, UniqueIds
<1> DEFINE some == Read(old, todo)
<1>4. some \in SUBSET (DOMAIN old.records) /\ some \cup {n} \in SUBSET (DOMAIN old.records)
  BY <1>2 DEF Read
<1>5. IsFiniteSet(DOMAIN old.records) /\ Cardinality(DOMAIN old.records) \in Nat
  BY <1>1, FiniteList
<1>6. IsFiniteSet(some)
  BY <1>4, <1>5, FS_Subset
<1>7. Cardinality(some \cup {n}) <= Cardinality(DOMAIN old.records)
  BY <1>4, <1>5, FS_Subset
<1>8. Cardinality(some \cup {n}) = Cardinality(some) + 1
  BY <1>2, <1>6, FS_AddElement
<1>9. Cardinality(some) \in Nat /\ Cardinality(DOMAIN old.records) <= MAX_RECORDS_PER_TABLE
  BY <1>1, <1>6, FS_CardinalityType DEF CountedExactly
<1> HIDE DEF some
<1>10. Cardinality(some) < MAX_RECORDS_PER_TABLE
  BY <1>5, <1>7, <1>8, <1>9, TableConstants
<1> QED BY <1>3, <1>6, <1>10 DEF some

\* A record whose id is not -1 is accepted by table_insert_record.
LEMMA RecordAccepted ==
    ASSUME NEW new, NEW old, TableInv(old), NEW todo, Arrived(new, old, todo), NEW n \in todo,
           NEW rec, rec = json_serialize_table(old).records[n], rec.id # -1,
           NEW row, row = ReadRow(new.schema, rec), NEW counter,
           NEW r, r = table_insert_record(new, row, counter)
    PROVE  r.code = "SUCCESS" /\ r.table = AddRecord(new, rec.id, row)
<1>1. TableOK(old) /\ old.schema \in Seq(FieldDef) /\ Len(old.schema) >= 1
  BY DatabaseConstants DEF TableInv, TableOK
<1>2. new.schema = ReadSchema(old.schema) /\ Ids(new) = ReadIds(old, todo)
      /\ new.record_count = Cardinality(Read(old, todo)) /\ todo \subseteq DOMAIN old.records
  BY DEF Arrived
<1>3. rec.id = old.records[n].id
  BY <1>2 DEF json_serialize_table, json_serialize_table_records
<1>4. given_id(new, row) = rec.id /\ row[1].type # "UNKNOWN" /\ ~ViolatesNotNull(new, row)
  BY <1>1, <1>2, ReadRowKey
<1>5. /\ rec.id \notin Ids(new)
      /\ Cardinality(Read(old, todo)) \in Nat
      /\ Cardinality(Read(old, todo)) < MAX_RECORDS_PER_TABLE
  BY <1>2, <1>3, RoomForRecord, FS_CardinalityType
<1>6. ~(new.record_count >= MAX_RECORDS_PER_TABLE)
  BY <1>2, <1>5, TableConstants
<1>7. ~table_find_record(new, rec.id)
  BY <1>5 DEF table_find_record, NodesWithId, Ids
<1>8. r = InsertWithId(new, row, counter)
  BY <1>4, <1>6 DEF table_insert_record
<1> DEFINE chosen == IF given_id(new, row) = -1 THEN generate_record_id(new, counter)
                     ELSE [id |-> given_id(new, row), counter |-> counter]
<1>9. r = IF table_find_record(new, chosen.id)
          THEN Rejected(new, chosen.counter, "ERROR_DUPLICATE_KEY")
          ELSE [table |-> AddRecord(new, chosen.id, row),
                counter |-> chosen.counter, code |-> "SUCCESS"]
  BY <1>8 DEF InsertWithId
<1>10. chosen.id = rec.id
  BY <1>4
<1> HIDE DEF chosen
<1> QED BY <1>7, <1>9, <1>10

\* A record has been read: it is in the new table, and no longer to be read.
LEMMA RecordArrived ==
    ASSUME NEW new, TableOK(new), NEW old, TableInv(old), NEW todo, Arrived(new, old, todo),
           NEW n \in todo, NEW rec, rec = json_serialize_table(old).records[n], rec.id # -1,
           NEW row, row = ReadRow(new.schema, rec), NEW u, u = AddRecord(new, rec.id, row)
    PROVE  Arrived(u, old, todo \ {n})
<1>1. /\ new.name = Renamed[old.name] /\ new.schema = ReadSchema(old.schema)
      /\ todo \subseteq DOMAIN old.records /\ Ids(new) = ReadIds(old, todo)
      /\ new.record_count = Cardinality(Read(old, todo))
      /\ Portable(old) => Content(new) = ReadContent(old, todo)
  BY DEF Arrived
<1>2. n \in DOMAIN old.records /\ rec.id = old.records[n].id
  BY <1>1 DEF json_serialize_table, json_serialize_table_records
<1> DEFINE fields == [i \in DOMAIN new.schema |-> [type |-> new.schema[i].type, value |-> row[i].value]]
<1>0. fields = [i \in DOMAIN new.schema |-> [type |-> new.schema[i].type, value |-> row[i].value]]
  OBVIOUS
<1> HIDE DEF fields
<1>3. /\ u.name = new.name /\ u.schema = new.schema
      /\ u.record_count = new.record_count + 1
      /\ Ids(u) = Ids(new) \cup {rec.id}
      /\ Content(u) = Content(new) \cup {<<rec.id, fields>>}
  BY <1>0, AddRecordEffect
<1>4. Portable(old) => fields = old.records[n].fields
  BY <1>0, <1>1, <1>2, RecordBack DEF TableInv
<1>5. Read(old, todo \ {n}) = Read(old, todo) \cup {n} /\ n \notin Read(old, todo)
  BY <1>1, <1>2 DEF Read
<1>6. Ids(u) = ReadIds(old, todo \ {n})
  <2>1. ReadIds(old, todo \ {n}) = ReadIds(old, todo) \cup {old.records[n].id}
    BY <1>5 DEF ReadIds
  <2> QED BY <1>1, <1>2, <1>3, <2>1
<1>7. u.record_count = Cardinality(Read(old, todo \ {n}))
  <2>1. IsFiniteSet(Read(old, todo))
    BY <1>1, RoomForRecord
  <2>2. Cardinality(Read(old, todo) \cup {n}) = Cardinality(Read(old, todo)) + 1
    BY <1>5, <2>1, FS_AddElement
  <2> QED BY <1>1, <1>3, <1>5, <2>2
<1>8. ASSUME Portable(old) PROVE Content(u) = ReadContent(old, todo \ {n})
  <2> DEFINE Pair(m) == <<old.records[m].id, old.records[m].fields>>
  <2>1. /\ ReadContent(old, todo) = {Pair(m) : m \in Read(old, todo)}
        /\ ReadContent(old, todo \ {n}) = {Pair(m) : m \in Read(old, todo \ {n})}
    BY DEF ReadContent
  <2>2. Content(u) = ReadContent(old, todo) \cup {Pair(n)}
    BY <1>1, <1>2, <1>3, <1>4, <1>8
  <2> HIDE DEF Pair
  <2>3. {Pair(m) : m \in Read(old, todo) \cup {n}} = {Pair(m) : m \in Read(old, todo)} \cup {Pair(n)}
    OBVIOUS
  <2> QED BY <1>5, <2>1, <2>2, <2>3
<1> QED BY <1>1, <1>3, <1>6, <1>7, <1>8 DEF Arrived

\* A record with the id -1 has been skipped.
LEMMA RecordSkipped ==
    ASSUME NEW new, NEW old, NEW todo, Arrived(new, old, todo),
           NEW n \in todo, old.records[n].id = -1
    PROVE  Arrived(new, old, todo \ {n})
<1>1. Read(old, todo \ {n}) = Read(old, todo)
  BY DEF Read, Arrived
<1>2. ReadIds(old, todo \ {n}) = ReadIds(old, todo) /\ ReadContent(old, todo \ {n}) = ReadContent(old, todo)
  BY <1>1 DEF ReadIds, ReadContent
<1> QED BY <1>1, <1>2 DEF Arrived

\* A table of the document before its first record.
LEMMA TableArrives ==
    ASSUME NEW old, NEW d, d = json_serialize_table(old)
    PROVE  Arrived(NewTable(d.name, ReadSchema(d.schema)), old, DOMAIN d.records)
<1> DEFINE new == NewTable(d.name, ReadSchema(d.schema))
<1>1. d.name = Renamed[old.name] /\ d.schema = old.schema /\ DOMAIN d.records = DOMAIN old.records
  BY DEF json_serialize_table, json_serialize_table_records
<1>2. /\ new.name = d.name /\ new.schema = ReadSchema(d.schema) /\ new.record_count = 0
      /\ DOMAIN new.records = {}
  BY DEF NewTable
<1> HIDE DEF new
<1>3. Read(old, DOMAIN old.records) = {}
  BY DEF Read
<1>4. Ids(new) = {} /\ Content(new) = {}
  BY <1>2 DEF Ids, Content
<1>5. ReadIds(old, DOMAIN old.records) = {} /\ ReadContent(old, DOMAIN old.records) = {}
  BY <1>3 DEF ReadIds, ReadContent
<1>6. Arrived(new, old, DOMAIN d.records)
  BY <1>1, <1>2, <1>3, <1>4, <1>5, FS_EmptySet DEF Arrived
<1> QED BY <1>6 DEF new

\* When nothing is left to be read, the table has come back.
LEMMA TableBack ==
    ASSUME NEW new, NEW old, TableInv(old), Arrived(new, old, {})
    PROVE  /\ new.name = Renamed[old.name]
           /\ Ids(new) = Ids(old) \ {-1}
           /\ -1 \notin Ids(old) => new.record_count = old.record_count
           /\ Portable(old) => Content(new) = Content(old)
<1>1. Read(old, {}) = {n \in DOMAIN old.records : old.records[n].id # -1}
  BY DEF Read
<1>2. Ids(new) = Ids(old) \ {-1}
  BY <1>1 DEF Arrived, ReadIds, Ids
<1>3. ASSUME -1 \notin Ids(old) PROVE new.record_count = old.record_count
  <2>1. Read(old, {}) = DOMAIN old.records
    BY <1>1, <1>3 DEF Ids
  <2> QED BY <2>1 DEF Arrived, TableInv, CountedExactly
<1>4. ASSUME Portable(old) PROVE Content(new) = Content(old)
  <2>1. Read(old, {}) = DOMAIN old.records
    BY <1>1, <1>4 DEF Portable
  <2> QED BY <1>4, <2>1 DEF Arrived, ReadContent, Content
<1> QED BY <1>2, <1>3, <1>4 DEF Arrived

-----------------------------------------------------------------------------
(***************************************************************************)
(* The engine's calls keep the tables within the limits of db_add_table    *)
(***************************************************************************)
OneChanged ==
    \E i \in DOMAIN tables : \E u : tables' = [tables EXCEPT ![i] = u] /\ u.schema = tables[i].schema

OneMore ==
    \E name : \E schema \in Schemas :
        /\ tables' = Append(tables, NewTable(name, schema))
        /\ Len(schema) <= MAX_FIELDS_PER_TABLE
        /\ ~(Len(tables) >= MAX_TABLES)

ShapeKept == tables' = tables \/ OneChanged \/ OneMore

\* Updating and deleting records leave the schema alone.
LEMMA RecordCallsSchema ==
    ASSUME NEW t, NEW id, NEW row, NEW f
    PROVE  /\ table_update_record(t, id, row).table.schema = t.schema
           /\ table_delete_record(t, id).table.schema = t.schema
           /\ UnlinkMatching(t, f, id).schema = t.schema
<1>1. ASSUME NEW n PROVE UpdateNode(t, n, row).table.schema = t.schema
  <2> DEFINE all == Overwritten(t, t.records[n].id, row, Len(t.schema))
             rec == [id |-> t.records[n].id, fields |-> UpdatedFields(t, n, row),
                     version |-> t.records[n].version + (IF all THEN 1 ELSE 0)]
             list == [t.records EXCEPT ![n] = rec]
  <2>1. UpdateNode(t, n, row).table = [t EXCEPT !.records = list]
    BY DEF UpdateNode
  <2> HIDE DEF list
  <2> QED BY <2>1
<1>2. ASSUME NEW n PROVE UnlinkNode(t, n).schema = t.schema
  BY DEF UnlinkNode
<1>3. UnlinkMatching(t, f, id).schema = t.schema
  BY DEF UnlinkMatching
<1> QED BY <1>1, <1>2, <1>3 DEF table_update_record, table_delete_record

\* A single-record call replaces its table by one with the same schema.
LEMMA FinishShape ==
    ASSUME NEW op, NEW i \in DOMAIN tables, NEW r, Finish(op, i, r), r.table.schema = tables[i].schema
    PROVE  ShapeKept
BY DEF Finish, ShapeKept, OneChanged

\* The record calls, by the table they find.
LEMMA RecordCallsShape ==
    ASSUME IInv, NEW name \in Names, RecordCalls(name)
    PROVE  ShapeKept
<1> DEFINE i == db_get_table(name)
<1>0. i # 0 => i \in DOMAIN tables
  BY GetTable, Parts
<1>1. CASE \E op, code : Refuse(op, code)
  BY <1>1 DEF Refuse, ShapeKept
<1>2. ASSUME NEW row \in Rows, db_insert_record(name, row) PROVE ShapeKept
  <2>1. CASE i # 0 /\ InsertInto(i, row)
    <3>1. Finish("insert", i, table_insert_record(tables[i], row, global_counter))
      BY <2>1 DEF InsertInto
    <3> QED BY <1>0, <2>1, <3>1, InsertSchema, FinishShape
  <2> QED BY <1>1, <1>2, <2>1 DEF db_insert_record, OnTable
<1>3. ASSUME NEW id \in Values, NEW row \in Rows, db_update_record(name, id, row) PROVE ShapeKept
  <2>1. CASE i # 0 /\ UpdateIn(i, id, row)
    <3>1. Finish("update", i, table_update_record(tables[i], id, row))
      BY <2>1 DEF UpdateIn
    <3> QED BY <1>0, <2>1, <3>1, RecordCallsSchema, FinishShape
  <2> QED BY <1>1, <1>3, <2>1 DEF db_update_record, OnTable
<1>4. ASSUME NEW id \in Values, db_delete_record(name, id) PROVE ShapeKept
  <2>1. CASE i # 0 /\ DeleteFrom(i, id)
    <3>1. Finish("delete", i, table_delete_record(tables[i], id))
      BY <2>1 DEF DeleteFrom
    <3> QED BY <1>0, <2>1, <3>1, RecordCallsSchema, FinishShape
  <2> QED BY <1>1, <1>4, <2>1 DEF db_delete_record, OnTable
<1>5. ASSUME NEW f, NEW v, db_delete_records_by_field(name, f, v) PROVE ShapeKept
  <2>1. CASE i # 0 /\ tables' = [tables EXCEPT ![i] = UnlinkMatching(tables[i], f, v)]
    <3>1. i \in DOMAIN tables /\ UnlinkMatching(tables[i], f, v).schema = tables[i].schema
      BY <1>0, <2>1, RecordCallsSchema
    <3> HIDE DEF i
    <3> QED BY <2>1, <3>1 DEF ShapeKept, OneChanged
  <2> QED BY <1>1, <1>5, <2>1 DEF db_delete_records_by_field, OnTable, DeleteMatching
<1>6. ASSUME NEW rows, db_batch_insert_records(name, rows) PROVE ShapeKept
  BY <1>1, <1>6 DEF db_batch_insert_records, OnTable, StartBatch, ShapeKept
<1> QED BY <1>2, <1>3, <1>4, <1>5, <1>6 DEF RecordCalls

\* The calls about tables and indexes.
LEMMA SchemaCallsShape ==
    ASSUME IInv, NEW name \in Names, SchemaCalls(name)
    PROVE  ShapeKept
<1> DEFINE i == db_get_table(name)
<1>0. i # 0 => i \in DOMAIN tables
  BY GetTable, Parts
<1>1. CASE \E op, code : Refuse(op, code)
  BY <1>1 DEF Refuse, ShapeKept
<1>2. ASSUME NEW schema \in Schemas, db_add_table(name, schema) PROVE ShapeKept
  <2>1. CASE /\ Len(schema) \in 1 .. MAX_FIELDS_PER_TABLE
             /\ ~(Len(tables) >= MAX_TABLES)
             /\ tables' = Append(tables, NewTable(Truncated[name], schema))
    <3>1. Len(schema) <= MAX_FIELDS_PER_TABLE
      BY <2>1, DatabaseConstants
    <3> QED BY <2>1, <3>1 DEF ShapeKept, OneMore
  <2> QED BY <1>1, <1>2, <2>1 DEF db_add_table
<1>3. ASSUME NEW f, db_create_index(name, f) \/ db_drop_index(name, f) PROVE ShapeKept
  <2>1. ASSUME i # 0, NEW op, NEW new, SetIndexes(op, i, new) PROVE ShapeKept
    <3> DEFINE u == [tables[i] EXCEPT !.indexes = new]
    <3>1. u.schema = tables[i].schema /\ tables' = [tables EXCEPT ![i] = u] /\ i \in DOMAIN tables
      BY <1>0, <2>1 DEF SetIndexes
    <3> HIDE DEF u, i
    <3> QED BY <3>1 DEF ShapeKept, OneChanged
  <2> QED BY <1>1, <1>3, <2>1 DEF db_create_index, db_drop_index, OnTable, CreateIndexOn, DropIndexOn
<1> QED BY <1>2, <1>3 DEF SchemaCalls

\* Every call of the engine.
LEMMA EngineShape == ASSUME IInv, Next PROVE ShapeKept
<1>1. CASE BatchInsert
  <2> DEFINE i == batch.table
             u == table_insert_record(tables[i], Head(batch.todo), global_counter).table
  <2>1. i \in DOMAIN tables /\ tables' = [tables EXCEPT ![i] = u] /\ u.schema = tables[i].schema
    BY <1>1, Parts, InsertSchema DEF BatchInsert, BatchOK
  <2> HIDE DEF i, u
  <2> QED BY <2>1 DEF ShapeKept, OneChanged
<1>2. CASE db_begin_transaction \/ db_commit_transaction \/ db_rollback_transaction
  BY <1>2 DEF db_begin_transaction, db_commit_transaction, db_rollback_transaction,
     EndTransaction, Refuse, ShapeKept
<1> QED BY <1>1, <1>2, RecordCallsShape, SchemaCallsShape DEF Next

\* The limits are kept.
LEMMA EngineSized == ASSUME IInv, Sized(tables), Next PROVE Sized(tables')
<1>0. IsSeq(tables) /\ Len(tables) \in Nat /\ DOMAIN tables = 1 .. Len(tables)
  BY Parts, SeqDomain DEF TablesOK, IsSeq
<1>1. CASE OneChanged
  <2>1. PICK i \in DOMAIN tables : \E u : tables' = [tables EXCEPT ![i] = u] /\ u.schema = tables[i].schema
    BY <1>1 DEF OneChanged
  <2>2. PICK u : tables' = [tables EXCEPT ![i] = u] /\ u.schema = tables[i].schema
    BY <2>1
  <2>3. /\ Len(tables') = Len(tables) /\ DOMAIN tables' = DOMAIN tables /\ tables'[i] = u
        /\ \A j \in DOMAIN tables : j # i => tables'[j] = tables[j]
    BY <1>0, <2>2, ReplaceInSeq
  <2> QED BY <2>2, <2>3 DEF Sized
<1>2. CASE OneMore
  <2>0. PICK name : \E schema \in Schemas :
             /\ tables' = Append(tables, NewTable(name, schema))
             /\ Len(schema) <= MAX_FIELDS_PER_TABLE
             /\ ~(Len(tables) >= MAX_TABLES)
    BY <1>2 DEF OneMore
  <2>1. PICK schema \in Schemas :
             /\ tables' = Append(tables, NewTable(name, schema))
             /\ Len(schema) <= MAX_FIELDS_PER_TABLE
             /\ ~(Len(tables) >= MAX_TABLES)
    BY <2>0
  <2> DEFINE new == NewTable(name, schema)
  <2>2. new.schema = schema
    BY DEF NewTable
  <2> HIDE DEF new
  <2>3. /\ Len(tables') = Len(tables) + 1 /\ DOMAIN tables' = 1 .. Len(tables) + 1
        /\ \A i \in DOMAIN tables : tables'[i] = tables[i]
        /\ tables'[Len(tables) + 1] = new
    BY <1>0, <2>1, AppendIsSeq DEF new
  <2>4. ASSUME NEW i \in DOMAIN tables' PROVE i \in DOMAIN tables \/ i = Len(tables) + 1
    BY <1>0, <2>3
  <2>5. Len(tables') <= MAX_TABLES
    BY <1>0, <2>1, <2>3, DatabaseConstants
  <2> QED BY <2>1, <2>2, <2>3, <2>4, <2>5 DEF Sized
<1> QED BY <1>1, <1>2, EngineShape DEF ShapeKept

-----------------------------------------------------------------------------
(***************************************************************************)
(* The invariant                                                           *)
(***************************************************************************)

\* A complete file holds the text of the tables it was made from
FilesMatch ==
    /\ DOMAIN saved = Files
    /\ \A f \in Files : disk[f].state = "whole" => DocOf(disk[f].doc, saved[f]) /\ ImageOK(saved[f])

\* A save has read no more tables than a database holds, overtaken or not
SavesMatch == \A k \in Savers : Sized(saves[k].image)

\* Records are left to be read for the last table only
Left(i) == IF i = Len(load.tables) THEN load.todo ELSE {}

LoadMatch ==
    /\ DocOf(load.doc, load.image)
    /\ ImageOK(load.image)
    /\ \A i \in DOMAIN load.tables : Arrived(load.tables[i], load.image[i], Left(i))

RInv == Sized(tables) /\ FilesMatch /\ SavesMatch /\ LoadMatch

\* No tables are within the limits, and so is a new or freed database.
LEMMA EmptySized == Sized(<<>>)
BY EmptySeq, DatabaseConstants DEF Sized

LEMMA FreshSized == ASSUME FreshDatabase PROVE Sized(tables')
BY EmptySized DEF FreshDatabase, Sized

\* With no load under way there is nothing to match.
LEMMA NoLoadMatch == ASSUME load' = NoLoad PROVE LoadMatch'
<1>1. NoLoad.doc = <<>> /\ NoLoad.tables = <<>> /\ NoLoad.image = <<>>
  BY DEF NoLoad
<1>2. DocOf(<<>>, <<>>)
  BY DEF DocOf
<1>3. ImageOK(<<>>)
  BY EmptySeq, EmptySized DEF ImageOK
<1> QED BY <1>1, <1>2, <1>3 DEF LoadMatch

\* A load that waits stays as it is, and so does one whose old tables are
\* freed.
LEMMA SameLoadMatch ==
    ASSUME LoadMatch, load'.doc = load.doc, load'.image = load.image,
           load'.tables = load.tables, load'.todo = load.todo
    PROVE  LoadMatch'
BY DEF LoadMatch, Left

\* Files that stay as they are stay what they were made from.
LEMMA SameFiles == ASSUME FilesMatch, UNCHANGED <<disk, saved>> PROVE FilesMatch'
BY DEF FilesMatch

\* A file that is not complete matches anything.
LEMMA UnreadFile ==
    ASSUME DiskOK, FilesMatch, NEW f \in Files, NEW c, c.state # "whole", NEW ts,
           disk' = [disk EXCEPT ![f] = c], saved' = [saved EXCEPT ![f] = ts]
    PROVE  FilesMatch'
BY DEF FilesMatch, DiskOK

-----------------------------------------------------------------------------
(***************************************************************************)
(* What a step makes of the sizes of saves under way                       *)
(***************************************************************************)

\* One save moves on.
LEMMA OneSized ==
    ASSUME SavesOK, SavesMatch, NEW k \in Savers, NEW s, Sized(s.image),
           saves' = [saves EXCEPT ![k] = s]
    PROVE  SavesMatch'
BY DEF SavesOK, SavesMatch

\* Marking a save (Overtaken) leaves what it has read alone.
LEMMA OvertakenSized == ASSUME SavesOK, SavesMatch, saves' = Overtaken PROVE SavesMatch'
<1>1. ASSUME NEW k \in Savers PROVE saves'[k].image = saves[k].image
  BY DEF Overtaken, SavesOK, SaveOK
<1> QED BY <1>1 DEF SavesMatch

\* The tables one list has beyond the length of another make no list longer
\* than both.
LEMMA ConcatSized ==
    ASSUME NEW s, ImageOK(s), NEW t, ImageOK(t)
    PROVE  Sized(s \o SubSeq(t, Len(s) + 1, Len(t)))
<1> DEFINE R == {s[i] : i \in DOMAIN s} \cup {t[i] : i \in DOMAIN t}
           rest == SubSeq(t, Len(s) + 1, Len(t))
           u == s \o rest
<1>1. /\ Len(s) \in Nat /\ DOMAIN s = 1 .. Len(s) /\ s = [i \in 1 .. Len(s) |-> s[i]]
      /\ Len(t) \in Nat /\ DOMAIN t = 1 .. Len(t) /\ t = [i \in 1 .. Len(t) |-> t[i]]
  BY SeqDomain DEF ImageOK, GoodTables
<1>2. \A x \in R : Len(x.schema) <= MAX_FIELDS_PER_TABLE
  BY DEF ImageOK, Sized
<1>3. (\A i \in DOMAIN s : s[i] \in R) /\ (\A i \in DOMAIN t : t[i] \in R)
  OBVIOUS
<1>4. Len(s) <= MAX_TABLES /\ Len(t) <= MAX_TABLES /\ MAX_TABLES \in Nat
  BY DatabaseConstants DEF ImageOK, Sized
<1> HIDE DEF R
<1>5. s \in Seq(R) /\ t \in Seq(R)
  <2>1. s \in [1 .. Len(s) -> R] /\ t \in [1 .. Len(t) -> R]
    BY <1>1, <1>3
  <2> QED BY <1>1, <2>1, FunctionIsSeq
<1>6. rest \in Seq(R)
  BY <1>1, <1>5
<1>7. Len(rest) = IF Len(s) < Len(t) THEN Len(t) - Len(s) ELSE 0
  BY <1>1, <1>5
<1> HIDE DEF rest
<1>8. u \in Seq(R) /\ Len(u) = Len(s) + Len(rest)
  BY <1>5, <1>6
<1> HIDE DEF u
<1>9. Len(u) <= MAX_TABLES
  <2> DEFINE a == Len(s)
             b == Len(t)
             c == Len(rest)
  <2>1. a \in Nat /\ b \in Nat /\ a <= MAX_TABLES /\ b <= MAX_TABLES /\ MAX_TABLES \in Nat
    BY <1>1, <1>4
  <2>2. c = (IF a < b THEN b - a ELSE 0) /\ Len(u) = a + c
    BY <1>7, <1>8
  <2> HIDE DEF a, b, c
  <2> QED BY <2>1, <2>2
<1>10. \A i \in DOMAIN u : u[i] \in R
  BY <1>8
<1>11. Sized(u)
  BY <1>2, <1>9, <1>10 DEF Sized
<1> QED BY <1>11 DEF u, rest

\* A save that keeps its handle has read the tables of one database.
LEMMA DetachedSized ==
    ASSUME IInv, Sized(tables), SavesOK, SavesMatch, saves' = Detached
    PROVE  SavesMatch'
<1> DEFINE All(s) == s.image \o SubSeq(tables, Len(s.image) + 1, Len(tables))
<1>1. ASSUME NEW k \in Savers PROVE saves'[k].image \in {saves[k].image, All(saves[k])}
  BY DEF Detached, SavesOK, SaveOK
<1>2. ASSUME NEW k \in Savers PROVE Sized(All(saves[k]))
  <2>1. ImageOK(tables) /\ ImageOK(saves[k].image)
    BY TheTables DEF ImageOK, SavesOK, SaveOK, SavesMatch
  <2> QED BY <2>1, ConcatSized
<1> HIDE DEF All
<1> QED BY <1>1, <1>2 DEF SavesMatch

\* The process has ended.
LEMMA EndedSized == ASSUME saves' = [k \in Savers |-> NoSave] PROVE SavesMatch'
<1>1. NoSave.image = <<>>
  BY DEF NoSave
<1> QED BY <1>1, EmptySized DEF SavesMatch

-----------------------------------------------------------------------------
(***************************************************************************)
(* Every step keeps the invariant                                          *)
(***************************************************************************)

\* A save that begins has read nothing.
LEMMA StartSaveMatch == ASSUME PInv, RInv, NEW k, NEW file, StartSave(k, file) PROVE RInv'
<1> DEFINE s == [stage |-> "reading", file |-> file, image |-> <<>>, overtaken |-> load.op = "swap"]
<1>1. /\ k \in Savers /\ saves' = [saves EXCEPT ![k] = s]
      /\ tables' = tables /\ load' = load /\ disk' = disk /\ saved' = saved
  BY DEF StartSave, vars
<1>2. Sized(s.image)
  BY EmptySized
<1> HIDE DEF s
<1> QED BY <1>1, <1>2, OneSized, SameFiles, SameLoadMatch DEF RInv, PInv

\* One that reads on reads no more than there are tables.
LEMMA SerializeMatch == ASSUME PInv, RInv, NEW k \in Savers, SerializeTable(k) PROVE RInv'
<1> DEFINE image == saves[k].image
           n == Len(image)
           more == Append(image, tables[n + 1])
           s == [saves[k] EXCEPT !.image = more]
<1>1. /\ n < Len(tables) /\ saves' = [saves EXCEPT ![k] = s]
      /\ tables' = tables /\ load' = load /\ disk' = disk /\ saved' = saved
  BY DEF SerializeTable, Unserialized, vars
<1>2. IsSeq(tables) /\ SaveOK(saves[k]) /\ IsSeq(image) /\ Sized(image) /\ Sized(tables)
  BY TheTables DEF PInv, SavesOK, SaveOK, GoodTables, RInv, SavesMatch
<1>3. n \in Nat /\ Len(tables) \in Nat /\ DOMAIN tables = 1 .. Len(tables) /\ DOMAIN image = 1 .. n
  BY <1>2, SeqDomain
<1>4. /\ Len(more) = n + 1 /\ DOMAIN more = 1 .. n + 1
      /\ \A i \in DOMAIN image : more[i] = image[i]
      /\ more[n + 1] = tables[n + 1]
  BY <1>2, AppendIsSeq
<1> HIDE DEF more
<1>5. s.image = more
  BY <1>2 DEF SaveOK
<1> HIDE DEF s, image, n
<1>6. n + 1 \in DOMAIN tables /\ Len(more) <= Len(tables)
  BY <1>1, <1>3, <1>4
<1>7. \A i \in DOMAIN more : i \in DOMAIN image \/ i = n + 1
  BY <1>3, <1>4
<1>8. Len(more) \in Nat /\ Len(more) <= MAX_TABLES
  BY <1>2, <1>3, <1>4, <1>6, DatabaseConstants DEF Sized
<1>9. Sized(more)
  BY <1>2, <1>4, <1>6, <1>7, <1>8 DEF Sized
<1> QED BY <1>1, <1>5, <1>9, OneSized, SameFiles, SameLoadMatch DEF RInv, PInv

\* fopen empties the file, which is not complete before it is written.
LEMMA OpenFileMatch == ASSUME PInv, RInv, NEW k \in Savers, OpenFile(k) PROVE RInv'
<1>1. /\ disk' = [disk EXCEPT ![saves[k].file] = Torn] /\ saved' = [saved EXCEPT ![saves[k].file] = <<>>]
      /\ tables' = tables /\ load' = load
  BY DEF OpenFile, vars
<1>2. saves[k].file \in Files /\ Torn.state # "whole"
  BY DEF PInv, SavesOK, SaveOK, Torn
<1>3. FilesMatch'
  BY <1>1, <1>2, UnreadFile DEF RInv, PInv
<1>4. PICK s : /\ saves' = [saves EXCEPT ![k] = s]
               /\ \/ s = Ready(saves[k], "writing", saves[k].image)
                  \/ s = Ready(saves[k], "garbled", <<>>)
  BY DEF OpenFile
<1>5. s.image \in {saves[k].image, <<>>}
  BY <1>4 DEF Ready
<1>6. SavesMatch'
  BY <1>4, <1>5, EmptySized, OneSized DEF RInv, PInv, SavesMatch
<1> QED BY <1>1, <1>3, <1>6, SameLoadMatch DEF RInv

\* fwrite: the file is now the text of the tables read, or not complete.
LEMMA EndSaveMatch == ASSUME PInv, RInv, NEW k \in Savers, EndSave(k) PROVE RInv'
<1> DEFINE image == saves[k].image
           doc == Document(image)
<1>1. saves[k].file \in Files /\ ImageOK(image)
  BY DEF PInv, SavesOK, SaveOK, RInv, SavesMatch, ImageOK
<1>2. FilesMatch'
  <2>1. CASE /\ disk' = [disk EXCEPT ![saves[k].file] = Whole(doc)]
             /\ saved' = [saved EXCEPT ![saves[k].file] = image]
    <3>1. DocOf(doc, image)
      BY DEF DocOf, Document
    <3> HIDE DEF doc, image
    <3>2. Whole(doc).doc = doc
      BY DEF Whole
    <3> QED BY <1>1, <2>1, <3>1, <3>2 DEF FilesMatch, RInv, PInv, DiskOK
  <2>2. CASE /\ disk' = [disk EXCEPT ![saves[k].file] = Torn]
             /\ saved' = [saved EXCEPT ![saves[k].file] = <<>>]
    <3>1. Torn.state # "whole"
      BY DEF Torn
    <3> QED BY <1>1, <2>2, <3>1, UnreadFile DEF RInv, PInv
  <2>3. CASE UNCHANGED <<disk, saved>>
    BY <2>3, SameFiles DEF RInv
  <2> QED BY <2>1, <2>2, <2>3 DEF EndSave, WriteFile
<1>3. CASE ProcessEnds
  BY <1>2, <1>3, FreshSized, EndedSized, NoLoadMatch DEF ProcessEnds, RInv
<1>4. CASE saves' = [saves EXCEPT ![k] = NoSave] /\ UNCHANGED <<vars, open, load>>
  <2>1. tables' = tables /\ load' = load /\ Sized(NoSave.image)
    BY <1>4, EmptySized DEF vars, NoSave
  <2> QED BY <1>2, <1>4, <2>1, OneSized, SameLoadMatch DEF RInv, PInv
<1> QED BY <1>3, <1>4 DEF EndSave

\* The database is replaced by an empty one, or none.
LEMMA FreshCallMatch ==
    ASSUME PInv, RInv, FreshDatabase, saves' = Detached \/ saves' = Overtaken, load' = NoLoad,
           UNCHANGED <<disk, saved>>
    PROVE  RInv'
<1>1. SavesMatch'
  BY OvertakenSized, DetachedSized DEF PInv, RInv
<1> QED BY <1>1, FreshSized, SameFiles, NoLoadMatch DEF RInv

\* A load that fails.
LEMMA LoadFailedMatch == ASSUME PInv, RInv, NEW op, LoadFailed(op) PROVE RInv'
<1>1. load' = NoLoad /\ UNCHANGED <<disk, saved>>
  BY DEF LoadFailed
<1>2. CASE UNCHANGED <<open, saves, tables, txn, batch, ret>>
  <2>1. SavesMatch' /\ Sized(tables')
    BY <1>2 DEF RInv, SavesMatch
  <2> QED BY <1>1, <2>1, NoLoadMatch, SameFiles DEF RInv
<1>3. CASE open' = FALSE /\ saves' = Detached /\ FreshDatabase
  BY <1>1, <1>3, FreshCallMatch
<1> QED BY <1>2, <1>3 DEF LoadFailed

\* A load that starts, or fails at once.
LEMMA StartLoadMatch ==
    ASSUME PInv, RInv, NEW op, NEW file \in Files, StartLoad(op, file)
    PROVE  RInv'
<1>1. CASE LoadFailed(op)
  BY <1>1, LoadFailedMatch
<1>2. CASE /\ disk[file].state = "whole"
           /\ load' = Loading(op, saved[file], disk[file].doc, <<>>, {})
           /\ UNCHANGED <<vars, open, disk, saves, saved>>
  <2>1. load'.doc = disk[file].doc /\ load'.tables = <<>> /\ load'.image = saved[file]
    BY <1>2 DEF Loading
  <2>2. LoadMatch'
    BY <1>2, <2>1 DEF RInv, FilesMatch, LoadMatch
  <2>3. tables' = tables /\ saves' = saves
    BY <1>2 DEF vars
  <2> QED BY <1>2, <2>2, <2>3, SameFiles DEF RInv, SavesMatch
<1> QED BY <1>1, <1>2 DEF StartLoad

\* Sequences with the same domain have the same length.
LEMMA SameInterval == ASSUME NEW a \in Nat, NEW b \in Nat, 1 .. a = 1 .. b PROVE a = b
<1>1. ASSUME a < b PROVE FALSE
  <2>1. b \in 1 .. b /\ b \notin 1 .. a
    BY <1>1
  <2> QED BY <2>1
<1>2. ASSUME b < a PROVE FALSE
  <2>1. a \in 1 .. a /\ a \notin 1 .. b
    BY <1>2
  <2> QED BY <2>1
<1> QED BY <1>1, <1>2

\* Where a load stands: the next table of the document, and of the image.
LEMMA LoadShape ==
    ASSUME PInv, LoadMatch
    PROVE  LET old == load.image
           IN  /\ Len(load.tables) \in Nat /\ DOMAIN load.tables = 1 .. Len(load.tables)
               /\ Len(load.doc) \in Nat /\ DOMAIN load.doc = 1 .. Len(load.doc)
               /\ DOMAIN load.doc = DOMAIN old /\ Len(old) = Len(load.doc)
               /\ Len(load.tables) <= Len(load.doc)
               /\ IsSeq(load.tables)
               /\ \A i \in DOMAIN old : load.doc[i] = json_serialize_table(old[i]) /\ TableInv(old[i])
<1> DEFINE old == load.image
<1>1. IsSeq(load.tables) /\ IsSeq(load.doc) /\ Len(load.tables) <= Len(load.doc)
  BY DEF PInv, LoadOK, GoodDoc, GoodTables
<1>2. IsSeq(old) /\ DOMAIN load.doc = DOMAIN old
      /\ \A i \in DOMAIN old : load.doc[i] = json_serialize_table(old[i]) /\ TableInv(old[i])
  BY DEF LoadMatch, DocOf, ImageOK, GoodTables
<1>3. /\ Len(load.tables) \in Nat /\ DOMAIN load.tables = 1 .. Len(load.tables)
      /\ Len(load.doc) \in Nat /\ DOMAIN load.doc = 1 .. Len(load.doc)
      /\ Len(old) \in Nat /\ DOMAIN old = 1 .. Len(old)
  BY <1>1, <1>2, SeqDomain
<1>4. Len(old) = Len(load.doc)
  BY <1>2, <1>3, SameInterval
<1> QED BY <1>1, <1>2, <1>3, <1>4

\* The next table of the file: the first table of the document that is not
\* among those read.
LEMMA LoadTableMatch == ASSUME PInv, RInv, LoadTable PROVE RInv'
<1> DEFINE m == Len(load.tables)
           d == load.doc[m + 1]
           old == load.image
           new == NewTable(d.name, ReadSchema(d.schema))
<1>1. load.todo = {} /\ m < Len(load.doc)
  BY DEF LoadTable
<1>2. /\ m \in Nat /\ DOMAIN load.tables = 1 .. m /\ IsSeq(load.tables)
      /\ m + 1 \in DOMAIN old /\ d = json_serialize_table(old[m + 1])
  BY <1>1, LoadShape DEF RInv
<1>3. CASE LoadFailed(load.op)
  BY <1>3, LoadFailedMatch
<1>4. CASE /\ load' = Loading(load.op, load.image, load.doc, Append(load.tables, new), DOMAIN d.records)
           /\ UNCHANGED <<tables, txn, batch, ret, open, disk, saves, saved>>
  <2>1. /\ load'.image = load.image /\ load'.doc = load.doc
        /\ load'.tables = Append(load.tables, new) /\ load'.todo = DOMAIN d.records
    BY <1>4 DEF Loading
  <2>2. Arrived(new, old[m + 1], DOMAIN d.records)
    BY <1>2, TableArrives
  <2> HIDE DEF new
  <2>3. /\ Len(load'.tables) = m + 1 /\ DOMAIN load'.tables = 1 .. m + 1
        /\ \A i \in DOMAIN load.tables : load'.tables[i] = load.tables[i]
        /\ load'.tables[m + 1] = new
    BY <1>2, <2>1, AppendIsSeq
  <2> HIDE DEF d
  <2>4. ASSUME NEW i \in DOMAIN load'.tables PROVE Arrived(load'.tables[i], old[i], Left(i)')
    <3>1. CASE i = m + 1
      BY <2>1, <2>2, <2>3, <3>1 DEF Left
    <3>2. CASE i \in DOMAIN load.tables
      <4>1. Arrived(load.tables[i], old[i], Left(i)) /\ Left(i) = {}
        BY <1>1, <3>2 DEF RInv, LoadMatch, Left
      <4>2. Left(i)' = {}
        BY <1>2, <2>3, <3>2 DEF Left
      <4> QED BY <2>3, <3>2, <4>1, <4>2
    <3> QED BY <1>2, <2>3, <3>1, <3>2
  <2>5. LoadMatch'
    BY <2>1, <2>4 DEF RInv, LoadMatch
  <2> QED BY <1>4, <2>5, SameFiles DEF RInv, SavesMatch
<1> QED BY <1>3, <1>4 DEF LoadTable

\* The record a load reads next is one of those left of the original.
LEMMA NextRecord ==
    ASSUME PInv, LoadMatch, load.todo # {}
    PROVE  LET last == Len(load.tables)
               n == CHOOSE m \in load.todo : \A k \in load.todo : k <= m
               old == load.image[last]
           IN  /\ last \in DOMAIN load.tables /\ last \in DOMAIN load.image
               /\ n \in load.todo
               /\ TableInv(old) /\ TableInv(load.tables[last])
               /\ load.doc[last] = json_serialize_table(old)
               /\ Arrived(load.tables[last], old, load.todo)
<1> DEFINE last == Len(load.tables)
           n == CHOOSE m \in load.todo : \A k \in load.todo : k <= m
           old == load.image[last]
           nodes == old.nodes
<1>1. last >= 1 /\ GoodTables(load.tables)
  BY DEF PInv, LoadOK
<1>2. /\ last \in DOMAIN load.tables /\ last \in DOMAIN load.image
      /\ load.doc[last] = json_serialize_table(old) /\ TableInv(old)
  BY <1>1, LoadShape
<1>3. TableInv(load.tables[last]) /\ Arrived(load.tables[last], old, load.todo)
  BY <1>1, <1>2 DEF GoodTables, LoadMatch, Left
<1>4. n \in load.todo
  <2>1. load.todo \subseteq DOMAIN old.records /\ DOMAIN old.records \subseteq 1 .. nodes /\ nodes \in Int
    <3> HIDE DEF old
    <3>1. load.todo \subseteq DOMAIN old.records
      BY <1>3 DEF Arrived
    <3>2. DOMAIN old.records \subseteq 1 .. nodes /\ nodes \in Int
      BY <1>2 DEF TableInv, TableOK
    <3> QED BY <3>1, <3>2
  <2> HIDE DEF nodes
  <2>2. load.todo \subseteq Int /\ \A x \in load.todo : x <= nodes
    BY <2>1
  <2>3. \E m \in load.todo : \A k \in load.todo : k <= m
    BY <2>1, <2>2, GreatestInt
  <2> QED BY <2>3
<1> HIDE DEF n
<1>5. /\ last \in DOMAIN load.tables /\ last \in DOMAIN load.image
      /\ n \in load.todo
      /\ TableInv(old) /\ TableInv(load.tables[last])
      /\ load.doc[last] = json_serialize_table(old)
      /\ Arrived(load.tables[last], old, load.todo)
  BY <1>2, <1>3, <1>4
<1> QED BY <1>5 DEF n

\* The next record of the last table read: added, or skipped for its id.
LEMMA LoadRecordMatch == ASSUME PInv, RInv, LoadRecord PROVE RInv'
<1> DEFINE last == Len(load.tables)
           n == CHOOSE m \in load.todo : \A k \in load.todo : k <= m
           rec == load.doc[last].records[n]
           t == load.tables[last]
           old == load.image[last]
           r == IF Unparsable(load.doc[last].schema, rec)
                THEN Rejected(t, global_counter, "ERROR_INVALID_INPUT")
                ELSE IF rec.id = -1 THEN Rejected(t, global_counter, "SUCCESS")
                ELSE table_insert_record(t, ReadRow(t.schema, rec), global_counter)
<1>1. /\ load.todo # {}
      /\ IF r.code \notin {"SUCCESS", "ERROR_DUPLICATE_KEY"}
         THEN LoadFailed(load.op)
         ELSE /\ load' = Loading(load.op, load.image, load.doc, [load.tables EXCEPT ![last] = r.table], Unread(n))
              /\ UNCHANGED <<tables, txn, batch, ret, open, disk, saves, saved>>
  BY DEF LoadRecord
<1>2. /\ last \in DOMAIN load.tables /\ n \in load.todo
      /\ TableInv(old) /\ TableInv(t)
      /\ load.doc[last] = json_serialize_table(old)
      /\ Arrived(t, old, load.todo)
  BY <1>1, NextRecord DEF RInv
<1>3. IsSeq(load.tables)
  BY DEF PInv, LoadOK, GoodTables
<1> HIDE DEF n, old, t
<1>4. rec.id = old.records[n].id
  <2>1. n \in DOMAIN old.records
    BY <1>2 DEF Arrived
  <2> QED BY <1>2, <2>1 DEF json_serialize_table, json_serialize_table_records
<1> HIDE DEF rec
<1>5. CASE LoadFailed(load.op)
  BY <1>5, LoadFailedMatch
<1>6. CASE /\ r.code \in {"SUCCESS", "ERROR_DUPLICATE_KEY"}
           /\ load' = Loading(load.op, load.image, load.doc, [load.tables EXCEPT ![last] = r.table], Unread(n))
           /\ UNCHANGED <<tables, txn, batch, ret, open, disk, saves, saved>>
  <2>1. Arrived(r.table, old, load.todo \ {n})
    <3>1. CASE Unparsable(load.doc[last].schema, rec)
      BY <1>6, <3>1 DEF Rejected
    <3>2. CASE ~Unparsable(load.doc[last].schema, rec) /\ rec.id = -1
      <4>1. r.table = t
        BY <3>2 DEF Rejected
      <4> QED BY <1>2, <1>4, <3>2, <4>1, RecordSkipped
    <3>3. CASE ~Unparsable(load.doc[last].schema, rec) /\ rec.id # -1
      <4> DEFINE row == ReadRow(t.schema, rec)
      <4>1. r = table_insert_record(t, row, global_counter)
        BY <3>3
      <4>2. rec = json_serialize_table(old).records[n]
        BY <1>2 DEF rec
      <4> HIDE DEF r, row
      <4>3. row = ReadRow(t.schema, rec)
        BY DEF row
      <4> DEFINE c == global_counter
      <4>4. r = table_insert_record(t, row, c)
        BY <4>1
      <4> HIDE DEF c
      <4>5. TableInv(old) /\ Arrived(t, old, load.todo) /\ n \in load.todo /\ rec.id # -1
        BY <1>2, <3>3
      <4>6. r.table = AddRecord(t, rec.id, row)
        BY <4>2, <4>3, <4>4, <4>5, RecordAccepted
      <4> QED BY <1>2, <3>3, <4>2, <4>3, <4>6, RecordArrived DEF TableInv
    <3> QED BY <3>1, <3>2, <3>3
  <2> HIDE DEF r
  <2>2. /\ load'.image = load.image /\ load'.doc = load.doc
        /\ load'.tables = [load.tables EXCEPT ![last] = r.table] /\ load'.todo = load.todo \ {n}
    BY <1>6 DEF Loading, Unread
  <2>3. /\ Len(load'.tables) = last /\ DOMAIN load'.tables = DOMAIN load.tables
        /\ load'.tables[last] = r.table
        /\ \A i \in DOMAIN load.tables : i # last => load'.tables[i] = load.tables[i]
    BY <1>2, <1>3, <2>2, ReplaceInSeq
  <2>4. ASSUME NEW i \in DOMAIN load'.tables
        PROVE  Arrived(load'.tables[i], load.image[i], Left(i)')
    <3>1. CASE i = last
      <4>1. Left(i)' = load.todo \ {n}
        <5>1. Left(i)' = load'.todo
          BY <2>3, <3>1 DEF Left
        <5> QED BY <2>2, <5>1
      <4> QED BY <2>1, <2>3, <3>1, <4>1 DEF old
    <3>2. CASE i # last
      <4>1. Left(i) = {} /\ Left(i)' = {}
        BY <2>3, <3>2 DEF Left
      <4>2. Arrived(load.tables[i], load.image[i], Left(i))
        BY <2>3 DEF RInv, LoadMatch
      <4> QED BY <2>3, <3>2, <4>1, <4>2
    <3> QED BY <3>1, <3>2
  <2>5. LoadMatch'
    BY <2>2, <2>4 DEF RInv, LoadMatch
  <2> QED BY <1>6, <2>5, SameFiles DEF RInv, SavesMatch
<1> QED BY <1>1, <1>5, <1>6

\* The database read is within the limits the one that was saved was in.
LEMMA LoadedMatch ==
    ASSUME PInv, RInv, AllRead, Loaded, saves' = Detached \/ UNCHANGED saves
    PROVE  RInv'
<1> DEFINE old == load.image
<1>1. /\ load.todo = {} /\ Len(load.tables) = Len(load.doc)
      /\ tables' = load.tables /\ load' = NoLoad /\ UNCHANGED <<disk, saved>>
  BY DEF AllRead, Loaded
<1>2. /\ DOMAIN load.tables = DOMAIN old /\ Len(load.tables) = Len(old)
      /\ \A i \in DOMAIN old : TableInv(old[i])
  BY <1>1, LoadShape DEF RInv
<1>3. GoodTables(load.tables) /\ Sized(old)
  BY DEF PInv, LoadOK, RInv, LoadMatch, ImageOK
<1>4. ASSUME NEW i \in DOMAIN load.tables PROVE Len(load.tables[i].schema) = Len(old[i].schema)
  <2> DEFINE a == load.tables[i].schema
             b == old[i].schema
  <2>1. a = ReadSchema(b)
    BY DEF RInv, LoadMatch, Arrived
  <2>2. a \in Seq(FieldDef) /\ b \in Seq(FieldDef)
    BY <1>2, <1>3, DatabaseConstants DEF GoodTables, TableInv, TableOK
  <2>3. DOMAIN a = DOMAIN b
    BY <2>1 DEF ReadSchema
  <2> HIDE DEF a, b
  <2>4. Len(a) \in Nat /\ Len(b) \in Nat /\ 1 .. Len(a) = 1 .. Len(b)
    BY <2>2, <2>3
  <2> QED BY <2>4, SameInterval DEF a, b
<1>5. Sized(tables')
  BY <1>1, <1>2, <1>3, <1>4 DEF Sized
<1>6. SavesMatch'
  <2>1. CASE saves' = Detached
    BY <2>1, DetachedSized DEF PInv, RInv
  <2>2. CASE UNCHANGED saves
    BY <2>2 DEF RInv, SavesMatch
  <2> QED BY <2>1, <2>2
<1> QED BY <1>1, <1>5, <1>6, NoLoadMatch, SameFiles DEF RInv

\* The old tables are freed.
LEMMA FreeOldMatch == ASSUME PInv, RInv, FreeOld PROVE RInv'
<1>1. /\ load' = [load EXCEPT !.op = "swap"] /\ saves' = Overtaken
      /\ tables' = tables /\ disk' = disk /\ saved' = saved
  BY DEF FreeOld, vars
<1>2. load'.doc = load.doc /\ load'.image = load.image /\ load'.tables = load.tables /\ load'.todo = load.todo
  BY <1>1 DEF PInv, LoadOK
<1> QED BY <1>1, <1>2, OvertakenSized, SameLoadMatch, SameFiles DEF RInv, PInv

\* A call of the engine, or a step of one.
LEMMA EngineMatch == ASSUME PInv, RInv, Engine PROVE RInv'
<1>1. /\ load' = NoLoad /\ UNCHANGED <<disk, saved>> /\ Next
      /\ UNCHANGED saves \/ saves' = Overtaken
  BY DEF Engine, Quiet
<1>2. Sized(tables')
  BY <1>1, EngineSized DEF PInv, RInv
<1>3. SavesMatch'
  <2>1. CASE UNCHANGED saves
    BY <2>1 DEF RInv, SavesMatch
  <2>2. CASE saves' = Overtaken
    BY <2>2, OvertakenSized DEF RInv, PInv
  <2> QED BY <1>1, <2>1, <2>2
<1> QED BY <1>1, <1>2, <1>3, SameFiles, NoLoadMatch DEF RInv

\* remove() of a backup.
LEMMA DeleteBackupMatch == ASSUME PInv, RInv, NEW file \in Files, db_delete_backup(file) PROVE RInv'
<1>1. /\ tables' = tables /\ saves' = saves /\ load' = load
      /\ disk' = [disk EXCEPT ![file] = Absent] /\ saved' = [saved EXCEPT ![file] = <<>>]
  BY DEF db_delete_backup, vars
<1>2. Absent.state # "whole"
  BY DEF Absent
<1>3. FilesMatch'
  BY <1>1, <1>2, UnreadFile DEF RInv, PInv
<1> QED BY <1>1, <1>3, SameLoadMatch DEF RInv, SavesMatch

\* The first start of the program, with no files.
LEMMA RInitInv == PInit => RInv
<1> SUFFICES ASSUME PInit PROVE RInv
  OBVIOUS
<1>1. Sized(tables)
  BY EmptySized DEF PInit, Init
<1>2. FilesMatch
  BY DEF PInit, FilesMatch, Absent
<1>3. SavesMatch
  <2>1. NoSave.image = <<>>
    BY DEF NoSave
  <2> QED BY <2>1, EmptySized DEF PInit, SavesMatch
<1>4. LoadMatch
  <2>1. NoLoad.doc = <<>> /\ NoLoad.tables = <<>> /\ NoLoad.image = <<>>
    BY DEF NoLoad
  <2>2. DocOf(<<>>, <<>>) /\ ImageOK(<<>>)
    BY EmptySeq, EmptySized DEF DocOf, ImageOK
  <2> QED BY <2>1, <2>2 DEF PInit, LoadMatch
<1> QED BY <1>1, <1>2, <1>3, <1>4 DEF RInv

\* Every step keeps the invariant.
LEMMA RStepInv == PInv /\ RInv /\ [PNext]_allvars => RInv'
<1> SUFFICES ASSUME PInv, RInv, [PNext]_allvars PROVE RInv'
  OBVIOUS
<1>1. CASE Engine
  BY <1>1, EngineMatch
<1>2. CASE db_create \/ db_close
  <2>1. /\ load' = NoLoad /\ FreshDatabase /\ (saves' = Detached \/ saves' = Overtaken)
        /\ UNCHANGED <<disk, saved>>
    BY <1>2 DEF db_create, db_close, Quiet
  <2> QED BY <2>1, FreshCallMatch
<1>3. ASSUME NEW f \in Files, db_save_to_file(f) PROVE RInv'
  BY <1>3, StartSaveMatch DEF db_save_to_file
<1>4. ASSUME NEW f \in Files, db_open(f) PROVE RInv'
  <2>1. CASE StartLoad("load", f)
    BY <2>1, StartLoadMatch
  <2>2. CASE saves' = Detached /\ FreshDatabase /\ UNCHANGED <<disk, load, saved>>
    <3>1. load' = NoLoad
      BY <1>4, <2>2 DEF db_open, Quiet
    <3> QED BY <2>2, <3>1, FreshCallMatch
  <2> QED BY <1>4, <2>1, <2>2 DEF db_open
<1>5. ASSUME NEW f \in Files, db_restore_backup(f) PROVE RInv'
  BY <1>5, StartLoadMatch DEF db_restore_backup
<1>6. ASSUME NEW f \in Files, db_delete_backup(f) PROVE RInv'
  BY <1>6, DeleteBackupMatch
<1>7. ASSUME NEW second \in DOMAIN BackupFile, db_create_backup(second) PROVE RInv'
  BY <1>7, StartSaveMatch DEF db_create_backup
<1>8. ASSUME NEW k \in Savers, SaveStep(k) PROVE RInv'
  BY <1>8, SerializeMatch, OpenFileMatch, EndSaveMatch DEF SaveStep
<1>9. CASE LoadStep
  <2>1. CASE EndLoad
    BY <2>1, LoadedMatch DEF EndLoad
  <2>2. CASE Install
    <3>1. AllRead /\ Loaded /\ UNCHANGED saves
      BY <2>2 DEF Install, PInv, LoadOK
    <3> QED BY <3>1, LoadedMatch
  <2> QED BY <1>9, <2>1, <2>2, LoadTableMatch, LoadRecordMatch, FreeOldMatch DEF LoadStep
<1>10. CASE Interrupt \/ Terminate
  BY <1>10, StartSaveMatch DEF Interrupt, Terminate
<1>11. CASE Crash
  BY <1>11, FreshSized, SameFiles, EndedSized, NoLoadMatch DEF Crash, ProcessEnds, RInv
<1>12. CASE UNCHANGED allvars
  <2>1. tables' = tables /\ UNCHANGED <<disk, saves, load, saved>>
    BY <1>12 DEF allvars, vars, pvars
  <2> QED BY <2>1, SameFiles, SameLoadMatch DEF RInv, SavesMatch
<1> QED BY <1>1, <1>2, <1>3, <1>4, <1>5, <1>6, <1>7, <1>8, <1>9, <1>10, <1>11, <1>12 DEF PNext

\* What files, saves and loads hold matches the tables they come from, in
\* every reachable state, whatever is saved, loaded, interrupted or lost.
THEOREM ReloadInvariant == PSpec => [](PInv /\ RInv)
<1>1. PSpec => PInit /\ [][PNext]_allvars
  BY DEF PSpec
<1> QED BY <1>1, PInitInv, PStepInv, RInitInv, RStepInv, PTL

\* A load that succeeds brings back every table that was saved: its name as
\* the text has it, its ids except -1, as many records, and of a portable
\* table exactly the values.  For every schema, row and format of values.
THEOREM ReloadsFaithful == PSpec => ReloadFaithful
<1> DEFINE A == EndLoad \/ Install =>
         LET old == load.image
         IN  /\ DOMAIN tables' = DOMAIN old
             /\ \A i \in DOMAIN old :
                   /\ tables'[i].name = Renamed[old[i].name]
                   /\ Ids(tables'[i]) = Ids(old[i]) \ {-1}
                   /\ -1 \notin Ids(old[i]) => tables'[i].record_count = old[i].record_count
                   /\ Portable(old[i]) => Content(tables'[i]) = Content(old[i])
<1>1. PInv /\ RInv /\ [PNext]_allvars => [A]_allvars
  <2> SUFFICES ASSUME PInv, RInv, EndLoad \/ Install
               PROVE  LET old == load.image
                      IN  /\ DOMAIN tables' = DOMAIN old
                          /\ \A i \in DOMAIN old :
                                /\ tables'[i].name = Renamed[old[i].name]
                                /\ Ids(tables'[i]) = Ids(old[i]) \ {-1}
                                /\ -1 \notin Ids(old[i]) => tables'[i].record_count = old[i].record_count
                                /\ Portable(old[i]) => Content(tables'[i]) = Content(old[i])
    OBVIOUS
  <2> DEFINE old == load.image
  <2>1. load.todo = {} /\ tables' = load.tables /\ Len(load.tables) = Len(load.doc)
    <3>1. AllRead /\ Loaded
      BY DEF EndLoad, Install, PInv, LoadOK
    <3> QED BY <3>1 DEF AllRead, Loaded
  <2>2. DOMAIN tables' = DOMAIN old /\ \A i \in DOMAIN old : TableInv(old[i])
    BY <2>1, LoadShape DEF RInv
  <2>3. \A i \in DOMAIN old : Arrived(tables'[i], old[i], {})
    BY <2>1, <2>2 DEF RInv, LoadMatch, Left
  <2> QED BY <2>2, <2>3, TableBack
<1>2. PSpec => [][PNext]_allvars
  BY DEF PSpec
<1>3. PSpec => [][A]_allvars
  BY <1>1, <1>2, ReloadInvariant, PTL
<1> QED BY <1>3 DEF ReloadFaithful

-----------------------------------------------------------------------------
(***************************************************************************)
(* No complete file is refused                                             *)
(***************************************************************************)

\* A record is no JSON in the file exactly if it was none in the table.
LEMMA PrintedUnparsable ==
    ASSUME NEW t, NEW n \in DOMAIN t.records,
           Unparsable(t.schema, json_serialize_table(t).records[n])
    PROVE  Unparsable(t.schema, t.records[n])
<1> DEFINE rec == json_serialize_table(t).records[n]
<1>1. rec.fields = [i \in DOMAIN t.schema |-> json_serialize_field_value(t.records[n].fields[i])]
  BY DEF json_serialize_table, json_serialize_table_records
<1> HIDE DEF rec
<1>2. ASSUME NEW f, json_serialize_field_value(f).type \in {"FLOAT", "DOUBLE"}
      PROVE  json_serialize_field_value(f).type = f.type /\ json_serialize_field_value(f).value = f.value
  BY <1>2 DEF json_serialize_field_value
<1>3. PICK i \in DOMAIN t.schema :
        \/ t.schema[i].name = "broken"
        \/ /\ rec.fields[i].type \in {"FLOAT", "DOUBLE"}
           /\ rec.fields[i].value \in NoNumber[rec.fields[i].type]
  BY DEF Unparsable, rec
<1>4. CASE t.schema[i].name = "broken"
  BY <1>4 DEF Unparsable
<1>5. CASE /\ rec.fields[i].type \in {"FLOAT", "DOUBLE"}
           /\ rec.fields[i].value \in NoNumber[rec.fields[i].type]
  <2>1. rec.fields[i] = json_serialize_field_value(t.records[n].fields[i])
    BY <1>1
  <2> QED BY <1>2, <1>5, <2>1 DEF Unparsable
<1> QED BY <1>3, <1>4, <1>5

\* The text of a table with a name has a name.
LEMMA NamePrinted ==
    ASSUME NEW t, TableOK(t), t.name # ""
    PROVE  json_serialize_table(t).name # ""
<1>1. json_serialize_table(t).name = Renamed[t.name] /\ t.name \in Names
  BY DEF json_serialize_table, TableOK
<1> QED BY <1>1, EscapingKeepsNames, Zenon

\* db_add_table accepts the next table of a loadable database.
LEMMA TableAccepted ==
    ASSUME PInv, RInv, LoadTable, Loadable(load.image)
    PROVE  ~TableRefused(load.doc[Len(load.tables) + 1])
<1> DEFINE m == Len(load.tables)
           d == load.doc[m + 1]
           old == load.image
           t == old[m + 1]
<1>1. load.todo = {} /\ m < Len(load.doc)
  BY DEF LoadTable
<1>2. /\ m \in Nat /\ DOMAIN load.tables = 1 .. m /\ m + 1 \in DOMAIN old /\ Len(old) = Len(load.doc)
      /\ Len(load.doc) \in Nat
      /\ d = json_serialize_table(t) /\ TableInv(t) /\ DOMAIN old = 1 .. Len(load.doc)
  BY <1>1, LoadShape DEF RInv
<1>3. Sized(old)
  BY DEF RInv, LoadMatch, ImageOK
<1>4. d.name # ""
  <2>1. t.name # ""
    BY <1>2 DEF Loadable
  <2> QED BY <1>2, <2>1, NamePrinted DEF TableInv
<1>5. Len(d.schema) \in 1 .. MAX_FIELDS_PER_TABLE
  <2>1. d.schema = t.schema
    BY <1>2 DEF json_serialize_table
  <2>2. t.schema \in Seq(FieldDef) /\ Len(t.schema) >= 1
    BY <1>2, DatabaseConstants DEF TableInv, TableOK
  <2>3. Len(t.schema) <= MAX_FIELDS_PER_TABLE
    BY <1>2, <1>3 DEF Sized
  <2> HIDE DEF t, d
  <2> QED BY <2>1, <2>2, <2>3, DatabaseConstants
<1>6. ASSUME NEW i \in DOMAIN load.tables PROVE load.tables[i].name # d.name
  <2>1. load.tables[i].name = Renamed[old[i].name]
    BY DEF RInv, LoadMatch, Arrived
  <2>2. d.name = Renamed[t.name]
    BY <1>2 DEF json_serialize_table
  <2>3. i \in DOMAIN old /\ i # m + 1
    BY <1>1, <1>2
  <2> QED BY <1>2, <2>1, <2>2, <2>3 DEF Loadable
<1>7. ~(Len(load.tables) >= MAX_TABLES)
  BY <1>1, <1>2, <1>3, DatabaseConstants DEF Sized
<1> HIDE DEF d
<1>8. ~TableRefused(d)
  BY <1>4, <1>5, <1>6, <1>7 DEF TableRefused
<1> QED BY <1>8 DEF d

\* So is the next record.
LEMMA RecordTaken ==
    ASSUME PInv, RInv, LoadRecord, Loadable(load.image)
    PROVE  load' # NoLoad
<1> DEFINE last == Len(load.tables)
           n == CHOOSE m \in load.todo : \A k \in load.todo : k <= m
           rec == load.doc[last].records[n]
           t == load.tables[last]
           old == load.image[last]
           r == IF Unparsable(load.doc[last].schema, rec)
                THEN Rejected(t, global_counter, "ERROR_INVALID_INPUT")
                ELSE IF rec.id = -1 THEN Rejected(t, global_counter, "SUCCESS")
                ELSE table_insert_record(t, ReadRow(t.schema, rec), global_counter)
<1>1. /\ load.todo # {}
      /\ IF r.code \notin {"SUCCESS", "ERROR_DUPLICATE_KEY"}
         THEN LoadFailed(load.op)
         ELSE load' = Loading(load.op, load.image, load.doc, [load.tables EXCEPT ![last] = r.table], Unread(n))
  BY DEF LoadRecord
<1>2. /\ last \in DOMAIN load.tables /\ last \in DOMAIN load.image /\ n \in load.todo
      /\ TableInv(old) /\ load.doc[last] = json_serialize_table(old)
      /\ Arrived(t, old, load.todo)
  BY <1>1, NextRecord DEF RInv
<1>3. IsSeq(load.tables) /\ DOMAIN load.tables # {}
  BY <1>2 DEF PInv, LoadOK, GoodTables
<1> HIDE DEF n, t
<1>4. ~Unparsable(load.doc[last].schema, rec)
  <2>1. load.doc[last].schema = old.schema /\ n \in DOMAIN old.records
    BY <1>2 DEF json_serialize_table, Arrived
  <2>2. ~Unparsable(old.schema, old.records[n])
    BY <1>2, <2>1 DEF Loadable
  <2>3. ~Unparsable(old.schema, json_serialize_table(old).records[n])
    <3> HIDE DEF old
    <3> QED BY <2>1, <2>2, PrintedUnparsable
  <2> QED BY <1>2, <2>1, <2>3
<1>5. rec = json_serialize_table(old).records[n]
  BY <1>2
<1> HIDE DEF rec, old
<1>6. r.code = "SUCCESS"
  <2>1. CASE rec.id = -1
    BY <1>4, <2>1 DEF Rejected
  <2>2. CASE rec.id # -1
    <3> DEFINE row == ReadRow(t.schema, rec)
               c == global_counter
    <3>1. r = table_insert_record(t, row, c)
      BY <1>4, <2>2
    <3>2. row = ReadRow(t.schema, rec)
      OBVIOUS
    <3> HIDE DEF r, row, c
    <3>3. TableInv(old) /\ Arrived(t, old, load.todo) /\ n \in load.todo /\ rec.id # -1
      BY <1>2, <2>2
    <3> QED BY <1>5, <3>1, <3>2, <3>3, RecordAccepted
  <2> QED BY <2>1, <2>2
<1> HIDE DEF r
<1>7. load'.tables = [load.tables EXCEPT ![last] = r.table]
  BY <1>1, <1>6 DEF Loading
<1>8. DOMAIN load'.tables # {} /\ DOMAIN NoLoad.tables = {}
  BY <1>3, <1>7 DEF NoLoad
<1> QED BY <1>8

\* db_load_from_file never refuses a complete file that db_save_to_file wrote
\* of a loadable database, whatever was saved, loaded or interrupted before.
THEOREM WholeFilesReload == PSpec => WholeFilesLoad
<1> DEFINE A == LoadStep /\ Loadable(load.image) => EndLoad \/ Install \/ load' # NoLoad
<1>1. PInv /\ RInv /\ [PNext]_allvars => [A]_allvars
  <2> SUFFICES ASSUME PInv, RInv, Loadable(load.image), LoadStep, ~EndLoad, ~Install
               PROVE  load' # NoLoad
    OBVIOUS
  <2>1. CASE LoadRecord
    BY <2>1, RecordTaken
  <2>2. CASE LoadTable
    <3> DEFINE d == load.doc[Len(load.tables) + 1]
               new == NewTable(d.name, ReadSchema(d.schema))
    <3>1. ~TableRefused(d)
      BY <2>2, TableAccepted
    <3>2. load' = Loading(load.op, load.image, load.doc, Append(load.tables, new), DOMAIN d.records)
      BY <2>2, <3>1 DEF LoadTable
    <3> HIDE DEF new, d
    <3>3. load'.tables = Append(load.tables, new)
      BY <3>2 DEF Loading
    <3>4. Len(load'.tables) = Len(load.tables) + 1 /\ Len(load.tables) \in Nat
      BY <3>3, AppendIsSeq, LoadShape DEF RInv
    <3>5. Len(NoLoad.tables) = 0
      BY EmptySeq DEF NoLoad
    <3> QED BY <3>4, <3>5
  <2>3. CASE FreeOld
    <3>1. load'.op = "swap"
      BY <2>3 DEF FreeOld, PInv, LoadOK
    <3> QED BY <3>1 DEF NoLoad
  <2> QED BY <2>1, <2>2, <2>3 DEF LoadStep
<1>2. PSpec => [][PNext]_allvars
  BY DEF PSpec
<1>3. PSpec => [][A]_allvars
  BY <1>1, <1>2, ReloadInvariant, PTL
<1> QED BY <1>3 DEF WholeFilesLoad
=============================================================================
