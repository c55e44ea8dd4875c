-------------------------- MODULE PersistenceProofs --------------------------
(***************************************************************************)
(* The engine's invariant survives saves, signals, crashes, loads and      *)
(* restores, and the saves of the main thread write the database exactly:  *)
(* proved for every set of files, with any of the handlers, and for any    *)
(* file the program can write.                                             *)
(*                                                                         *)
(* Lemmas about sequences, then about a table on its way to a file and     *)
(* back, then one lemma per kind of step.                                  *)
(***************************************************************************)
EXTENDS Persistence, DatabaseProofs

IsSeq(s) == s \in Seq({s[i] : i \in DOMAIN s})

\* A function on an interval from 1 is a sequence.
LEMMA IntervalIsSeq ==
    ASSUME NEW n \in Nat, NEW s, s = [i \in 1 .. n |-> s[i]]
    PROVE  IsSeq(s) /\ Len(s) = n /\ DOMAIN s = 1 .. n
<1> DEFINE R == {s[i] : i \in DOMAIN s}
<1>1. DOMAIN s = 1 .. n /\ \A i \in 1 .. n : s[i] \in R
  OBVIOUS
<1> HIDE DEF R
<1>2. s \in [1 .. n -> R]
  BY <1>1
<1>3. s \in Seq(R)
  BY <1>2, FunctionIsSeq
<1>4. Len(s) = n
  BY <1>1, <1>3
<1> QED BY <1>1, <1>3, <1>4 DEF IsSeq, R

\* What is known of the domain of a sequence.
LEMMA SeqDomain ==
    ASSUME NEW s, IsSeq(s)
    PROVE  Len(s) \in Nat /\ DOMAIN s = 1 .. Len(s) /\ s = [i \in 1 .. Len(s) |-> s[i]]
<1> DEFINE R == {s[i] : i \in DOMAIN s}
<1>1. s \in Seq(R)
  BY DEF IsSeq
<1> HIDE DEF R
<1> QED BY <1>1

\* A save, or a table, is added at the end of its list.
LEMMA AppendIsSeq ==
    ASSUME NEW s, IsSeq(s), NEW e
    PROVE  /\ IsSeq(Append(s, e))
           /\ Len(Append(s, e)) = Len(s) + 1
           /\ DOMAIN Append(s, e) = 1 .. Len(s) + 1
           /\ \A i \in DOMAIN s : Append(s, e)[i] = s[i]
           /\ Append(s, e)[Len(s) + 1] = e
<1> DEFINE R == {s[i] : i \in DOMAIN s} \cup {e}
           u == Append(s, e)
<1>1. Len(s) \in Nat /\ DOMAIN s = 1 .. Len(s) /\ s = [i \in 1 .. Len(s) |-> s[i]]
  BY SeqDomain
<1>2. \A i \in 1 .. Len(s) : s[i] \in R
  BY <1>1
<1>3. e \in R
  OBVIOUS
<1> HIDE DEF R
<1>4. s \in Seq(R)
  <2>1. s \in [1 .. Len(s) -> R]
    BY <1>1, <1>2
  <2> QED BY <1>1, <2>1, FunctionIsSeq
<1>5. /\ u \in Seq(R) /\ Len(u) = Len(s) + 1 /\ u[Len(s) + 1] = e
      /\ \A i \in 1 .. Len(s) : u[i] = s[i]
  BY <1>3, <1>4
<1> HIDE DEF u
<1>6. u = [i \in 1 .. Len(s) + 1 |-> u[i]]
  BY <1>5, <1>1
<1>7. IsSeq(u) /\ DOMAIN u = 1 .. Len(s) + 1
  BY <1>1, <1>6, IntervalIsSeq
<1> QED BY <1>1, <1>5, <1>7 DEF u

\* The last table read is replaced when a record is added to it.
LEMMA ReplaceInSeq ==
    ASSUME NEW s, IsSeq(s), NEW i \in DOMAIN s, NEW e
    PROVE  /\ IsSeq([s EXCEPT ![i] = e])
           /\ Len([s EXCEPT ![i] = e]) = Len(s)
           /\ DOMAIN [s EXCEPT ![i] = e] = DOMAIN s
           /\ [s EXCEPT ![i] = e][i] = e
           /\ \A j \in DOMAIN s : j # i => [s EXCEPT ![i] = e][j] = s[j]
<1> DEFINE u == [s EXCEPT ![i] = e]
<1>1. Len(s) \in Nat /\ DOMAIN s = 1 .. Len(s)
  BY SeqDomain
<1>2. u = [j \in 1 .. Len(s) |-> u[j]] /\ u[i] = e /\ \A j \in DOMAIN s : j # i => u[j] = s[j]
  BY <1>1
<1> HIDE DEF u
<1>3. IsSeq(u) /\ Len(u) = Len(s) /\ DOMAIN u = DOMAIN s
  BY <1>1, <1>2, IntervalIsSeq
<1> QED BY <1>2, <1>3 DEF u

-----------------------------------------------------------------------------
(***************************************************************************)
(* A table on its way to a file and back                                   *)
(***************************************************************************)

\* A record of a document: its id, and a field for every field of the schema
DocRecord(d, rec) == rec.id \in CInt /\ rec.fields \in [DOMAIN d.schema -> Field]

\* A table of a document
DocTable(d) ==
    /\ d.name \in Names
    /\ d.schema \in Schemas
    /\ Len(d.schema) >= 1
    /\ \E b \in Nat : DOMAIN d.records \subseteq 1 .. b
    /\ \A n \in DOMAIN d.records : DocRecord(d, d.records[n])

GoodDoc(doc) == IsSeq(doc) /\ \A i \in DOMAIN doc : DocTable(doc[i])
GoodTables(ts) == IsSeq(ts) /\ \A i \in DOMAIN ts : TableInv(ts[i])

\* Small integers are C ints.
LEMMA SmallInts == 0 \in CInt /\ 1 \in CInt /\ -1 \in CInt /\ GLOBAL_COUNTER \in CInt
BY TableConstants DEF CInt

\* A printed value is a value with a type (json_serialize_field_value).
LEMMA PrintedField ==
    ASSUME NEW f \in Field
    PROVE  json_serialize_field_value(f) \in Field
<1>1. f.type \in FieldTypes /\ f.value \in CInt
  BY DEF Field
<1>2. Escaped[f.value] \in CInt
  BY <1>1, JsonConstants
<1> QED BY <1>1, <1>2, SmallInts DEF json_serialize_field_value, Field

\* A consistent table is written as a well-formed one (json_serialize_table).
LEMMA PrintedTable ==
    ASSUME NEW t, TableInv(t)
    PROVE  DocTable(json_serialize_table(t))
<1> DEFINE d == json_serialize_table(t)
           recs == json_serialize_table_records(t)
<1>1. TableOK(t)
  BY DEF TableInv
<1>2. d.name = Renamed[t.name] /\ d.schema = t.schema /\ d.records = recs
  BY DEF json_serialize_table
<1>3. d.name \in Names
  BY <1>1, <1>2, PersistenceConstants DEF TableOK
<1>4. DOMAIN recs = DOMAIN t.records
  BY DEF json_serialize_table_records
<1>5. ASSUME NEW n \in DOMAIN t.records PROVE recs[n].id \in CInt /\ recs[n].fields \in [DOMAIN t.schema -> Field]
  <2>1. /\ recs[n].id = t.records[n].id
        /\ recs[n].fields = [i \in DOMAIN t.schema |-> json_serialize_field_value(t.records[n].fields[i])]
    BY DEF json_serialize_table_records
  <2>2. t.records[n].id \in CInt /\ t.records[n].fields \in Seq(Field) /\ Len(t.records[n].fields) = Len(t.schema)
    BY <1>1 DEF TableOK, Record
  <2>3. t.schema \in Seq(FieldDef)
    BY <1>1, DatabaseConstants DEF TableOK
  <2>4. \A i \in DOMAIN t.schema : t.records[n].fields[i] \in Field
    BY <2>2, <2>3
  <2>5. \A i \in DOMAIN t.schema : json_serialize_field_value(t.records[n].fields[i]) \in Field
    BY <2>4, PrintedField
  <2> QED BY <2>1, <2>2, <2>5
<1>6. t.nodes \in Nat /\ DOMAIN t.records \subseteq 1 .. t.nodes /\ t.schema \in Schemas /\ Len(t.schema) >= 1
  BY <1>1 DEF TableOK
<1> HIDE DEF d, recs
<1>7. DocTable(d)
  BY <1>2, <1>3, <1>4, <1>5, <1>6 DEF DocTable, DocRecord
<1> QED BY <1>7 DEF d

\* A value read is a value of the schema's type (json_parse_field_value).
LEMMA ParsedField ==
    ASSUME NEW type \in FieldTypes, NEW f \in Field
    PROVE  json_parse_field_value(type, f) \in Field
<1>1. f.type \in FieldTypes /\ f.value \in CInt
  BY DEF Field
<1>2. Printed[f.value] \in CInt /\ Remade[f.value] \in CInt
  BY <1>1, JsonConstants
<1>3. Coerced[type][f.type][f.value] \in CInt
  BY <1>1, JsonConstants
<1>4. "NULL" \in FieldTypes
  BY DEF FieldTypes, SchemaTypes
<1> QED BY <1>1, <1>2, <1>3, <1>4, SmallInts DEF json_parse_field_value, Field

\* The row the loader passes to table_insert_record has the fields of the
\* table, whatever the document says (ReadRow).
LEMMA ReadRowFits ==
    ASSUME NEW t, TableOK(t), NEW d, DocTable(d), t.schema = ReadSchema(d.schema),
           NEW rec, DocRecord(d, rec)
    PROVE  Fits(t, ReadRow(t.schema, rec))
<1> DEFINE row == ReadRow(t.schema, rec)
<1>1. t.schema \in Seq(FieldDef) /\ DOMAIN t.schema = DOMAIN d.schema
  BY DatabaseConstants DEF TableOK, ReadSchema
<1>2. rec.id \in CInt /\ \A i \in DOMAIN t.schema : rec.fields[i] \in Field
  BY <1>1 DEF DocRecord
<1>3. ASSUME NEW i \in DOMAIN t.schema PROVE row[i] \in Field
  <2>0. t.schema[i] \in FieldDef
    BY <1>1
  <2>1. t.schema[i].type \in FieldTypes
    BY <2>0 DEF FieldDef, FieldTypes
  <2>2. json_parse_field_value(t.schema[i].type, rec.fields[i]) \in Field
    BY <1>2, <2>1, ParsedField
  <2>3. [type |-> "INT", value |-> rec.id] \in Field
    BY <1>2 DEF Field, FieldTypes, SchemaTypes
  <2>4. [type |-> t.schema[i].type, value |-> 0] \in Field
    BY <2>1, SmallInts DEF Field
  <2> QED BY <2>2, <2>3, <2>4 DEF ReadRow
<1>4. row = [i \in 1 .. Len(t.schema) |-> row[i]] /\ Len(t.schema) \in Nat /\ DOMAIN t.schema = 1 .. Len(t.schema)
  BY <1>1 DEF ReadRow
<1> HIDE DEF row
<1>5. row \in [1 .. Len(t.schema) -> Field]
  BY <1>3, <1>4
<1>6. row \in Seq(Field) /\ Len(row) = Len(t.schema)
  BY <1>4, <1>5
<1> QED BY <1>4, <1>6 DEF Fits, row

\* table_insert_record leaves the schema alone.
LEMMA InsertSchema ==
    ASSUME NEW t, NEW row, NEW counter
    PROVE  table_insert_record(t, row, counter).table.schema = t.schema
<1>1. ASSUME NEW id PROVE AddRecord(t, id, row).schema = t.schema
  BY DEF AddRecord
<1> QED BY <1>1 DEF table_insert_record, InsertWithId, Rejected

\* A table of the document starts empty and consistent (db_add_table).
LEMMA NewTableInv ==
    ASSUME NEW d, DocTable(d)
    PROVE  TableInv(NewTable(d.name, ReadSchema(d.schema)))
<1> DEFINE schema == ReadSchema(d.schema)
           new == NewTable(d.name, schema)
<1>1. /\ new.name \in Names /\ new.schema = schema /\ new.record_count = 0 /\ new.nodes = 0
      /\ new.indexes = {} /\ DOMAIN new.records = {}
      /\ DOMAIN new = {"name", "schema", "records", "record_count", "nodes", "indexes"}
      /\ new.records = [n \in {} |-> 0]
  BY DEF NewTable, DocTable
<1>2. schema \in Schemas /\ Len(schema) >= 1
  <2>1. d.schema \in Schemas /\ Len(d.schema) >= 1 /\ d.schema \in Seq(FieldDef)
    BY DatabaseConstants DEF DocTable
  <2>2. schema \in Schemas /\ schema \in Seq(FieldDef)
    BY <2>1, PersistenceConstants, DatabaseConstants
  <2>3. DOMAIN schema = DOMAIN d.schema
    BY DEF ReadSchema
  <2> HIDE DEF schema
  <2> QED BY <2>1, <2>2, <2>3
<1> HIDE DEF new, schema
<1>3. new.records \in [DOMAIN new.records -> Record]
  BY <1>1
<1>4. TableOK(new)
  BY <1>1, <1>2, <1>3 DEF TableOK
<1>5. TableInv(new)
  BY <1>1, <1>4, FS_EmptySet, TableConstants DEF TableInv, UniqueIds, CountedExactly
<1> QED BY <1>5 DEF new, schema

\* Consistent tables are written as a well-formed document.
LEMMA PrintedTables == ASSUME NEW ts, GoodTables(ts) PROVE GoodDoc(Document(ts))
<1> DEFINE doc == Document(ts)
<1>1. Len(ts) \in Nat /\ DOMAIN ts = 1 .. Len(ts)
  BY SeqDomain DEF GoodTables
<1>2. doc = [i \in 1 .. Len(ts) |-> doc[i]]
  BY <1>1 DEF Document
<1>3. \A i \in DOMAIN ts : doc[i] = json_serialize_table(ts[i])
  BY DEF Document
<1> HIDE DEF doc
<1>4. IsSeq(doc) /\ DOMAIN doc = DOMAIN ts
  BY <1>1, <1>2, IntervalIsSeq
<1>5. \A i \in DOMAIN ts : DocTable(doc[i])
  BY <1>3, PrintedTable DEF GoodTables
<1> QED BY <1>4, <1>5 DEF GoodDoc, doc

\* db->tables and a list that starts it, compared table by table.
LEMMA PrefixByTable ==
    ASSUME IsSeq(tables), NEW image, IsSeq(image)
    PROVE  Prefix(image) <=> /\ Len(image) <= Len(tables)
                             /\ \A i \in DOMAIN image : image[i] = tables[i]
<1> DEFINE n == Len(image)
           m == Len(tables)
           T == {tables[i] : i \in DOMAIN tables}
           u == SubSeq(tables, 1, n)
<1>1. /\ n \in Nat /\ DOMAIN image = 1 .. n /\ image = [i \in 1 .. n |-> image[i]]
      /\ m \in Nat /\ DOMAIN tables = 1 .. m /\ tables \in Seq(T)
  BY SeqDomain DEF IsSeq
<1> HIDE DEF T
<1>2. ASSUME n <= m PROVE u = [i \in 1 .. n |-> tables[i]]
  BY <1>1, <1>2
<1>3. CASE n <= m
  <2>1. image = u <=> \A i \in 1 .. n : image[i] = tables[i]
    BY <1>1, <1>2, <1>3
  <2> QED BY <1>1, <1>3, <2>1 DEF Prefix
<1> HIDE DEF n, m, u
<1>4. CASE ~(n <= m)
  BY <1>4 DEF Prefix, n, m
<1> QED BY <1>3, <1>4

\* The tables a save has not read are taken over by its handle (Detached).
LEMMA ConcatGood ==
    ASSUME NEW s, GoodTables(s), NEW t, GoodTables(t)
    PROVE  GoodTables(s \o SubSeq(t, Len(s) + 1, Len(t)))
<1> DEFINE R == {s[i] : i \in DOMAIN s} \cup {t[i] : i \in DOMAIN t}
           rest == SubSeq(t, Len(s) + 1, Len(t))
           u == s \o rest
<1>1. /\ Len(s) \in Nat /\ DOMAIN s = 1 .. Len(s) /\ s = [i \in 1 .. Len(s) |-> s[i]]
      /\ Len(t) \in Nat /\ DOMAIN t = 1 .. Len(t) /\ t = [i \in 1 .. Len(t) |-> t[i]]
  BY SeqDomain DEF GoodTables
<1>2. \A x \in R : TableInv(x)
  BY DEF GoodTables
<1>3. (\A i \in DOMAIN s : s[i] \in R) /\ (\A i \in DOMAIN t : t[i] \in R)
  OBVIOUS
<1> HIDE DEF R
<1>4. s \in Seq(R) /\ t \in Seq(R)
  <2>1. s \in [1 .. Len(s) -> R] /\ t \in [1 .. Len(t) -> R]
    BY <1>1, <1>3
  <2> QED BY <1>1, <2>1, FunctionIsSeq
<1>5. rest \in Seq(R)
  BY <1>1, <1>4
<1> HIDE DEF rest
<1>6. u \in Seq(R)
  BY <1>4, <1>5
<1> HIDE DEF u
<1>7. Len(u) \in Nat /\ u = [i \in 1 .. Len(u) |-> u[i]] /\ \A i \in 1 .. Len(u) : u[i] \in R
  BY <1>6
<1>8. IsSeq(u) /\ DOMAIN u = 1 .. Len(u)
  BY <1>7, IntervalIsSeq
<1>9. GoodTables(u)
  BY <1>2, <1>7, <1>8 DEF GoodTables
<1> QED BY <1>9 DEF u, rest

-----------------------------------------------------------------------------
(***************************************************************************)
(* The inductive invariant.  The engine's own invariant is needed for what *)
(* is written, and what is written for what is read.  A save of main's is  *)
(* exact because nothing but it changes the tables while main is in it; a  *)
(* save of a handler reads on exactly until main changes them, which marks *)
(* it, and no step of a swap finds it unmarked.                            *)
(***************************************************************************)
DiskOK ==
    /\ DOMAIN disk = Files
    /\ \A f \in Files : disk[f].state \in {"absent", "torn", "whole"} /\ GoodDoc(disk[f].doc)

SaveOK(s) ==
    /\ DOMAIN s = {"stage", "file", "image", "overtaken"}
    /\ s.stage \in Stages
    /\ s.file \in Files
    /\ s.overtaken \in BOOLEAN
    /\ GoodTables(s.image)

SavesOK == DOMAIN saves = Savers /\ \A k \in Savers : SaveOK(saves[k])

\* A save that reads tables nobody has changed
ReadsOn(s) == s.stage = "reading" /\ ~s.overtaken

ReadersOK == \A k \in Savers : ReadsOn(saves[k]) => Prefix(saves[k].image) /\ load.op # "swap"

\* The main thread is in one call at a time, with the database open that the
\* call is about
MainOK ==
    /\ saves["main"].stage \in {"none", "reading", "writing"}
    /\ ~saves["main"].overtaken
    /\ saves["main"].stage = "writing" => saves["main"].image = tables
    /\ saves["main"] = NoSave \/ load = NoLoad
    /\ Quiet \/ Idle
    /\ saves["main"] # NoSave \/ load.op \in {"restore", "swap"} \/ ~Idle => open

LoadOK ==
    /\ load.op \in {"none", "load", "restore", "swap"}
    /\ load.op = "none" => load = NoLoad
    /\ DOMAIN load = {"op", "image", "doc", "tables", "todo"}
    /\ GoodDoc(load.doc)
    /\ GoodTables(load.tables)
    /\ Len(load.tables) <= Len(load.doc)
    /\ load.todo # {} =>
          /\ Len(load.tables) >= 1
          /\ load.todo \subseteq DOMAIN load.doc[Len(load.tables)].records
          /\ load.tables[Len(load.tables)].schema = ReadSchema(load.doc[Len(load.tables)].schema)
    /\ load.op = "swap" => AllRead

PInv == IInv /\ open \in BOOLEAN /\ DiskOK /\ SavesOK /\ ReadersOK /\ MainOK /\ LoadOK

\* The empty sequence is a sequence, a document and a list of tables.
LEMMA EmptySeq == IsSeq(<<>>) /\ GoodDoc(<<>>) /\ GoodTables(<<>>) /\ Len(<<>>) = 0
BY DEF IsSeq, GoodDoc, GoodTables

\* The tables of the database are a list of consistent tables.
LEMMA TheTables == IInv => GoodTables(tables)
BY Parts DEF TablesOK, GoodTables, IsSeq

\* A step that leaves the engine's variables alone keeps its invariant.
LEMMA SameEngine == ASSUME IInv, UNCHANGED vars PROVE IInv'
BY StepInv

\* So does one that moves the id counter only.
LEMMA CounterMoves ==
    ASSUME IInv, UNCHANGED <<tables, txn, batch, ret>>, global_counter' \in CInt
    PROVE  IInv'
BY Parts, PartsPrime DEF TablesOK, TxnOK, TxnShape, BatchOK, BatchFits, BatchProgress, Idle, RestOK

\* A new or freed database satisfies the engine's invariant.
LEMMA FreshInv ==
    ASSUME IInv, FreshDatabase, global_counter' \in CInt
    PROVE  IInv' /\ Idle'
<1>1. TablesOK'
  BY DEF FreshDatabase, TablesOK
<1>2. TxnOK'
  BY DatabaseConstants DEF FreshDatabase, TxnOK, TxnShape, NoTxn, Idle
<1>3. BatchOK' /\ Idle'
  BY DEF FreshDatabase, BatchOK, BatchFits, BatchProgress, Idle, NoBatch
<1>4. RestOK'
  BY Parts DEF FreshDatabase, RestOK
<1> QED BY <1>1, <1>2, <1>3, <1>4, PartsPrime

\* With no load under way there is nothing to show for it.
LEMMA NoLoadOK == ASSUME load' = NoLoad PROVE LoadOK'
<1>1. /\ NoLoad.op = "none" /\ NoLoad.doc = <<>> /\ NoLoad.tables = <<>> /\ NoLoad.todo = {}
      /\ DOMAIN NoLoad = {"op", "image", "doc", "tables", "todo"}
  BY DEF NoLoad
<1> QED BY <1>1, EmptySeq DEF LoadOK

\* A load that is left alone.
LEMMA SameLoad == ASSUME LoadOK, UNCHANGED load PROVE LoadOK'
BY DEF LoadOK, AllRead

\* Files that stay as they are stay well formed.
LEMMA SameDisk == ASSUME DiskOK, UNCHANGED disk PROVE DiskOK'
BY DEF DiskOK

\* Replacing a file by a well-formed one keeps the others.
LEMMA OneFile ==
    ASSUME DiskOK, NEW f \in Files, NEW c, disk' = [disk EXCEPT ![f] = c],
           c.state \in {"absent", "torn", "whole"}, GoodDoc(c.doc)
    PROVE  DiskOK'
BY DEF DiskOK

\* fopen(..., "wb"), and a write that fails.
LEMMA TornFile ==
    ASSUME DiskOK, NEW f \in Files, disk' = [disk EXCEPT ![f] = Torn]
    PROVE  DiskOK'
<1>1. Torn.state = "torn" /\ Torn.doc = <<>>
  BY DEF Torn
<1> QED BY <1>1, OneFile, EmptySeq

-----------------------------------------------------------------------------
(***************************************************************************)
(* What a step makes of the saves under way                                *)
(***************************************************************************)

\* The main thread has a saver, which is no handler.
LEMMA MainSaves == "main" \in Savers /\ "main" \notin Handlers
BY PersistenceConstants DEF Savers

\* No save.
LEMMA NoSaveOK == SaveOK(NoSave) /\ NoSave.stage = "none" /\ ~NoSave.overtaken
BY EmptySeq, PersistenceConstants DEF SaveOK, NoSave, Stages

\* One save moves on, tables and load stay.
LEMMA OneSave ==
    ASSUME SavesOK, ReadersOK, NEW k \in Savers, NEW s, SaveOK(s),
           saves' = [saves EXCEPT ![k] = s], UNCHANGED <<tables, load>>,
           ReadsOn(s) => Prefix(s.image) /\ load.op # "swap"
    PROVE  SavesOK' /\ ReadersOK'
<1>1. DOMAIN saves' = Savers /\ \A j \in Savers : saves'[j] = IF j = k THEN s ELSE saves[j]
  BY DEF SavesOK
<1>2. SavesOK'
  BY <1>1 DEF SavesOK
<1>3. \A image : Prefix(image)' <=> Prefix(image)
  BY DEF Prefix
<1>4. ASSUME NEW j \in Savers, ReadsOn(saves'[j]) PROVE (Prefix(saves[j].image) /\ load.op # "swap")'
  BY <1>1, <1>4 DEF Prefix, ReadersOK
<1> QED BY <1>2, <1>4 DEF ReadersOK, ReadsOn

\* All saves stay, and so do the tables, or nobody reads them as they are.
LEMMA SameSaves ==
    ASSUME SavesOK, ReadersOK, UNCHANGED saves,
           \/ tables' = tables /\ (load'.op = "swap" => load.op = "swap")
           \/ load.op = "swap"
    PROVE  SavesOK' /\ ReadersOK'
<1>1. SavesOK'
  BY DEF SavesOK
<1>2. ASSUME NEW k \in Savers, ReadsOn(saves[k])' PROVE (Prefix(saves[k].image) /\ load.op # "swap")'
  <2>1. ReadsOn(saves[k]) /\ Prefix(saves[k].image) /\ load.op # "swap"
    BY <1>2 DEF ReadsOn, ReadersOK
  <2> QED BY <2>1 DEF Prefix
<1> QED BY <1>1, <1>2 DEF ReadersOK

\* The saves that were reading are marked (Overtaken).
LEMMA OvertakenSaves ==
    ASSUME SavesOK, saves' = Overtaken
    PROVE  SavesOK' /\ ReadersOK' /\ (saves["main"] = NoSave => saves'["main"] = NoSave)
<1>1. /\ DOMAIN saves' = Savers
      /\ \A k \in Savers : saves'[k] = IF saves[k].stage = "reading" THEN [saves[k] EXCEPT !.overtaken = TRUE]
                                       ELSE saves[k]
  BY DEF Overtaken
<1>2. ASSUME NEW k \in Savers PROVE SaveOK(saves'[k]) /\ ~ReadsOn(saves'[k])
  BY <1>1 DEF SavesOK, SaveOK, ReadsOn
<1>3. saves["main"] = NoSave => saves'["main"] = NoSave
  BY <1>1, MainSaves, NoSaveOK
<1> QED BY <1>1, <1>2, <1>3 DEF SavesOK, ReadersOK, ReadsOn, SaveOK

\* The saves that were reading keep the handle they have (Detached).
LEMMA DetachedSaves ==
    ASSUME IInv, SavesOK, saves' = Detached
    PROVE  SavesOK' /\ ReadersOK' /\ (saves["main"] = NoSave => saves'["main"] = NoSave)
<1> DEFINE Took(s) == s.image \o SubSeq(tables, Len(s.image) + 1, Len(tables))
           Read(s) == [s EXCEPT !.stage = "read", !.image = Took(s)]
<1>1. /\ DOMAIN saves' = Savers
      /\ \A k \in Savers : saves'[k] = IF saves[k].stage = "reading" THEN Read(saves[k]) ELSE saves[k]
  BY DEF Detached
<1>2. ASSUME NEW k \in Savers PROVE SaveOK(saves'[k]) /\ saves'[k].stage # "reading"
  <2>1. SaveOK(saves[k]) /\ GoodTables(Took(saves[k]))
    BY TheTables, ConcatGood DEF SavesOK, SaveOK
  <2>2. CASE saves[k].stage = "reading"
    <3> HIDE DEF Took
    <3>1. /\ saves'[k].stage = "read" /\ saves'[k].image = Took(saves[k])
          /\ saves'[k].file = saves[k].file /\ saves'[k].overtaken = saves[k].overtaken
          /\ DOMAIN saves'[k] = {"stage", "file", "image", "overtaken"}
      BY <1>1, <2>1, <2>2 DEF SaveOK
    <3> QED BY <2>1, <3>1 DEF SaveOK, Stages
  <2>3. CASE saves[k].stage # "reading"
    BY <1>1, <2>1, <2>3
  <2> QED BY <2>2, <2>3
<1>3. saves["main"] = NoSave => saves'["main"] = NoSave
  BY <1>1, MainSaves, NoSaveOK
<1> HIDE DEF Read, Took
<1> QED BY <1>1, <1>2, <1>3 DEF SavesOK, ReadersOK, ReadsOn

\* The process has ended.
LEMMA EndedSaves ==
    ASSUME saves' = [k \in Savers |-> NoSave]
    PROVE  SavesOK' /\ ReadersOK' /\ saves'["main"] = NoSave
BY MainSaves, NoSaveOK DEF SavesOK, ReadersOK, ReadsOn

\* Main is not in a save, and one call at a time is under way.
LEMMA MainFree ==
    ASSUME saves'["main"] = NoSave, load' = NoLoad \/ Idle',
           load'.op \in {"restore", "swap"} \/ ~Idle' => open'
    PROVE  MainOK'
BY NoSaveOK DEF MainOK, Quiet

\* Main is where it was.
LEMMA SameMain ==
    ASSUME MainOK, saves'["main"] = saves["main"], UNCHANGED <<vars, open, load>>
    PROVE  MainOK'
BY DEF MainOK, Quiet, Idle, vars

-----------------------------------------------------------------------------
(***************************************************************************)
(* Every step keeps the invariant                                          *)
(***************************************************************************)

\* A save is begun, by main or a handler.
LEMMA StartSaveInv ==
    ASSUME PInv, NEW k, NEW file \in Files, StartSave(k, file), k = "main" => Idle /\ Quiet
    PROVE  PInv'
<1> DEFINE s == [stage |-> "reading", file |-> file, image |-> <<>>, overtaken |-> load.op = "swap"]
<1>1. /\ k \in Savers /\ open /\ saves' = [saves EXCEPT ![k] = s] /\ UNCHANGED <<vars, open, disk, load, saved>>
  BY DEF StartSave
<1>2. SaveOK(s)
  BY EmptySeq DEF SaveOK, Stages
<1>3. ReadsOn(s) => Prefix(s.image) /\ load.op # "swap"
  <2>1. IsSeq(tables)
    BY TheTables DEF PInv, GoodTables
  <2>2. Prefix(<<>>)
    BY <2>1, EmptySeq, SeqDomain, PrefixByTable
  <2> QED BY <2>2 DEF ReadsOn
<1>4. UNCHANGED <<tables, load, disk, open, vars>>
  BY <1>1 DEF vars
<1>5. s.stage = "reading" /\ s.overtaken = (load.op = "swap")
  OBVIOUS
<1> HIDE DEF s
<1>6. SavesOK' /\ ReadersOK'
  BY <1>1, <1>2, <1>3, <1>4, OneSave DEF PInv
<1>7. MainOK'
  <2>1. CASE k = "main"
    <3>1. saves'["main"] = s /\ load' = NoLoad /\ load = NoLoad /\ Idle' /\ open'
      BY <1>1, <1>4, <2>1, MainSaves DEF PInv, SavesOK, Quiet, Idle, vars
    <3>2. ~s.overtaken
      BY <1>5, <3>1 DEF NoLoad
    <3> QED BY <1>5, <3>1, <3>2 DEF MainOK, Quiet
  <2>2. CASE k # "main"
    <3>1. saves'["main"] = saves["main"]
      BY <1>1, <2>2, MainSaves DEF PInv, SavesOK
    <3> QED BY <1>4, <3>1, SameMain DEF PInv
  <2> QED BY <2>1, <2>2
<1> QED BY <1>4, <1>6, <1>7, SameEngine, SameDisk, SameLoad DEF PInv

\* The next table is read.
LEMMA SerializeInv == ASSUME PInv, NEW k \in Savers, SerializeTable(k) PROVE PInv'
<1> DEFINE image == saves[k].image
           n == Len(image)
           more == Append(image, tables[n + 1])
           s == [saves[k] EXCEPT !.image = more]
<1>1. /\ saves[k].stage = "reading" /\ n < Len(tables) /\ UNCHANGED <<vars, open, disk, load, saved>>
      /\ saves' = [saves EXCEPT ![k] = s]
  BY DEF SerializeTable, Unserialized
<1>2. /\ GoodTables(tables) /\ IsSeq(tables) /\ SaveOK(saves[k]) /\ GoodTables(image) /\ IsSeq(image)
  BY TheTables DEF PInv, SavesOK, SaveOK, GoodTables
<1>3. /\ n \in Nat /\ Len(tables) \in Nat /\ DOMAIN tables = 1 .. Len(tables) /\ DOMAIN image = 1 .. n
  BY <1>2, SeqDomain
<1>4. n + 1 \in DOMAIN tables
  BY <1>1, <1>3
<1>5. /\ IsSeq(more) /\ Len(more) = n + 1 /\ DOMAIN more = 1 .. n + 1
      /\ \A i \in DOMAIN image : more[i] = image[i]
      /\ more[n + 1] = tables[n + 1]
  <2>1. IsSeq(image)
    BY <1>2
  <2> HIDE DEF image
  <2> QED BY ONLY <2>1, AppendIsSeq
<1> HIDE DEF more
<1>6. /\ s.stage = "reading" /\ s.file = saves[k].file /\ s.overtaken = saves[k].overtaken /\ s.image = more
      /\ DOMAIN s = {"stage", "file", "image", "overtaken"}
  BY <1>1, <1>2 DEF SaveOK
<1> HIDE DEF s, image, n
<1>7. \A i \in 1 .. n + 1 : i \in DOMAIN image \/ i = n + 1
  BY <1>3
<1>8. GoodTables(more)
  BY <1>2, <1>4, <1>5, <1>7 DEF GoodTables
<1>9. SaveOK(s)
  <2>1. "reading" \in Stages
    BY DEF Stages
  <2>2. s.overtaken \in BOOLEAN /\ s.file \in Files /\ s.stage \in Stages
    BY Zenon, <1>2, <1>6, <2>1 DEF SaveOK
  <2>3. GoodTables(s.image)
    BY Zenon, <1>6, <1>8
  <2> QED BY Zenon, <1>6, <2>2, <2>3 DEF SaveOK
<1>10. ReadsOn(s) => Prefix(s.image) /\ load.op # "swap"
  <2> SUFFICES ASSUME ReadsOn(s) PROVE Prefix(more) /\ load.op # "swap"
    BY <1>6
  <2>1. ReadsOn(saves[k])
    BY <1>1, <1>6 DEF ReadsOn
  <2>2. Prefix(image) /\ load.op # "swap"
    BY <2>1 DEF PInv, ReadersOK, image
  <2>3. \A i \in DOMAIN image : image[i] = tables[i]
    BY <1>2, <2>2, PrefixByTable
  <2>4. \A i \in DOMAIN more : more[i] = tables[i]
    BY <1>5, <1>7, <2>3
  <2>5. Len(more) <= Len(tables)
    BY <1>1, <1>3, <1>5 DEF n
  <2> QED BY <1>2, <1>5, <2>2, <2>4, <2>5, PrefixByTable
<1>11. UNCHANGED <<tables, load, disk, open, vars>>
  BY <1>1 DEF vars
<1>12. SavesOK' /\ ReadersOK'
  BY <1>1, <1>9, <1>10, <1>11, OneSave DEF PInv
<1>13. MainOK'
  <2>1. CASE k = "main"
    <3>1. saves'["main"] = s /\ saves["main"] # NoSave
      BY <1>1, <2>1, NoSaveOK, MainSaves DEF PInv, SavesOK
    <3>2. load = NoLoad /\ Idle /\ open /\ ~saves["main"].overtaken
      BY <3>1 DEF PInv, MainOK, Quiet
    <3> QED BY <1>6, <1>11, <2>1, <3>1, <3>2 DEF MainOK, Quiet, Idle, vars
  <2>2. CASE k # "main"
    <3>1. saves'["main"] = saves["main"]
      BY <1>1, <2>2, MainSaves DEF PInv, SavesOK
    <3> QED BY <1>11, <3>1, SameMain DEF PInv
  <2> QED BY <2>1, <2>2
<1> QED BY <1>11, <1>12, <1>13, SameEngine, SameDisk, SameLoad DEF PInv

\* fopen: what main has read by then is all of the tables.
LEMMA OpenFileInv == ASSUME PInv, NEW k \in Savers, OpenFile(k) PROVE PInv'
<1>1. /\ disk' = [disk EXCEPT ![saves[k].file] = Torn] /\ UNCHANGED <<vars, open, load>>
      /\ saves[k].stage \in {"reading", "read"}
      /\ saves[k].stage = "reading" => ~(Len(saves[k].image) < Len(tables))
  BY DEF OpenFile, Unserialized
<1>2. SaveOK(saves[k]) /\ saves[k].file \in Files
  BY DEF PInv, SavesOK, SaveOK
<1>3. DiskOK'
  BY <1>1, <1>2, TornFile DEF PInv
<1>4. UNCHANGED <<tables, load, open, vars>>
  BY <1>1 DEF vars
<1>5. PICK s : /\ saves' = [saves EXCEPT ![k] = s]
               /\ \/ s = Ready(saves[k], "writing", saves[k].image)
                  \/ saves[k].overtaken /\ s = Ready(saves[k], "garbled", <<>>)
  BY DEF OpenFile
<1>6. /\ s.stage \in {"writing", "garbled"} /\ s.file = saves[k].file /\ s.overtaken = FALSE
      /\ s.image \in {saves[k].image, <<>>} /\ DOMAIN s = {"stage", "file", "image", "overtaken"}
      /\ ~saves[k].overtaken => s.stage = "writing" /\ s.image = saves[k].image
  BY <1>5 DEF Ready
<1>7. SaveOK(s) /\ ~ReadsOn(s)
  <2>1. s.stage \in Stages /\ ~ReadsOn(s) /\ s.overtaken \in BOOLEAN
    BY <1>6 DEF ReadsOn, Stages
  <2>2. GoodTables(s.image)
    BY <1>2, <1>6, EmptySeq DEF SaveOK
  <2> QED BY Zenon, <1>2, <1>6, <2>1, <2>2 DEF SaveOK
<1>8. SavesOK' /\ ReadersOK'
  BY <1>4, <1>5, <1>7, OneSave DEF PInv
<1>9. MainOK'
  <2>1. CASE k = "main"
    <3>1. saves'["main"] = s /\ saves["main"] # NoSave
      BY <1>1, <1>5, <2>1, NoSaveOK, MainSaves DEF PInv, SavesOK
    <3>2. load = NoLoad /\ Idle /\ open /\ ~saves["main"].overtaken /\ saves["main"].stage = "reading"
      BY <1>1, <2>1, <3>1 DEF PInv, MainOK, Quiet
    <3>3. saves["main"].image = tables
      <4>1. ReadsOn(saves["main"])
        BY <3>2 DEF ReadsOn
      <4>2. Prefix(saves["main"].image)
        BY <4>1, MainSaves DEF PInv, ReadersOK
      <4>3. IsSeq(tables) /\ IsSeq(saves["main"].image)
        BY <1>2, <2>1, TheTables DEF PInv, SaveOK, GoodTables
      <4>4. /\ Len(saves["main"].image) <= Len(tables)
            /\ \A i \in DOMAIN saves["main"].image : saves["main"].image[i] = tables[i]
        BY <4>2, <4>3, PrefixByTable
      <4>5. /\ Len(tables) \in Nat /\ Len(saves["main"].image) \in Nat
            /\ tables = [i \in 1 .. Len(tables) |-> tables[i]]
            /\ DOMAIN saves["main"].image = 1 .. Len(saves["main"].image)
            /\ saves["main"].image = [i \in 1 .. Len(saves["main"].image) |-> saves["main"].image[i]]
        BY <4>3, SeqDomain
      <4>6. Len(saves["main"].image) = Len(tables)
        BY <1>1, <2>1, <3>2, <4>4, <4>5
      <4> QED BY <4>4, <4>5, <4>6
    <3> QED BY <1>4, <1>6, <2>1, <3>1, <3>2, <3>3 DEF MainOK, Quiet, Idle, vars
  <2>2. CASE k # "main"
    <3>1. saves'["main"] = saves["main"]
      BY <1>5, <2>2, MainSaves DEF PInv, SavesOK
    <3> QED BY <1>4, <3>1, SameMain DEF PInv
  <2> QED BY <2>1, <2>2
<1> QED BY <1>3, <1>4, <1>8, <1>9, SameEngine, SameLoad DEF PInv

\* The process ends, with the files as the step leaves them.
LEMMA ProcessEndsInv == ASSUME PInv, ProcessEnds, DiskOK' PROVE PInv'
<1>1. /\ open' = FALSE /\ saves' = [k \in Savers |-> NoSave] /\ load' = NoLoad /\ FreshDatabase
      /\ global_counter' \in CInt
  BY SmallInts DEF ProcessEnds
<1>2. IInv' /\ Idle'
  BY <1>1, FreshInv DEF PInv
<1>3. NoLoad.op = "none"
  BY DEF NoLoad
<1>4. SavesOK' /\ ReadersOK' /\ saves'["main"] = NoSave
  BY <1>1, EndedSaves
<1>5. MainOK'
  BY <1>1, <1>2, <1>3, <1>4, MainFree
<1> QED BY <1>1, <1>2, <1>4, <1>5, NoLoadOK DEF PInv

\* fwrite and the end of a save, of the process with it or not.
LEMMA EndSaveInv == ASSUME PInv, NEW k \in Savers, EndSave(k) PROVE PInv'
<1>1. SaveOK(saves[k]) /\ saves[k].file \in Files /\ GoodTables(saves[k].image)
  BY DEF PInv, SavesOK, SaveOK
<1>2. DiskOK'
  <2>1. CASE disk' = [disk EXCEPT ![saves[k].file] = Whole(Document(saves[k].image))]
    <3> DEFINE doc == Document(saves[k].image)
    <3>1. GoodDoc(doc)
      BY <1>1, PrintedTables
    <3> HIDE DEF doc
    <3>2. Whole(doc).state = "whole" /\ Whole(doc).doc = doc
      BY DEF Whole
    <3> QED BY <1>1, <2>1, <3>1, <3>2, OneFile DEF PInv, doc
  <2>2. CASE disk' = [disk EXCEPT ![saves[k].file] = Torn]
    BY <1>1, <2>2, TornFile DEF PInv
  <2>3. CASE UNCHANGED disk
    BY <2>3, SameDisk DEF PInv
  <2> QED BY <2>1, <2>2, <2>3 DEF EndSave, WriteFile
<1>3. CASE ProcessEnds
  BY <1>2, <1>3, ProcessEndsInv
<1>4. CASE saves' = [saves EXCEPT ![k] = NoSave] /\ UNCHANGED <<vars, open, load>>
  <2>1. UNCHANGED <<tables, load, open, vars>>
    BY <1>4 DEF vars
  <2>2. SavesOK' /\ ReadersOK'
    BY <1>4, <2>1, NoSaveOK, OneSave DEF PInv, ReadsOn
  <2>3. MainOK'
    <3>1. CASE k = "main"
      <4>1. saves'["main"] = NoSave /\ saves["main"] # NoSave
        BY <1>4, <3>1, MainSaves, NoSaveOK DEF PInv, SavesOK, EndSave
      <4>2. load = NoLoad /\ Idle
        BY <4>1 DEF PInv, MainOK, Quiet
      <4>3. load' = NoLoad /\ Idle' /\ NoLoad.op = "none"
        BY <2>1, <4>2 DEF Idle, vars, NoLoad
      <4> QED BY <4>1, <4>3, MainFree
    <3>2. CASE k # "main"
      <4>1. saves'["main"] = saves["main"]
        BY <1>4, <3>2, MainSaves DEF PInv, SavesOK
      <4> QED BY <2>1, <4>1, SameMain DEF PInv
    <3> QED BY <3>1, <3>2
  <2> QED BY <1>2, <2>1, <2>2, <2>3, SameEngine, SameLoad DEF PInv
<1> QED BY <1>3, <1>4 DEF EndSave

\* The database is replaced by an empty one, or none, and a save that was
\* reading it has its own handle.
LEMMA FreshCallInv ==
    ASSUME PInv, saves["main"] = NoSave, open' \in BOOLEAN, FreshDatabase, global_counter' \in CInt,
           saves' = Detached \/ saves' = Overtaken, load' = NoLoad, UNCHANGED disk
    PROVE  PInv'
<1>1. IInv' /\ Idle'
  BY FreshInv DEF PInv
<1>2. SavesOK' /\ ReadersOK' /\ saves'["main"] = NoSave
  BY OvertakenSaves, DetachedSaves DEF PInv
<1>3. MainOK'
  BY <1>1, <1>2, MainFree DEF NoLoad
<1> QED BY <1>1, <1>2, <1>3, NoLoadOK, SameDisk DEF PInv

\* A load that fails: NULL in g_database, or the database a restore had.
LEMMA LoadFailedInv ==
    ASSUME PInv, NEW op, LoadFailed(op), global_counter' \in CInt, saves["main"] = NoSave, Idle
    PROVE  PInv'
<1>1. load' = NoLoad /\ UNCHANGED <<disk, saved>>
  BY DEF LoadFailed
<1>2. CASE UNCHANGED <<open, saves, tables, txn, batch, ret>>
  <2>1. IInv'
    BY <1>2, CounterMoves DEF PInv
  <2>2. load'.op = "none"
    BY <1>1 DEF NoLoad
  <2>3. SavesOK' /\ ReadersOK'
    <3>1. tables' = tables /\ load'.op # "swap" /\ UNCHANGED saves
      BY <1>2, <2>2
    <3> QED BY <3>1, SameSaves DEF PInv
  <2>4. Idle' /\ saves'["main"] = NoSave
    BY <1>2 DEF Idle
  <2>5. MainOK'
    BY <2>2, <2>4, MainFree
  <2> QED BY <1>1, <1>2, <2>1, <2>3, <2>5, NoLoadOK, SameDisk DEF PInv
<1>3. CASE open' = FALSE /\ saves' = Detached /\ FreshDatabase
  BY <1>1, <1>3, FreshCallInv
<1> QED BY <1>2, <1>3 DEF LoadFailed

\* A load that starts, or fails at once.
LEMMA StartLoadInv ==
    ASSUME PInv, Idle, Quiet, NEW op \in {"load", "restore"}, op = "restore" => open,
           NEW file \in Files, StartLoad(op, file)
    PROVE  PInv'
<1>0. global_counter \in CInt /\ saves["main"] = NoSave
  BY Parts DEF PInv, RestOK, Quiet
<1>1. CASE disk[file].state # "whole" /\ LoadFailed(op) /\ UNCHANGED global_counter
  BY <1>0, <1>1, LoadFailedInv
<1>2. CASE /\ load' = Loading(op, saved[file], disk[file].doc, <<>>, {})
           /\ UNCHANGED <<vars, open, disk, saves, saved>>
  <2>1. /\ load'.op = op /\ load'.doc = disk[file].doc /\ load'.tables = <<>> /\ load'.todo = {}
        /\ DOMAIN load' = {"op", "image", "doc", "tables", "todo"}
    BY <1>2 DEF Loading
  <2>2. GoodDoc(disk[file].doc) /\ Len(disk[file].doc) \in Nat
    BY SeqDomain DEF PInv, DiskOK, GoodDoc
  <2>3. LoadOK'
    BY <2>1, <2>2, EmptySeq DEF LoadOK
  <2>4. UNCHANGED <<tables, saves, vars, disk, open>> /\ Idle' /\ load'.op # "swap"
    BY <1>2, <2>1 DEF Idle, vars
  <2>5. SavesOK' /\ ReadersOK'
    BY <2>4, SameSaves DEF PInv
  <2>6. MainOK'
    BY <1>0, <2>1, <2>4, MainFree
  <2> QED BY <2>3, <2>4, <2>5, <2>6, SameEngine, SameDisk DEF PInv
<1> QED BY <1>1, <1>2 DEF StartLoad

\* While a load is under way main is in no save and in no batch.
LEMMA LoadAlone == ASSUME PInv, load # NoLoad PROVE saves["main"] = NoSave /\ Idle
BY DEF PInv, MainOK, Quiet

\* The steps of a load that change only what has been read, and the counter.
LEMMA ReadingInv ==
    ASSUME PInv, load # NoLoad, load'.op = load.op,
           UNCHANGED <<tables, txn, batch, ret, open, disk, saves, saved>>,
           global_counter' \in CInt, LoadOK'
    PROVE  PInv'
<1>1. IInv'
  BY CounterMoves DEF PInv
<1>2. SavesOK' /\ ReadersOK'
  BY SameSaves DEF PInv
<1>3. saves'["main"] = NoSave /\ Idle'
  BY LoadAlone DEF Idle
<1>4. load'.op \in {"restore", "swap"} => open'
  BY DEF PInv, MainOK
<1>5. MainOK'
  BY <1>3, <1>4, MainFree
<1> QED BY <1>1, <1>2, <1>5, SameDisk DEF PInv

\* The next table of the file.
LEMMA LoadTableInv == ASSUME PInv, LoadTable PROVE PInv'
<1> DEFINE n == Len(load.tables)
           d == load.doc[n + 1]
           new == NewTable(d.name, ReadSchema(d.schema))
<1>1. /\ load.op \in {"load", "restore"} /\ load.todo = {} /\ n < Len(load.doc) /\ global_counter' \in CInt
      /\ UNCHANGED global_counter
  BY Parts DEF PInv, RestOK, LoadTable
<1>0. load # NoLoad
  BY <1>1 DEF NoLoad
<1>2. /\ IsSeq(load.tables) /\ IsSeq(load.doc) /\ n \in Nat /\ Len(load.doc) \in Nat
      /\ DOMAIN load.tables = 1 .. n /\ DOMAIN load.doc = 1 .. Len(load.doc)
      /\ GoodDoc(load.doc) /\ GoodTables(load.tables)
  BY SeqDomain DEF PInv, LoadOK, GoodDoc, GoodTables
<1>3. n + 1 \in DOMAIN load.doc /\ DocTable(d)
  BY <1>1, <1>2 DEF GoodDoc
<1>4. CASE LoadFailed(load.op)
  BY <1>0, <1>1, <1>4, LoadAlone, LoadFailedInv
<1>5. CASE /\ load' = Loading(load.op, load.image, load.doc, Append(load.tables, new), DOMAIN d.records)
           /\ UNCHANGED <<tables, txn, batch, ret, open, disk, saves, saved>>
  <2>1. /\ load'.op = load.op /\ load'.doc = load.doc
        /\ load'.tables = Append(load.tables, new) /\ load'.todo = DOMAIN d.records
        /\ DOMAIN load' = {"op", "image", "doc", "tables", "todo"}
    BY <1>5 DEF Loading
  <2>2. TableInv(new) /\ new.schema = ReadSchema(d.schema)
    BY <1>3, NewTableInv DEF NewTable
  <2> HIDE DEF new
  <2>3. /\ IsSeq(load'.tables) /\ Len(load'.tables) = n + 1 /\ DOMAIN load'.tables = 1 .. n + 1
        /\ \A i \in DOMAIN load.tables : load'.tables[i] = load.tables[i]
        /\ load'.tables[n + 1] = new
    BY <1>2, <2>1, AppendIsSeq
  <2>4. GoodTables(load'.tables)
    <3>1. ASSUME NEW i \in DOMAIN load'.tables PROVE TableInv(load'.tables[i])
      <4>1. i \in DOMAIN load.tables \/ i = n + 1
        BY <1>2, <2>3
      <4> QED BY <1>2, <2>2, <2>3, <4>1 DEF GoodTables
    <3> QED BY <2>3, <3>1 DEF GoodTables
  <2>5. LoadOK'
    BY <1>1, <1>2, <2>1, <2>2, <2>3, <2>4 DEF LoadOK
  <2> QED BY <1>0, <1>1, <1>5, <2>1, <2>5, ReadingInv
<1> QED BY <1>4, <1>5 DEF LoadTable

\* The next record of the last table read.
LEMMA LoadRecordInv == ASSUME PInv, LoadRecord PROVE PInv'
<1> DEFINE last == Len(load.tables)
           n == CHOOSE m \in load.todo : \A k \in load.todo : k <= m
           rec == load.doc[last].records[n]
           t == load.tables[last]
           r == IF Unparsable(load.doc[last].schema, rec)
                THEN Rejected(t, global_counter, "ERROR_INVALID_INPUT")
                ELSE IF rec.id = -1 THEN Rejected(t, global_counter, "SUCCESS")
                ELSE table_insert_record(t, ReadRow(t.schema, rec), global_counter)
<1>0. load.todo # {} /\ load # NoLoad
  <2>1. load.todo # {}
    BY DEF LoadRecord
  <2> QED BY <2>1 DEF NoLoad
<1>1. /\ load.todo # {} /\ global_counter' = r.counter
      /\ IF r.code \notin {"SUCCESS", "ERROR_DUPLICATE_KEY"}
         THEN LoadFailed(load.op)
         ELSE /\ load' = Loading(load.op, load.image, load.doc, [load.tables EXCEPT ![last] = r.table], Unread(n))
              /\ UNCHANGED <<tables, txn, batch, ret, open, disk, saves, saved>>
  BY DEF LoadRecord
<1>2. /\ GoodDoc(load.doc) /\ GoodTables(load.tables) /\ IsSeq(load.tables)
      /\ last \in Nat /\ last >= 1 /\ last <= Len(load.doc)
      /\ last \in DOMAIN load.tables /\ last \in DOMAIN load.doc
      /\ DocTable(load.doc[last]) /\ TableInv(t)
      /\ load.todo \subseteq DOMAIN load.doc[last].records
      /\ t.schema = ReadSchema(load.doc[last].schema)
  <2>1. GoodDoc(load.doc) /\ GoodTables(load.tables) /\ IsSeq(load.tables) /\ IsSeq(load.doc)
        /\ last <= Len(load.doc) /\ last >= 1
    BY <1>1 DEF PInv, LoadOK, GoodDoc, GoodTables
  <2>2. last \in Nat /\ Len(load.doc) \in Nat /\ DOMAIN load.tables = 1 .. last /\ DOMAIN load.doc = 1 .. Len(load.doc)
    BY <2>1, SeqDomain
  <2>3. last \in DOMAIN load.tables /\ last \in DOMAIN load.doc
    BY <2>1, <2>2
  <2> QED BY <1>1, <2>1, <2>2, <2>3 DEF PInv, LoadOK, GoodDoc, GoodTables
<1>3. n \in load.todo /\ DocRecord(load.doc[last], rec)
  <2>1. PICK b \in Nat : DOMAIN load.doc[last].records \subseteq 1 .. b
    BY <1>2 DEF DocTable
  <2>2. load.todo \subseteq Int /\ (\A x \in load.todo : x <= b) /\ b \in Int
    BY <1>2, <2>1
  <2>3. \E m \in load.todo : \A k \in load.todo : k <= m
    BY <1>0, <2>2, GreatestInt
  <2>4. n \in load.todo
    BY <2>3
  <2> QED BY <1>2, <2>4 DEF DocTable
<1> HIDE DEF n
<1>4. TableInv(r.table) /\ r.counter \in CInt /\ r.table.schema = t.schema
  <2>1. global_counter \in CInt
    BY Parts DEF PInv, RestOK
  <2>2. CASE r = Rejected(t, global_counter, "ERROR_INVALID_INPUT") \/ r = Rejected(t, global_counter, "SUCCESS")
    <3>1. r.table = t /\ r.counter = global_counter
      BY <2>2 DEF Rejected
    <3> QED BY Zenon, <1>2, <2>1, <3>1
  <2>3. CASE r = table_insert_record(t, ReadRow(t.schema, rec), global_counter)
    <3>0. TableInv(t)
      BY Zenon, <1>2
    <3>1. Fits(t, ReadRow(t.schema, rec))
      <4>1. TableOK(t) /\ DocTable(load.doc[last]) /\ t.schema = ReadSchema(load.doc[last].schema)
        BY Zenon, <1>2 DEF TableInv
      <4> QED BY Zenon, <1>3, <4>1, ReadRowFits
    <3>2. TableInv(r.table) /\ r.counter \in CInt
      <4> DEFINE row == ReadRow(t.schema, rec)
      <4>1. Fits(t, row) /\ r = table_insert_record(t, row, global_counter)
        BY Zenon, <2>3, <3>1
      <4> HIDE DEF t, row, r
      <4> QED BY <2>1, <3>0, <4>1, InsertInv
    <3>3. r.table.schema = t.schema
      BY <2>3, InsertSchema
    <3> QED BY <3>2, <3>3
  <2> QED BY <2>2, <2>3
<1> HIDE DEF r, rec
<1>5. CASE LoadFailed(load.op)
  BY <1>0, <1>1, <1>4, <1>5, LoadAlone, LoadFailedInv
<1>6. CASE /\ load' = Loading(load.op, load.image, load.doc, [load.tables EXCEPT ![last] = r.table], Unread(n))
           /\ UNCHANGED <<tables, txn, batch, ret, open, disk, saves, saved>>
  <2>1. /\ load'.op = load.op /\ load'.doc = load.doc
        /\ load'.tables = [load.tables EXCEPT ![last] = r.table] /\ load'.todo = Unread(n)
        /\ DOMAIN load' = {"op", "image", "doc", "tables", "todo"}
    BY <1>6 DEF Loading
  <2>2. /\ IsSeq(load'.tables) /\ Len(load'.tables) = last /\ DOMAIN load'.tables = DOMAIN load.tables
        /\ load'.tables[last] = r.table
        /\ \A i \in DOMAIN load.tables : i # last => load'.tables[i] = load.tables[i]
    BY <1>2, <2>1, ReplaceInSeq
  <2>3. GoodTables(load'.tables)
    BY <1>2, <1>4, <2>2 DEF GoodTables
  <2>4. load'.todo \subseteq load.todo
    BY <2>1 DEF Unread
  <2>5. load.op \in {"load", "restore"}
    BY <1>0 DEF PInv, LoadOK, AllRead
  <2>6. LoadOK'
    BY <1>2, <1>4, <2>1, <2>2, <2>3, <2>4, <2>5 DEF LoadOK
  <2> QED BY <1>0, <1>1, <1>4, <1>6, <2>1, <2>6, ReadingInv
<1> QED BY <1>1, <1>5, <1>6

\* The database read takes the place of the one there was, which a save that
\* was reading keeps, or finds freed.
LEMMA LoadedInv ==
    ASSUME PInv, load # NoLoad, Loaded, \/ load.op # "swap" /\ saves' = Detached
                                        \/ load.op = "swap" /\ UNCHANGED saves
    PROVE  PInv'
<1>1. /\ tables' = load.tables /\ txn' = NoTxn /\ open' = TRUE
      /\ load' = NoLoad /\ UNCHANGED <<global_counter, batch, ret, disk, saved>>
  BY DEF Loaded, LoadedTxn
<1>2. Idle /\ saves["main"] = NoSave
  BY LoadAlone
<1>3. TablesOK'
  <2>1. GoodTables(load.tables)
    BY DEF PInv, LoadOK
  <2> QED BY <1>1, <2>1 DEF GoodTables, IsSeq, TablesOK
<1>4. TxnOK'
  BY <1>1, <1>2, DatabaseConstants DEF TxnOK, TxnShape, NoTxn, Idle
<1>5. BatchOK' /\ RestOK' /\ Idle'
  <2>1. UNCHANGED batch
    BY <1>1
  <2> QED BY <1>1, <1>2, <2>1, IdleBatch, Parts DEF RestOK, PInv, Idle
<1>6. SavesOK' /\ ReadersOK' /\ saves'["main"] = NoSave
  BY <1>2, DetachedSaves, SameSaves DEF PInv
<1>7. MainOK'
  BY <1>1, <1>5, <1>6, MainFree
<1> QED BY <1>1, <1>3, <1>4, <1>5, <1>6, <1>7, PartsPrime, SameDisk, NoLoadOK DEF PInv

\* The old tables are freed, once all of the backup has been read.
LEMMA FreeOldInv == ASSUME PInv, FreeOld PROVE PInv'
<1>1. /\ load.op = "restore" /\ AllRead /\ load' = [load EXCEPT !.op = "swap"] /\ saves' = Overtaken
      /\ UNCHANGED <<vars, open, disk, saved>>
  BY DEF FreeOld
<1>2. load # NoLoad /\ open
  BY <1>1 DEF NoLoad, PInv, MainOK
<1>3. /\ load'.op = "swap" /\ load'.doc = load.doc /\ load'.tables = load.tables /\ load'.todo = load.todo
      /\ DOMAIN load' = {"op", "image", "doc", "tables", "todo"}
  BY <1>1 DEF PInv, LoadOK
<1>4. LoadOK'
  BY <1>1, <1>3 DEF PInv, LoadOK, AllRead
<1>5. SavesOK' /\ ReadersOK' /\ saves'["main"] = NoSave
  BY <1>1, <1>2, LoadAlone, OvertakenSaves DEF PInv
<1>6. Idle' /\ open'
  BY <1>1, <1>2, LoadAlone DEF Idle, vars
<1>7. MainOK'
  BY <1>5, <1>6, MainFree
<1> QED BY <1>1, <1>4, <1>5, <1>7, SameEngine, SameDisk DEF PInv

\* A call of the engine, or a step of one.
LEMMA EngineCallInv == ASSUME PInv, Engine PROVE PInv'
<1>1. /\ open /\ saves["main"] = NoSave /\ load = NoLoad /\ Next /\ UNCHANGED <<open, disk, load, saved>>
      /\ saves' = IF tables' = tables THEN saves ELSE Overtaken
  BY DEF Engine, Quiet
<1>2. IInv'
  BY <1>1, StepInv DEF PInv
<1>3. SavesOK' /\ ReadersOK' /\ saves'["main"] = NoSave
  <2>1. CASE tables' = tables
    <3>1. UNCHANGED saves /\ (load'.op = "swap" => load.op = "swap")
      BY <1>1, <2>1
    <3> QED BY <1>1, <2>1, <3>1, SameSaves DEF PInv
  <2>2. CASE tables' # tables
    BY <1>1, <2>2, OvertakenSaves DEF PInv
  <2> QED BY <2>1, <2>2
<1>4. MainOK'
  BY <1>1, <1>3, MainFree
<1> QED BY <1>1, <1>2, <1>3, <1>4, SameDisk, NoLoadOK DEF PInv

\* remove() of a backup.
LEMMA DeleteBackupInv == ASSUME PInv, NEW file \in Files, db_delete_backup(file) PROVE PInv'
<1>1. /\ UNCHANGED <<vars, open, saves, load>>
      /\ disk' = [disk EXCEPT ![file] = Absent]
  BY DEF db_delete_backup
<1>2. Absent.state = "absent" /\ Absent.doc = <<>>
  BY DEF Absent
<1>3. DiskOK'
  BY <1>1, <1>2, OneFile, EmptySeq DEF PInv
<1>4. UNCHANGED <<tables, saves, load, open, vars>>
  BY <1>1 DEF vars
<1>5. SavesOK' /\ ReadersOK' /\ MainOK'
  BY <1>4, SameSaves, SameMain DEF PInv
<1> QED BY <1>3, <1>4, <1>5, SameEngine, SameLoad DEF PInv

\* The first start of the program, with no files.
LEMMA PInitInv == PInit => PInv
<1> SUFFICES ASSUME PInit PROVE PInv
  OBVIOUS
<1>1. Absent.state = "absent" /\ Absent.doc = <<>>
  BY DEF Absent
<1>2. DiskOK
  BY <1>1, EmptySeq DEF PInit, DiskOK
<1>3. saves["main"] = NoSave /\ SavesOK /\ ReadersOK
  BY NoSaveOK, MainSaves DEF PInit, SavesOK, ReadersOK, ReadsOn
<1>4. LoadOK /\ load = NoLoad /\ load.op = "none"
  <2>1. /\ NoLoad.op = "none" /\ NoLoad.doc = <<>> /\ NoLoad.tables = <<>> /\ NoLoad.todo = {}
        /\ DOMAIN NoLoad = {"op", "image", "doc", "tables", "todo"}
    BY DEF NoLoad
  <2> QED BY <2>1, EmptySeq DEF PInit, LoadOK
<1>5. Idle
  BY DEF PInit, Init, Idle
<1>6. MainOK
  BY <1>3, <1>4, <1>5, NoSaveOK DEF MainOK, Quiet
<1> QED BY <1>2, <1>3, <1>4, <1>6, InitInv DEF PInit, PInv

\* Every step keeps the invariant.
LEMMA PStepInv == PInv /\ [PNext]_allvars => PInv'
<1> SUFFICES ASSUME PInv, [PNext]_allvars PROVE PInv'
  OBVIOUS
<1>0. global_counter \in CInt
  BY Parts DEF PInv, RestOK
<1>1. CASE Engine
  BY <1>1, EngineCallInv
<1>2. CASE db_create \/ db_close
  <2>1. /\ saves["main"] = NoSave /\ load' = NoLoad /\ FreshDatabase
        /\ (saves' = Detached \/ saves' = Overtaken)
        /\ open' \in BOOLEAN /\ global_counter' = global_counter /\ UNCHANGED disk
    BY <1>2 DEF db_create, db_close, Quiet
  <2> QED BY <1>0, <2>1, FreshCallInv
<1>3. ASSUME NEW f \in Files, db_save_to_file(f) PROVE PInv'
  BY <1>3, StartSaveInv DEF db_save_to_file
<1>4. ASSUME NEW f \in Files, db_open(f) PROVE PInv'
  <2>1. CASE StartLoad("load", f)
    BY <1>4, <2>1, StartLoadInv DEF db_open
  <2>2. CASE open' = TRUE /\ saves' = Detached /\ FreshDatabase /\ UNCHANGED <<global_counter, disk, load, saved>>
    <3>1. saves["main"] = NoSave /\ load' = NoLoad /\ open' \in BOOLEAN /\ global_counter' = global_counter
      BY <1>4, <2>2 DEF db_open, Quiet
    <3> QED BY <1>0, <2>2, <3>1, FreshCallInv
  <2> QED BY <1>4, <2>1, <2>2 DEF db_open
<1>5. ASSUME NEW f \in Files, db_restore_backup(f) PROVE PInv'
  BY <1>5, StartLoadInv DEF db_restore_backup
<1>6. ASSUME NEW f \in Files, db_delete_backup(f) PROVE PInv'
  BY <1>6, DeleteBackupInv
<1>7. ASSUME NEW second \in DOMAIN BackupFile, db_create_backup(second) PROVE PInv'
  <2>1. BackupFile[second] \in Files
    BY PersistenceConstants
  <2> QED BY <1>7, <2>1, StartSaveInv DEF db_create_backup
<1>8. ASSUME NEW k \in Savers, SaveStep(k) PROVE PInv'
  BY <1>8, SerializeInv, OpenFileInv, EndSaveInv DEF SaveStep
<1>9. CASE LoadStep
  <2>1. CASE EndLoad
    <3>1. load # NoLoad /\ load.op # "swap" /\ Loaded /\ saves' = Detached
      BY <2>1 DEF EndLoad, NoLoad
    <3> QED BY <3>1, LoadedInv
  <2>2. CASE Install
    <3>1. load # NoLoad /\ load.op = "swap" /\ Loaded /\ UNCHANGED saves
      BY <2>2 DEF Install, NoLoad
    <3> QED BY <3>1, LoadedInv
  <2> QED BY <1>9, <2>1, <2>2, LoadTableInv, LoadRecordInv, FreeOldInv DEF LoadStep
<1>10. CASE Interrupt \/ Terminate
  <2>1. StateFile \in Files
    BY PersistenceConstants
  <2>2. StartSave("signal", StateFile) \/ StartSave("exit", StateFile)
    BY <1>10 DEF Interrupt, Terminate
  <2> QED BY <2>1, <2>2, StartSaveInv
<1>11. CASE Crash
  <2>1. DiskOK'
    BY <1>11, SameDisk DEF Crash, PInv
  <2> QED BY <1>11, <2>1, ProcessEndsInv DEF Crash
<1>12. CASE UNCHANGED allvars
  <2>1. UNCHANGED <<vars, open, disk, saves, load>>
    BY <1>12 DEF allvars, pvars
  <2>2. tables' = tables
    BY <2>1 DEF vars
  <2>3. SavesOK' /\ ReadersOK' /\ MainOK' /\ LoadOK' /\ DiskOK'
    BY <2>1, <2>2, SameDisk, SameSaves, SameMain, SameLoad DEF PInv
  <2> QED BY <2>1, <2>3, SameEngine DEF PInv
<1> QED BY <1>1, <1>2, <1>3, <1>4, <1>5, <1>6, <1>7, <1>8, <1>9, <1>10, <1>11, <1>12 DEF PNext

\* The invariant holds in every reachable state, whatever is saved, loaded,
\* interrupted or lost, for every set of files and any of the handlers.
THEOREM PersistenceInvariant == PSpec => []PInv
<1>1. PSpec => PInit /\ [][PNext]_allvars
  BY DEF PSpec
<1> QED BY <1>1, PInitInv, PStepInv, PTL

\* Files, saves and the load under way keep their types; the main thread is in
\* one call at a time, with the database open that the call is about.
THEOREM PersistenceTypes == PSpec => []PTypeOK
<1>1. PInv => PTypeOK
  <2> SUFFICES ASSUME PInv PROVE PTypeOK
    OBVIOUS
  <2>1. \A k \in Savers : saves[k].stage \in Stages /\ saves[k].file \in Files /\ saves[k].overtaken \in BOOLEAN
    BY DEF PInv, SavesOK, SaveOK
  <2> QED BY <2>1 DEF PInv, DiskOK, MainOK, LoadOK, PTypeOK
<1> QED BY <1>1, PersistenceInvariant, PTL

\* Ids stay unique, counts exact and transactions well formed across saves,
\* restarts, loads and restores, for the tables being read as well.
THEOREM EngineSoundness == PSpec => []EngineSound
<1>1. PInv => EngineSound
  BY DEF PInv, IInv, LoadOK, GoodTables, TableInv, EngineSound
<1> QED BY <1>1, PersistenceInvariant, PTL

\* A backup, and the save at the end of main, write the tables of the database,
\* whatever the handlers save at the same time; a handler reads them exactly
\* until main changes them.
THEOREM SavesAreExact == PSpec => []SavesExact
<1>1. PInv => SavesExact
  BY DEF PInv, MainOK, ReadersOK, ReadsOn, SavesExact
<1> QED BY <1>1, PersistenceInvariant, PTL

\* A restore leaves tables and transaction alone until all of the backup has
\* been read, and when it cannot be; once it has freed the old tables, main
\* does nothing before it has installed the new ones.
THEOREM RestoresAtomic == PSpec => RestoreAtomic
<1> DEFINE A == /\ Restoring => UNCHANGED <<tables, txn, open>> \/ Install \/ ProcessEnds
                /\ load.op = "swap" => UNCHANGED <<load, batch, global_counter>> \/ Install \/ ProcessEnds
                /\ load.op # "swap" /\ load'.op = "swap" => AllRead
<1>1. ASSUME PInv, [PNext]_allvars PROVE [A]_allvars
  <2> SUFFICES ASSUME PNext PROVE A
    BY <1>1
  <2> DEFINE Same == UNCHANGED <<tables, txn, open, load, batch, global_counter>>
  <2>1. Same \/ ProcessEnds => A
    <3>1. ProcessEnds => load'.op = "none"
      BY DEF ProcessEnds, NoLoad
    <3> QED BY <3>1
  <2>2. CASE \/ \E f \in Files : db_save_to_file(f) \/ db_delete_backup(f)
             \/ \E second \in DOMAIN BackupFile : db_create_backup(second)
             \/ Interrupt \/ Terminate
    <3>1. Same
      BY <2>2 DEF db_save_to_file, db_delete_backup, db_create_backup, Interrupt, Terminate, StartSave, vars
    <3> QED BY <2>1, <3>1
  <2>3. CASE \E k \in Savers : SaveStep(k)
    <3>1. Same \/ ProcessEnds
      BY <2>3 DEF SaveStep, SerializeTable, OpenFile, EndSave, vars
    <3> QED BY <2>1, <3>1
  <2>4. CASE Crash
    BY <2>1, <2>4 DEF Crash
  <2>5. CASE \E f \in Files : db_restore_backup(f)
    <3> PICK f \in Files : db_restore_backup(f)
      BY <2>5
    <3>1. load.op = "none" /\ load'.op # "swap"
      <4>1. load = NoLoad /\ StartLoad("restore", f)
        BY DEF db_restore_backup, Quiet
      <4>2. load' = NoLoad \/ load' = Loading("restore", saved[f], disk[f].doc, <<>>, {})
        BY <4>1 DEF StartLoad, LoadFailed
      <4> QED BY <4>1, <4>2 DEF Loading, NoLoad
    <3>2. UNCHANGED <<tables, txn, open>>
      BY DEF db_restore_backup, StartLoad, LoadFailed, vars
    <3> QED BY <3>1, <3>2
  <2>6. CASE /\ ~ \E f \in Files : db_restore_backup(f)
             /\ Engine \/ db_create \/ db_close \/ \E f \in Files : db_open(f)
    <3>1. load.op = "none" /\ load'.op # "swap"
      BY <2>6 DEF Engine, db_create, db_close, db_open, Quiet, StartLoad, Loading, LoadFailed, NoLoad
    <3> QED BY <2>6, <3>1 DEF Restoring
  <2>7. CASE /\ ~ \E f \in Files : db_restore_backup(f)
             /\ LoadStep
    <3>1. CASE LoadTable \/ LoadRecord
      <4>1. load.op \in {"load", "restore"}
        <5>1. CASE LoadTable
          BY <5>1 DEF LoadTable
        <5>2. CASE LoadRecord
          <6>1. load.todo # {}
            BY <5>2 DEF LoadRecord
          <6>2. load # NoLoad
            BY <6>1 DEF NoLoad
          <6> QED BY <1>1, <6>1, <6>2 DEF PInv, LoadOK, AllRead
        <5> QED BY <3>1, <5>1, <5>2
      <4>2. load'.op # "swap" /\ (load.op = "restore" => UNCHANGED <<tables, txn, open>>)
        <5>1. \/ LoadFailed(load.op)
              \/ load'.op = load.op /\ UNCHANGED <<tables, txn, open>>
          <6>1. CASE LoadTable
            BY <6>1 DEF LoadTable, Loading
          <6>2. CASE LoadRecord
            <7>1. \/ LoadFailed(load.op)
                  \/ /\ \E ts, todo : load' = Loading(load.op, load.image, load.doc, ts, todo)
                     /\ UNCHANGED <<tables, txn, open>>
              BY <6>2 DEF LoadRecord
            <7> QED BY <7>1 DEF Loading
          <6> QED BY <3>1, <6>1, <6>2
        <5> QED BY <4>1, <5>1 DEF LoadFailed, NoLoad
      <4> QED BY <2>7, <4>1, <4>2 DEF Restoring
    <3>2. CASE EndLoad
      <4>1. load.op = "load" /\ load'.op = "none"
        BY <3>2 DEF EndLoad, Loaded, NoLoad
      <4> QED BY <2>7, <4>1 DEF Restoring
    <3>3. CASE FreeOld
      BY <3>3 DEF FreeOld, vars
    <3>4. CASE Install
      <4>1. load'.op = "none"
        BY <3>4 DEF Install, Loaded, NoLoad
      <4> QED BY <3>4, <4>1
    <3> QED BY <2>7, <3>1, <3>2, <3>3, <3>4 DEF LoadStep
  <2> QED BY <2>2, <2>3, <2>4, <2>5, <2>6, <2>7 DEF PNext
<1>2. PSpec => [][PNext]_allvars
  BY DEF PSpec
<1>3. PSpec => [][A]_allvars
  BY <1>1, <1>2, PersistenceInvariant, PTL
<1> QED BY <1>3 DEF RestoreAtomic
=============================================================================
