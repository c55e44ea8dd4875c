------------------------------- MODULE Database -------------------------------
(***************************************************************************)
(* The in-memory engine of src/database.c as a program calls it: schema,   *)
(* record, index and transaction operations, one action per API function.  *)
(* A call is atomic except db_batch_insert_records, whose loop is one step *)
(* per record.  The engine takes no lock and has one caller, so no other   *)
(* call starts while a batch is under way.                                 *)
(*                                                                         *)
(* ret is what the caller of the last operation got back.                  *)
(***************************************************************************)
EXTENDS Table

CONSTANTS
    MAX_TABLES, MAX_FIELDS_PER_TABLE, BATCH_INSERT_SIZE, MAX_TRANSACTION_LEVEL,
    Names,      \* the table names callers use
    Truncated,  \* a name as the 64-byte Table.name holds it
    Schemas,    \* the field lists callers create tables with
    Rows,       \* the Field arrays callers pass
    Batches,    \* the arrays of Field arrays callers pass
    Values,     \* ids and field values callers look up
    MaxNodes,   \* bound: records ever inserted in one table
    MaxVersion  \* bound: version of a record

ASSUME DatabaseConstants ==
    /\ {MAX_TABLES, MAX_FIELDS_PER_TABLE, BATCH_INSERT_SIZE} \subseteq Nat
    /\ MAX_TRANSACTION_LEVEL \in Nat \ {0}
    /\ Truncated \in [Names -> Names]
    /\ Schemas \subseteq Seq(FieldDef)
    /\ Rows \subseteq Seq(Field)
    /\ \A row \in Rows, schema \in Schemas : Len(row) >= Len(schema)
    /\ Batches \subseteq Seq(Rows)
    /\ Values \subseteq CInt
    /\ {MaxNodes, MaxVersion} \subseteq Nat

VARIABLES
    tables,          \* db->tables[0 .. table_count - 1]
    txn,             \* transaction_active, transaction_level
    global_counter,  \* the static counter of generate_record_id
    batch,           \* the batch under way: its table (0: none), what is left, what
                     \* was inserted and (history) what the call found
    ret              \* operation and ErrorCode of the last call

vars == <<tables, txn, global_counter, batch, ret>>

NoTxn == [active |-> FALSE, level |-> 0]

NoBatch == [table |-> 0, todo |-> <<>>, done |-> <<>>,
            before |-> [tables |-> <<>>, txn |-> NoTxn]]
Idle == batch = NoBatch

\* db_create: no tables, no transaction
Init ==
    /\ tables = <<>>
    /\ txn = NoTxn
    /\ global_counter = GLOBAL_COUNTER
    /\ batch = NoBatch
    /\ ret = [op |-> "create", code |-> "SUCCESS"]

Return(op, code) == ret' = [op |-> op, code |-> code]

\* An early return: nothing but the code
Refuse(op, code) == Return(op, code) /\ UNCHANGED <<tables, txn, global_counter, batch>>

-----------------------------------------------------------------------------
(***************************************************************************)
(* Transactions                                                            *)
(***************************************************************************)

\* Mutant: one level too many
CanBegin_OffByOne(x) == ~(x.active /\ x.level > MAX_TRANSACTION_LEVEL)

CanBegin(x) == ~(x.active /\ x.level >= MAX_TRANSACTION_LEVEL)

Begun(x) == [active |-> TRUE, level |-> IF x.active THEN x.level + 1 ELSE 1]

Committed(x) ==
    IF x.level > 1 THEN [active |-> TRUE, level |-> x.level - 1] ELSE NoTxn

\* Every level ends at once, and no record is touched
RolledBack(x) == NoTxn

\* Mutant: the call ends the transaction whether or not it began it
LocalTransaction_AlwaysEnd(x, code) ==
    IF code = "SUCCESS" THEN Committed(IF x.active THEN x ELSE Begun(x)) ELSE RolledBack(x)

\* How the single-record calls use transactions: one of their own when the
\* caller has none, otherwise the caller's, left as it is
LocalTransaction(x, code) ==
    IF x.active THEN x
    ELSE IF code = "SUCCESS" THEN Committed(Begun(x)) ELSE RolledBack(Begun(x))

db_begin_transaction ==
    /\ Idle
    /\ IF CanBegin(txn)
       THEN /\ txn' = Begun(txn)
            /\ Return("begin", "SUCCESS")
            /\ UNCHANGED <<tables, global_counter, batch>>
       ELSE Refuse("begin", "ERROR_TRANSACTION_CONFLICT")

\* db_commit_transaction and db_rollback_transaction
EndTransaction(op, ended) ==
    /\ Idle
    /\ IF txn.active
       THEN /\ txn' = ended
            /\ Return(op, "SUCCESS")
            /\ UNCHANGED <<tables, global_counter, batch>>
       ELSE Refuse(op, "ERROR_TRANSACTION_CONFLICT")

db_commit_transaction == EndTransaction("commit", Committed(txn))
db_rollback_transaction == EndTransaction("rollback", RolledBack(txn))

-----------------------------------------------------------------------------
(***************************************************************************)
(* Tables                                                                  *)
(***************************************************************************)

Named(name) == {i \in DOMAIN tables : tables[i].name = name}

\* db_get_table: position of the first table with that name, 0 for NULL
db_get_table(name) ==
    IF Named(name) = {} THEN 0
    ELSE CHOOSE i \in Named(name) : \A j \in Named(name) : i <= j

\* Mutant: no check for a table of that name
db_add_table_NoCheck(name, schema) ==
    /\ Idle
    /\ IF Len(schema) \notin 1 .. MAX_FIELDS_PER_TABLE
       THEN Refuse("add_table", "ERROR_INVALID_INPUT")
       ELSE IF Len(tables) >= MAX_TABLES
       THEN Refuse("add_table", "ERROR_TABLE_FULL")
       ELSE /\ tables' = Append(tables, NewTable(Truncated[name], schema))
            /\ Return("add_table", "SUCCESS")
            /\ UNCHANGED <<txn, global_counter, batch>>

\* The name is compared in full with the stored names, then stored truncated
db_add_table(name, schema) ==
    /\ Idle
    /\ IF Len(schema) \notin 1 .. MAX_FIELDS_PER_TABLE
       THEN Refuse("add_table", "ERROR_INVALID_INPUT")
       ELSE IF Named(name) # {}
       THEN Refuse("add_table", "ERROR_DUPLICATE_KEY")
       ELSE IF Len(tables) >= MAX_TABLES
       THEN Refuse("add_table", "ERROR_TABLE_FULL")
       ELSE /\ tables' = Append(tables, NewTable(Truncated[name], schema))
            /\ Return("add_table", "SUCCESS")
            /\ UNCHANGED <<txn, global_counter, batch>>

-----------------------------------------------------------------------------
(***************************************************************************)
(* Records                                                                 *)
(***************************************************************************)

\* A record call on the table named name: the lookup, then the call's effect
OnTable(op, name, Effect(_)) ==
    /\ Idle
    /\ LET i == db_get_table(name)
       IN  IF i = 0 THEN Refuse(op, "ERROR_NOT_FOUND") ELSE Effect(i)

\* The end of a single-record call: its table, its code, its transaction
Finish(op, i, r) ==
    /\ tables' = [tables EXCEPT ![i] = r.table]
    /\ txn' = LocalTransaction(txn, r.code)
    /\ Return(op, r.code)
    /\ UNCHANGED batch

InsertInto(i, row) ==
    LET r == table_insert_record(tables[i], row, global_counter)
    IN  /\ tables[i].nodes < MaxNodes
        /\ global_counter' = r.counter
        /\ Finish("insert", i, r)

UpdateIn(i, id, row) ==
    LET r == table_update_record(tables[i], id, row)
    IN  /\ \A n \in NodesWithId(tables[i], id) : tables[i].records[n].version < MaxVersion
        /\ Finish("update", i, r)
        /\ UNCHANGED global_counter

DeleteFrom(i, id) ==
    /\ Finish("delete", i, table_delete_record(tables[i], id))
    /\ UNCHANGED global_counter

\* Always begins a transaction; one that matched nothing is rolled back, and
\* SUCCESS is returned either way
DeleteMatching(i, f, value) ==
    IF f \notin DOMAIN tables[i].schema
    THEN Refuse("delete_by_field", "ERROR_NOT_FOUND")
    ELSE IF ~CanBegin(txn)
    THEN Refuse("delete_by_field", "ERROR_TRANSACTION_CONFLICT")
    ELSE /\ tables' = [tables EXCEPT ![i] = UnlinkMatching(@, f, value)]
         /\ txn' = IF Matching(tables[i], f, value) # {}
                   THEN Committed(Begun(txn)) ELSE RolledBack(Begun(txn))
         /\ Return("delete_by_field", "SUCCESS")
         /\ UNCHANGED <<global_counter, batch>>

db_insert_record(name, row) ==
    LET Effect(i) == InsertInto(i, row) IN OnTable("insert", name, Effect)

db_update_record(name, id, row) ==
    LET Effect(i) == UpdateIn(i, id, row) IN OnTable("update", name, Effect)

db_delete_record(name, id) ==
    LET Effect(i) == DeleteFrom(i, id) IN OnTable("delete", name, Effect)

db_delete_records_by_field(name, f, value) ==
    LET Effect(i) == DeleteMatching(i, f, value)
    IN  OnTable("delete_by_field", name, Effect)

-----------------------------------------------------------------------------
(***************************************************************************)
(* db_batch_insert_records: the checks and the transaction it begins ...   *)
(***************************************************************************)
\* Mutant: room is checked for one record instead of the whole batch
StartBatch_RoomForOne(i, rows) ==
    IF tables[i].record_count >= MAX_RECORDS_PER_TABLE
    THEN Refuse("batch", "ERROR_TABLE_FULL")
    ELSE IF ~CanBegin(txn)
    THEN Refuse("batch", "ERROR_TRANSACTION_CONFLICT")
    ELSE /\ tables[i].nodes + Len(rows) <= MaxNodes
         /\ txn' = Begun(txn)
         /\ batch' = [table |-> i, todo |-> rows, done |-> <<>>,
                      before |-> [tables |-> tables, txn |-> txn]]
         /\ Return("batch", "PENDING")
         /\ UNCHANGED <<tables, global_counter>>

StartBatch(i, rows) ==
    IF tables[i].record_count + Len(rows) > MAX_RECORDS_PER_TABLE
    THEN Refuse("batch", "ERROR_TABLE_FULL")
    ELSE IF ~CanBegin(txn)
    THEN Refuse("batch", "ERROR_TRANSACTION_CONFLICT")
    ELSE /\ tables[i].nodes + Len(rows) <= MaxNodes
         /\ txn' = Begun(txn)
         /\ batch' = [table |-> i, todo |-> rows, done |-> <<>>,
                      before |-> [tables |-> tables, txn |-> txn]]
         /\ Return("batch", "PENDING")
         /\ UNCHANGED <<tables, global_counter>>

\* Mutant: a batch of no records is accepted
db_batch_insert_records_NoLowerBound(name, rows) ==
    LET Effect(i) == StartBatch(i, rows)
    IN  IF Len(rows) > BATCH_INSERT_SIZE
        THEN Idle /\ Refuse("batch", "ERROR_INVALID_INPUT")
        ELSE OnTable("batch", name, Effect)

db_batch_insert_records(name, rows) ==
    LET Effect(i) == StartBatch(i, rows)
    IN  IF Len(rows) \notin 1 .. BATCH_INSERT_SIZE
        THEN Idle /\ Refuse("batch", "ERROR_INVALID_INPUT")
        ELSE OnTable("batch", name, Effect)

\* ... and one turn of its loop: the first failure rolls back and ends the
\* call, the last success commits
BatchInsert ==
    LET r == table_insert_record(tables[batch.table], Head(batch.todo), global_counter)
        more == r.code = "SUCCESS" /\ Len(batch.todo) > 1
    IN  /\ ~Idle
        /\ tables' = [tables EXCEPT ![batch.table] = r.table]
        /\ global_counter' = r.counter
        /\ txn' = IF r.code # "SUCCESS" THEN RolledBack(txn)
                  ELSE IF more THEN txn ELSE Committed(txn)
        /\ batch' = IF more THEN [batch EXCEPT !.todo = Tail(@), !.done = Append(@, Head(batch.todo))]
                    ELSE NoBatch
        /\ Return("batch", IF more THEN "PENDING" ELSE r.code)

-----------------------------------------------------------------------------
(***************************************************************************)
(* Indexes: a list of indexed fields per table, which no lookup uses       *)
(***************************************************************************)
SetIndexes(op, i, indexes) ==
    /\ tables' = [tables EXCEPT ![i].indexes = indexes]
    /\ Return(op, "SUCCESS")
    /\ UNCHANGED <<txn, global_counter, batch>>

CreateIndexOn(i, f) ==
    IF f \notin DOMAIN tables[i].schema
    THEN Refuse("create_index", "ERROR_NOT_FOUND")
    ELSE IF f \in tables[i].indexes
    THEN Refuse("create_index", "ERROR_INDEX_EXISTS")
    ELSE IF Cardinality(tables[i].indexes) >= MAX_INDEXES_PER_TABLE
    THEN Refuse("create_index", "ERROR_TABLE_FULL")
    ELSE SetIndexes("create_index", i, tables[i].indexes \cup {f})

DropIndexOn(i, f) ==
    IF f \notin tables[i].indexes
    THEN Refuse("drop_index", "ERROR_NOT_FOUND")
    ELSE SetIndexes("drop_index", i, tables[i].indexes \ {f})

db_create_index(name, f) ==
    LET Effect(i) == CreateIndexOn(i, f) IN OnTable("create_index", name, Effect)

db_drop_index(name, f) ==
    LET Effect(i) == DropIndexOn(i, f) IN OnTable("drop_index", name, Effect)

-----------------------------------------------------------------------------
\* Field positions callers name; 0 stands for a name no field has
FieldArgs == 0 .. MAX_FIELDS_PER_TABLE

SchemaCalls(name) ==
    \/ \E schema \in Schemas : db_add_table(name, schema)
    \/ \E f \in FieldArgs : db_create_index(name, f)
    \/ \E f \in FieldArgs : db_drop_index(name, f)

RecordCalls(name) ==
    \/ \E row \in Rows : db_insert_record(name, row)
    \/ \E id \in Values, row \in Rows : db_update_record(name, id, row)
    \/ \E id \in Values : db_delete_record(name, id)
    \/ \E f \in FieldArgs, v \in Values : db_delete_records_by_field(name, f, v)
    \/ \E rows \in Batches : db_batch_insert_records(name, rows)

Next ==
    \/ \E name \in Names : SchemaCalls(name) \/ RecordCalls(name)
    \/ BatchInsert
    \/ db_begin_transaction
    \/ db_commit_transaction
    \/ db_rollback_transaction

Spec == Init /\ [][Next]_vars

-----------------------------------------------------------------------------
(***************************************************************************)
(* Properties                                                              *)
(***************************************************************************)

Ops == {"create", "begin", "commit", "rollback", "add_table", "insert", "update",
        "delete", "delete_by_field", "batch", "create_index", "drop_index"}
Codes == {"SUCCESS", "PENDING", "ERROR_INVALID_INPUT", "ERROR_NOT_FOUND",
          "ERROR_DUPLICATE_KEY", "ERROR_TABLE_FULL", "ERROR_CONSTRAINT_VIOLATION",
          "ERROR_TRANSACTION_CONFLICT", "ERROR_INDEX_EXISTS"}

\* One table: the parts of the record, and what ties them together: list
\* nodes are among the nodes allocated so far, and every record has exactly
\* the fields of the schema
TableOK(t) ==
    /\ DOMAIN t = {"name", "schema", "records", "record_count", "nodes", "indexes"}
    /\ t.name \in Names
    /\ t.schema \in Schemas
    /\ Len(t.schema) >= 1
    /\ t.record_count \in Int
    /\ t.nodes \in Nat
    /\ t.indexes \subseteq Nat
    /\ t.records \in [DOMAIN t.records -> Record]
    /\ DOMAIN t.records \subseteq 1 .. t.nodes
    /\ \A n \in DOMAIN t.records : Len(t.records[n].fields) = Len(t.schema)

\* Types of the engine's state: every record has the fields of its table's
\* schema, and a batch under way (db_batch_insert_records) has a table and
\* at least one record left to insert.
TypeOK ==
    /\ tables \in Seq({tables[i] : i \in DOMAIN tables})
    /\ \A i \in DOMAIN tables : TableOK(tables[i])
    /\ txn \in [active : BOOLEAN, level : Nat]
    /\ global_counter \in CInt
    /\ DOMAIN batch = {"table", "todo", "done", "before"}
    /\ batch.table \in Nat
    /\ {batch.todo, batch.done} \subseteq Seq(Rows)
    /\ Idle \/ (batch.table \in DOMAIN tables /\ batch.todo # <<>>)
    /\ ret \in [op : Ops, code : Codes]

UniqueIds(t) ==
    \A m, n \in DOMAIN t.records : t.records[m].id = t.records[n].id => m = n

\* No two records of a table have the same id, whatever mix of caller-chosen
\* and generated ids, updates and deletions led there (the duplicate check of
\* table_insert_record and the ids of generate_record_id).
IdsUnique == \A i \in DOMAIN tables : UniqueIds(tables[i])

CountedExactly(t) ==
    /\ t.record_count = Cardinality(DOMAIN t.records)
    /\ t.record_count <= MAX_RECORDS_PER_TABLE

\* record_count, which guards the capacity of a table, is the length of the
\* record list after any insertion, deletion by id or by field, or batch that
\* stopped half way, and never exceeds MAX_RECORDS_PER_TABLE.
CountExact == \A i \in DOMAIN tables : CountedExactly(tables[i])

\* The flag and the nesting level of the transaction agree, the level never
\* passes MAX_TRANSACTION_LEVEL although calls nest transactions of their
\* own, and a batch always runs inside one.
TxnShape ==
    /\ txn.active <=> txn.level > 0
    /\ txn.level <= MAX_TRANSACTION_LEVEL
    /\ ~Idle => txn.active

\* The capacity db_batch_insert_records checks once, before its loop, is
\* enough for the whole batch: no insertion of the loop finds the table full.
BatchFits ==
    ~Idle => tables[batch.table].record_count + Len(batch.todo) <= MAX_RECORDS_PER_TABLE

\* generate_record_id, with one counter shared by all tables, gives an id
\* that no record of the table has, unless a record has the id INT_MAX.
AutoIdFresh ==
    \A i \in DOMAIN tables :
        INT_MAX \notin Ids(tables[i]) =>
            generate_record_id(tables[i], global_counter).id \notin Ids(tables[i])

\* db_add_table compares the name it is given with the stored ones and then
\* stores it cut to 64 bytes: two tables share a stored name only when that
\* name is what the cut left of a longer one.
NamesDistinct ==
    \A i, j \in DOMAIN tables :
        i # j /\ tables[i].name = tables[j].name =>
            tables[i].name \in {Truncated[n] : n \in {m \in Names : Truncated[m] # m}}

-----------------------------------------------------------------------------
\* What the call that returns next found when it was made
Found == IF Idle THEN [tables |-> tables, txn |-> txn] ELSE batch.before

\* new is old with rows inserted in this order, its records untouched
Extended(old, new, rows) ==
    /\ <<new.name, new.schema, new.indexes>> = <<old.name, old.schema, old.indexes>>
    /\ new.nodes = old.nodes + Len(rows)
    /\ new.record_count = old.record_count + Len(rows)
    /\ DOMAIN new.records = DOMAIN old.records \cup (old.nodes + 1) .. new.nodes
    /\ \A n \in DOMAIN old.records : new.records[n] = old.records[n]
    /\ \A k \in DOMAIN rows, i \in DOMAIN old.schema :
          new.records[old.nodes + k].fields[i].value = rows[k][i].value

\* A batch refused at one of its rows: the rows before it are in the table
KeepsEarlierRows ==
    /\ ~Idle
    /\ DOMAIN tables' = DOMAIN Found.tables
    /\ \A i \in DOMAIN tables' \ {batch.table} : tables'[i] = Found.tables[i]
    /\ Extended(Found.tables[batch.table], tables'[batch.table], batch.done)

\* The fields of new that are not those of old come before a primary key
\* that is not the first field
DiffersBeforeKey(schema, old, new) ==
    \E k \in 2 .. Len(schema) :
        schema[k].primary_key /\ \A i \in k .. Len(schema) : new[i] = old[i]

\* An update refused at such a key: one record has the earlier fields changed
KeepsEarlierFields ==
    /\ ret'.op = "update"
    /\ \E i \in DOMAIN tables : \E n \in DOMAIN tables[i].records :
          LET fields == tables'[i].records[n].fields
          IN  /\ tables' = [tables EXCEPT ![i].records[n].fields = fields]
              /\ DiffersBeforeKey(tables[i].schema, tables[i].records[n].fields, fields)

\* What a call that fails leaves behind: every table as the call found it, a
\* batch's calls and turns taken together, except that a batch keeps the rows
\* before the one that was refused, and an update the fields before the
\* primary key that was refused (the code undoes neither).
FailedCallHarmless ==
    [][ret'.code \notin {"SUCCESS", "PENDING"} =>
          tables' = Found.tables \/ KeepsEarlierRows \/ KeepsEarlierFields]_vars

\* A record keeps its id as long as it is in its table, and nothing but
\* db_update_record touches a record that stays.  The version moves exactly
\* when the update succeeds; one that fails leaves the version and all fields
\* from the refused primary key on, and may change the fields before it.
RowHistory ==
    [][\A i \in DOMAIN tables : \A n \in DOMAIN tables[i].records :
         LET old == tables[i].records[n]
             new == tables'[i].records[n]
         IN  (n \in DOMAIN tables'[i].records /\ new # old) =>
               /\ ret'.op = "update"
               /\ new.id = old.id
               /\ \/ ret'.code = "SUCCESS" /\ new.version = old.version + 1
                  \/ /\ ret'.code = "ERROR_DUPLICATE_KEY"
                     /\ new.version = old.version
                     /\ DiffersBeforeKey(tables[i].schema, old.fields, new.fields)]_vars

\* The calls that leave their caller without a transaction, at any level
EndsAll ==
    \/ ret' = [op |-> "rollback", code |-> "SUCCESS"]
    \/ ~Idle /\ ret'.code # "SUCCESS"
    \/ ret' = [op |-> "delete_by_field", code |-> "SUCCESS"] /\ tables' = tables

\* The caller's transaction, from the start of a call to its end: begin and
\* commit move it by one level, and every other call leaves it at the level it
\* found, transactions of its own begun and ended in between, except the three
\* that end all levels: a rollback, a batch that fails in its loop, and a
\* deletion by field that matches nothing.
TransactionsOwned ==
    [][batch' = NoBatch =>
         txn'.level =
           CASE EndsAll -> 0
             [] ret' = [op |-> "begin", code |-> "SUCCESS"] -> Found.txn.level + 1
             [] ret' = [op |-> "commit", code |-> "SUCCESS"] -> Found.txn.level - 1
             [] OTHER -> Found.txn.level]_vars

=============================================================================
