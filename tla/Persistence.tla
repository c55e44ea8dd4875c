----------------------------- MODULE Persistence -----------------------------
(***************************************************************************)
(* Saving, loading, backups and restarts: the engine of Database together  *)
(* with src/json_io.c and the part of src/main.c that saves from a signal  *)
(* handler.  A save reads the tables one by one, then opens its file       *)
(* (which empties it), then writes; a load is one step per table and per   *)
(* record, and a restore frees the old tables one step before it installs  *)
(* the new ones.                                                           *)
(*                                                                         *)
(* The handler runs beside the main thread: in the MinGW build, Windows    *)
(* calls it for Ctrl-C on a thread of its own, and a handler that runs on  *)
(* the interrupted thread (POSIX) is the case in which main takes no step. *)
(* A save whose tables are changed or freed under it reads memory that is  *)
(* no longer there: it may write anything, or end the process.  Between    *)
(* any two steps the process may die.                                      *)
(*                                                                         *)
(* db_save_to_file ignores its options: atomic_write and backup_existing   *)
(* have no counterpart here.  The codes the calls return are printed by    *)
(* their callers and not kept.                                             *)
(***************************************************************************)
EXTENDS Database, JsonIo

CONSTANTS
    Files,       \* the files of the program's directory
    StateFile,   \* the file save_state writes
    BackupFile,  \* the file of a backup, by the second it is made in
    Handlers     \* the signal handlers that save: SIGINT's ("signal"), and that
                 \* of SIGTERM and SIGSEGV, with which the process ends ("exit")

ASSUME PersistenceConstants ==
    /\ StateFile \in Files
    /\ BackupFile \in [DOMAIN BackupFile -> Files \ {StateFile}]
    /\ Handlers \subseteq {"signal", "exit"}
    /\ Renamed \in [Names -> Names]
    /\ \A schema \in Schemas : ReadSchema(schema) \in Schemas

\* Escaping adds characters and the cut keeps 63 of them
ASSUME EscapingKeepsNames == \A n \in Names : Renamed[n] = "" => n = ""

VARIABLES
    open,    \* g_database # NULL
    disk,    \* the content of each file
    saves,   \* the saves under way, the main thread's and the handlers'
    load,    \* the load under way
    saved    \* history: the tables a complete file was made from

pvars == <<open, disk, saves, load, saved>>
allvars == <<vars, pvars>>

Absent == [state |-> "absent", doc |-> <<>>]
Torn == [state |-> "torn", doc |-> <<>>]
Whole(doc) == [state |-> "whole", doc |-> doc]

Savers == {"main"} \cup Handlers

\* A save: the tables read so far, and (history) whether db->tables changed
\* while it was reading them
NoSave == [stage |-> "none", file |-> StateFile, image |-> <<>>, overtaken |-> FALSE]

NoLoad == [op |-> "none", image |-> <<>>, doc |-> <<>>, tables |-> <<>>, todo |-> {}]

\* The main thread returns from a call before it makes the next
Quiet == saves["main"] = NoSave /\ load = NoLoad

PInit ==
    /\ Init
    /\ open = FALSE
    /\ disk = [f \in Files |-> Absent]
    /\ saves = [k \in Savers |-> NoSave]
    /\ load = NoLoad
    /\ saved = [f \in Files |-> <<>>]

\* Saves that are reading tables when these are changed or freed
Overtaken ==
    [k \in Savers |-> IF saves[k].stage = "reading" THEN [saves[k] EXCEPT !.overtaken = TRUE]
                      ELSE saves[k]]

\* Saves that are reading tables when g_database is pointed elsewhere: the
\* handle they hold is lost to all others, and its tables stay as they are
Detached ==
    [k \in Savers |->
        IF saves[k].stage = "reading"
        THEN [saves[k] EXCEPT !.stage = "read",
                              !.image = @ \o SubSeq(tables, Len(@) + 1, Len(tables))]
        ELSE saves[k]]

Engine == /\ open
          /\ Quiet
          /\ Next
          /\ saves' = IF tables' = tables THEN saves ELSE Overtaken
          /\ UNCHANGED <<open, disk, load, saved>>

\* What db_create leaves of the engine's state; the id counter is a static
\* variable, which only a new process resets
FreshDatabase == tables' = <<>> /\ txn' = NoTxn /\ batch' = NoBatch /\ UNCHANGED ret

-----------------------------------------------------------------------------
(***************************************************************************)
(* db_save_to_file                                                         *)
(***************************************************************************)

Document(image) == [i \in DOMAIN image |-> json_serialize_table(image[i])]

\* The call, up to its loop over the tables.  While a restore swaps them, the
\* tables it will find are freed memory.
StartSave(k, file) ==
    /\ open
    /\ k \in Savers
    /\ saves[k] = NoSave
    /\ saves' = [saves EXCEPT ![k] = [stage |-> "reading", file |-> file, image |-> <<>>,
                                     overtaken |-> load.op = "swap"]]
    /\ UNCHANGED <<vars, open, disk, load, saved>>

\* cleanup, at the end of main
db_save_to_file(file) == Idle /\ Quiet /\ StartSave("main", file)

\* The name is the local time to the second, and mode "wb" replaces a file
\* that has it
db_create_backup(second) == Idle /\ Quiet /\ StartSave("main", BackupFile[second])

\* SIGINT: save_state.  A second SIGINT while it runs waits, or kills the
\* process where signal() resets the handler.
Interrupt == StartSave("signal", StateFile)

\* SIGTERM and SIGSEGV: save_state, then exit
Terminate == StartSave("exit", StateFile)

\* Mutant: the loop ends before the last table
Unserialized_OffByOne(k) == Len(saves[k].image) + 1 < Len(tables)

\* One turn of the loop: for (t = 0; t < db->table_count; t++)
Unserialized(k) == Len(saves[k].image) < Len(tables)

SerializeTable(k) ==
    /\ saves[k].stage = "reading"
    /\ Unserialized(k)
    /\ saves' = [saves EXCEPT ![k].image = Append(@, tables[Len(@) + 1])]
    /\ UNCHANGED <<vars, open, disk, load, saved>>

Ready(save, stage, image) == [stage |-> stage, file |-> save.file, image |-> image, overtaken |-> FALSE]

\* fopen empties the file; what is to be written is garbled when the reading
\* went wrong.  (A failing fopen ends the save and changes nothing.)
OpenFile(k) ==
    /\ \/ saves[k].stage = "read"
       \/ saves[k].stage = "reading" /\ ~Unserialized(k)
    /\ disk' = [disk EXCEPT ![saves[k].file] = Torn]
    /\ saved' = [saved EXCEPT ![saves[k].file] = <<>>]
    /\ \/ saves' = [saves EXCEPT ![k] = Ready(@, "writing", @.image)]
       \/ saves[k].overtaken /\ saves' = [saves EXCEPT ![k] = Ready(@, "garbled", <<>>)]
    /\ UNCHANGED <<vars, open, load>>

\* The process is gone, the files stay
ProcessEnds ==
    /\ open' = FALSE
    /\ saves' = [k \in Savers |-> NoSave]
    /\ load' = NoLoad
    /\ FreshDatabase
    /\ global_counter' = GLOBAL_COUNTER

Crash == ProcessEnds /\ UNCHANGED <<disk, saved>>

\* fwrite and fclose, at the start of the file whatever another save has put
\* there (the loader stops at the end of the document, and reads no leftovers
\* of a longer one): all of the text, or (reported for fwrite, ignored for
\* fclose) a part of it or nothing
WriteFile(save) ==
    \/ /\ save.stage = "writing"
       /\ disk' = [disk EXCEPT ![save.file] = Whole(Document(save.image))]
       /\ saved' = [saved EXCEPT ![save.file] = save.image]
    \/ /\ disk' = [disk EXCEPT ![save.file] = Torn]
       /\ saved' = [saved EXCEPT ![save.file] = <<>>]
    \/ UNCHANGED <<disk, saved>>

\* Mutant: SIGINT cleans up like SIGTERM, and the process goes on
EndSave_Cleanup(k) ==
    /\ saves[k].stage \in {"writing", "garbled"}
    /\ WriteFile(saves[k])
    /\ IF k = "exit" THEN ProcessEnds
       ELSE IF k = "main" THEN saves' = [saves EXCEPT ![k] = NoSave] /\ UNCHANGED <<vars, open, load>>
       ELSE /\ saves' = [Overtaken EXCEPT ![k] = NoSave]
            /\ open' = FALSE
            /\ FreshDatabase
            /\ UNCHANGED <<global_counter, load>>

EndSave(k) ==
    /\ saves[k].stage \in {"writing", "garbled"}
    /\ WriteFile(saves[k])
    /\ IF k = "exit" THEN ProcessEnds
       ELSE saves' = [saves EXCEPT ![k] = NoSave] /\ UNCHANGED <<vars, open, load>>

SaveStep(k) == SerializeTable(k) \/ OpenFile(k) \/ EndSave(k)

\* remove(), of a file in the directory of backups
db_delete_backup(file) ==
    /\ Idle /\ Quiet
    /\ file # StateFile
    /\ disk[file].state # "absent"
    /\ disk' = [disk EXCEPT ![file] = Absent]
    /\ saved' = [saved EXCEPT ![file] = <<>>]
    /\ UNCHANGED <<vars, open, saves, load>>

-----------------------------------------------------------------------------
(***************************************************************************)
(* db_load_from_file                                                       *)
(***************************************************************************)

Loading(op, image, doc, ts, todo) ==
    [op |-> op, image |-> image, doc |-> doc, tables |-> ts, todo |-> todo]

\* Mutant: the database is freed before it is known whether the file loads
LoadFailed_FreesFirst(op) ==
    /\ load' = NoLoad
    /\ open' = (op = "restore")
    /\ saves' = IF op = "restore" THEN Overtaken ELSE Detached
    /\ FreshDatabase
    /\ UNCHANGED <<disk, saved>>

\* NULL is returned and what was read is freed.  db_restore_backup keeps the
\* database it has; the callers of db_open put the NULL in g_database.
LoadFailed(op) ==
    /\ load' = NoLoad
    /\ IF op = "restore" THEN UNCHANGED <<open, saves, tables, txn, batch, ret>>
       ELSE open' = FALSE /\ saves' = Detached /\ FreshDatabase
    /\ UNCHANGED <<disk, saved>>

\* A file that is cut short, or empty, is refused by the parser
StartLoad(op, file) ==
    \/ /\ disk[file].state = "whole"
       /\ load' = Loading(op, saved[file], disk[file].doc, <<>>, {})
       /\ UNCHANGED <<vars, open, disk, saves, saved>>
    \/ /\ disk[file].state # "whole"
       /\ LoadFailed(op)
       /\ UNCHANGED global_counter

db_restore_backup(file) == open /\ Idle /\ Quiet /\ StartLoad("restore", file)

\* A file that does not exist is a new database
db_open(file) ==
    /\ Idle /\ Quiet
    /\ \/ /\ disk[file].state = "absent"
          /\ open' = TRUE
          /\ saves' = Detached
          /\ FreshDatabase
          /\ UNCHANGED <<global_counter, disk, load, saved>>
       \/ disk[file].state # "absent" /\ StartLoad("load", file)

\* Mutant: no room for the last table
TableRefused_OffByOne(d) ==
    \/ d.name = ""
    \/ Len(d.schema) \notin 1 .. MAX_FIELDS_PER_TABLE
    \/ \E i \in DOMAIN load.tables : load.tables[i].name = d.name
    \/ Len(load.tables) >= MAX_TABLES - 1

\* No name, or db_add_table refuses the table
TableRefused(d) ==
    \/ d.name = ""
    \/ Len(d.schema) \notin 1 .. MAX_FIELDS_PER_TABLE
    \/ \E i \in DOMAIN load.tables : load.tables[i].name = d.name
    \/ Len(load.tables) >= MAX_TABLES

\* The next table of the document: json_parse_table_schema and db_add_table
LoadTable ==
    /\ load.op \in {"load", "restore"}
    /\ load.todo = {}
    /\ Len(load.tables) < Len(load.doc)
    /\ LET d == load.doc[Len(load.tables) + 1]
       IN  IF TableRefused(d) THEN LoadFailed(load.op)
           ELSE /\ load' = Loading(load.op, load.image, load.doc,
                                   Append(load.tables, NewTable(d.name, ReadSchema(d.schema))),
                                   DOMAIN d.records)
                /\ UNCHANGED <<tables, txn, batch, ret, open, disk, saves, saved>>
    /\ UNCHANGED global_counter

\* Mutant: the parser does not advance
Unread_Stuck(n) == load.todo

\* The records after n
Unread(n) == load.todo \ {n}

\* The next record of the last table read: one with id -1 is skipped, one
\* with an id already there ignored
LoadRecord ==
    /\ load.todo # {}
    /\ LET last == Len(load.tables)
           n == CHOOSE m \in load.todo : \A k \in load.todo : k <= m
           rec == load.doc[last].records[n]
           t == load.tables[last]
           r == IF Unparsable(load.doc[last].schema, rec) THEN Rejected(t, global_counter, "ERROR_INVALID_INPUT")
                ELSE IF rec.id = -1 THEN Rejected(t, global_counter, "SUCCESS")
                ELSE table_insert_record(t, ReadRow(t.schema, rec), global_counter)
       IN  /\ global_counter' = r.counter
           /\ IF r.code \notin {"SUCCESS", "ERROR_DUPLICATE_KEY"}
              THEN LoadFailed(load.op)
              ELSE /\ load' = Loading(load.op, load.image, load.doc,
                                      [load.tables EXCEPT ![last] = r.table], Unread(n))
                   /\ UNCHANGED <<tables, txn, batch, ret, open, disk, saves, saved>>

\* Mutant: transaction_active is not copied from the database read
LoadedTxn_KeepsFlag == [active |-> txn.active, level |-> 0]

LoadedTxn == NoTxn

AllRead == load.todo = {} /\ Len(load.tables) = Len(load.doc)

\* The database read is the one there is now, its transaction included
Loaded ==
    /\ tables' = load.tables
    /\ txn' = LoadedTxn
    /\ open' = TRUE
    /\ load' = NoLoad
    /\ UNCHANGED <<global_counter, batch, ret, disk, saved>>

\* db_open returns it
EndLoad == load.op = "load" /\ AllRead /\ Loaded /\ saves' = Detached

\* db_restore_backup first frees the tables there were (whose values tables
\* and txn still show) ...
FreeOld ==
    /\ load.op = "restore"
    /\ AllRead
    /\ load' = [load EXCEPT !.op = "swap"]
    /\ saves' = Overtaken
    /\ UNCHANGED <<vars, open, disk, saved>>

\* ... then copies the new ones over them
Install == load.op = "swap" /\ Loaded /\ UNCHANGED saves

LoadStep == LoadTable \/ LoadRecord \/ EndLoad \/ FreeOld \/ Install

-----------------------------------------------------------------------------
\* create_database_interactive: the handle of a database that was open is lost
db_create ==
    /\ Idle /\ Quiet
    /\ open' = TRUE
    /\ saves' = Detached
    /\ FreshDatabase
    /\ UNCHANGED <<global_counter, disk, load, saved>>

\* Frees the database; nothing is written
db_close ==
    /\ open /\ Idle /\ Quiet
    /\ open' = FALSE
    /\ saves' = Overtaken
    /\ FreshDatabase
    /\ UNCHANGED <<global_counter, disk, load, saved>>

PNext ==
    \/ Engine
    \/ db_create
    \/ db_close
    \/ \E f \in Files : \/ db_save_to_file(f)
                        \/ db_open(f)
                        \/ db_restore_backup(f)
                        \/ db_delete_backup(f)
    \/ \E second \in DOMAIN BackupFile : db_create_backup(second)
    \/ \E k \in Savers : SaveStep(k)
    \/ LoadStep
    \/ Interrupt
    \/ Terminate
    \/ Crash

\* The main thread keeps running: a handler runs beside it, or gives back
\* what it interrupted
Fairness == WF_allvars(LoadStep)

PSpec == PInit /\ [][PNext]_allvars /\ Fairness

-----------------------------------------------------------------------------
(***************************************************************************)
(* Properties                                                              *)
(***************************************************************************)

Stages == {"none", "reading", "read", "writing", "garbled"}

\* Types of the state around the engine: files, saves, the load under way.
\* Only the last table read can have records left to read, none is left once
\* the old tables are freed, a call of the engine's (a batch) is never under
\* way together with a load or a save of main's, and the database such a call
\* works on stays open under it, whatever the handlers do.
PTypeOK ==
    /\ open \in BOOLEAN
    /\ \A f \in Files : disk[f].state \in {"absent", "torn", "whole"}
    /\ \A k \in Savers :
          /\ saves[k].stage \in Stages
          /\ saves[k].file \in Files
          /\ saves[k].overtaken \in BOOLEAN
    /\ load.op \in {"none", "load", "restore", "swap"}
    /\ Len(load.tables) <= Len(load.doc)
    /\ load.todo # {} => load.todo \subseteq DOMAIN load.doc[Len(load.tables)].records
    /\ load.op = "swap" => AllRead
    /\ Quiet \/ Idle
    /\ saves["main"] # NoSave \/ load.op \in {"restore", "swap"} \/ ~Idle => open

\* The engine's invariants hold across saves, restarts, loads and restores,
\* and the tables being read satisfy them record by record.
EngineSound ==
    /\ IdsUnique /\ CountExact /\ TxnShape /\ BatchFits
    /\ \A i \in DOMAIN load.tables :
          UniqueIds(load.tables[i]) /\ CountedExactly(load.tables[i])

Prefix(image) == Len(image) <= Len(tables) /\ image = SubSeq(tables, 1, Len(image))

\* A backup, and the save at the end of main, writes exactly the tables of the
\* database, whatever signals save, fail or are cut short in between and on
\* whichever thread their handlers run.  A save of a handler reads what it has
\* read exactly, unless main changed the tables meanwhile.
SavesExact ==
    /\ ~saves["main"].overtaken /\ saves["main"].stage # "garbled"
    /\ \A k \in Savers : saves[k].stage = "reading" /\ ~saves[k].overtaken => Prefix(saves[k].image)
    /\ saves["main"].stage = "writing" => saves["main"].image = tables

Content(t) == {<<t.records[n].id, t.records[n].fields>> : n \in DOMAIN t.records}

SurvivesPrinting(field) ==
    CASE field.type = "STRING" -> Escaped[field.value] = field.value
      [] field.type = "FLOAT" -> Printed[field.value] = field.value
      [] field.type = "BOOL" -> field.value \in {0, 1}
      [] field.type = "DATETIME" -> Remade[field.value] = field.value
      [] OTHER -> field.type = "INT"

\* Tables the file format can hold: field names that need no escaping, an
\* INT key in the first field, equal to the record's id and not -1, which the
\* loader takes for no id, and elsewhere values of the schema's type that read
\* back as they were printed
Portable(t) ==
    /\ t.schema[1].type = "INT"
    /\ \A i \in DOMAIN t.schema : t.schema[i].name = "plain"
    /\ \A n \in DOMAIN t.records :
          /\ t.records[n].id # -1
          /\ t.records[n].fields[1].value = t.records[n].id
          /\ \A i \in DOMAIN t.schema :
                /\ t.records[n].fields[i].type = t.schema[i].type
                /\ SurvivesPrinting(t.records[n].fields[i])

\* A load that succeeds brings back every table that was saved, in its place
\* and with its name (escaped, where it needs escaping), with as many records
\* and the same ids (except a record with the id -1, which is skipped); a
\* portable table comes back with exactly its records and values.
ReloadFaithful ==
    [][EndLoad \/ Install =>
         LET old == load.image
         IN  /\ DOMAIN tables' = DOMAIN old
             /\ \A i \in DOMAIN old :
                   /\ tables'[i].name = Renamed[old[i].name]
                   /\ Ids(tables'[i]) = Ids(old[i]) \ {-1}
                   /\ -1 \notin Ids(old[i]) => tables'[i].record_count = old[i].record_count
                   /\ Portable(old[i]) => Content(tables'[i]) = Content(old[i])]_allvars

\* Databases whose text is JSON and says which table is which
Loadable(ts) ==
    /\ \A i, j \in DOMAIN ts : ts[i].name # "" /\ (Renamed[ts[i].name] = Renamed[ts[j].name] => i = j)
    /\ \A i \in DOMAIN ts : \A n \in DOMAIN ts[i].records :
          ~Unparsable(ts[i].schema, ts[i].records[n])

\* db_load_from_file never refuses a complete file that db_save_to_file wrote,
\* with two kinds of exceptions: table names that are empty or the same when
\* escaped and cut, and records with a field name that is no JSON key as it
\* stands or a float printed as no number, which make a file that no load
\* accepts again.
WholeFilesLoad ==
    [][LoadStep /\ Loadable(load.image) => EndLoad \/ Install \/ load' # NoLoad]_allvars

Restoring == load.op \in {"restore", "swap"} \/ \E f \in Files : db_restore_backup(f)

\* A restore leaves the caller the tables and the transaction there were, when
\* it fails too, until all of the backup has been read; it frees the old
\* tables only then, and once they are freed installs the new ones: it fails
\* no more, and no other step of main comes in between.  (A handler may.)
RestoreAtomic ==
    [][/\ Restoring => UNCHANGED <<tables, txn, open>> \/ Install \/ ProcessEnds
       /\ load.op = "swap" => UNCHANGED <<load, batch, global_counter>> \/ Install \/ ProcessEnds
       /\ load.op # "swap" /\ load'.op = "swap" => AllRead]_allvars

\* A load ends, whatever it reads and however often it is interrupted.
LoadReturns == load # NoLoad ~> load = NoLoad

=============================================================================
