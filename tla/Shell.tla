------------------------------- MODULE Shell -------------------------------
(***************************************************************************)
(* The interactive program of src/main.c: command line, main loop, menus,  *)
(* the handlers behind them, the state file, signals and the end of the    *)
(* input.  One step is one line read at the main prompt or one choice of a *)
(* menu with the whole handler it calls; what the handler asks for (names, *)
(* paths, y or n) is any answer.  At the end of the input a handler finds  *)
(* uninitialised buffers, which is again any answer.                       *)
(*                                                                         *)
(* A database is the set of its tables and of its indexes; records are in  *)
(* Database and Persistence, signals in the middle of a handler in         *)
(* Persistence.  report is the last message printed: by print_success, by  *)
(* print_error_code, or any other.                                         *)
(***************************************************************************)
EXTENDS History, FiniteSets

CONSTANTS
    MAX_TABLES, MAX_INDEXES_PER_TABLE,
    TableNames,   \* table names users type
    Fields,       \* field numbers of every table
    Files,        \* paths users type
    StateFile,    \* Database.state.json: get_database_name is "Database"
    DefaultFile,  \* default.state.json
    Backups       \* the files named backup_*

ASSUME ShellConstants ==
    /\ {MAX_TABLES, MAX_INDEXES_PER_TABLE} \subseteq Nat
    /\ IsFiniteSet(TableNames) /\ IsFiniteSet(Fields)
    /\ {StateFile, DefaultFile} \cup Backups \subseteq Files
    /\ DefaultFile \notin {StateFile} \cup Backups

VARIABLES
    at,          \* where the program is: at a prompt, in "exit" (about to clean
                 \* up), or ended, with cleanup ("end") or without ("killed")
    input,       \* the number in the menu's input buffer, Unread before fgets
    eof,         \* stdin has ended
    g_running,
    interrupted, \* this process has had a SIGINT
    g_database,
    disk,        \* the content of each file
    diskfull,    \* writes fail
    report

svars == <<at, input, eof, g_running, interrupted, g_database, disk, diskfull, report, hvars>>

\* Menus that return at once when no database is open, and the others
Gated == {"table", "index", "query", "maintenance", "config"}
Menus == Gated \cup {"database", "help", "tools"}

\* Numbers in a line; 10 stands for any other, 0 is also what atoi makes of text
Numbers == 0 .. 10
Unread == 11

NoDatabase == [open |-> FALSE, tables |-> {}, indexes |-> {}]
NewDatabase == [open |-> TRUE, tables |-> {}, indexes |-> {}]

Absent == [state |-> "absent", tables |-> {}]
Other == [state |-> "other", tables |-> {}]  \* what no load accepts
Whole(ts) == [state |-> "whole", tables |-> ts]

\* What query_result_to_json writes: the loader skips the keys it does not know,
\* and what is left is a database without tables
QueryResult == Whole({})

SInit ==
    /\ at = "end"
    /\ input = Unread
    /\ eof = FALSE
    /\ g_running = TRUE
    /\ interrupted = FALSE
    /\ g_database = NoDatabase
    /\ \E d \in {Absent, Whole(TableNames)} :  \* perhaps put there by the user
          disk = [f \in Files |-> IF f = DefaultFile THEN d ELSE Absent]
    /\ diskfull = FALSE
    /\ report = "none"
    /\ HInit

-----------------------------------------------------------------------------
(***************************************************************************)
(* Files                                                                   *)
(***************************************************************************)

\* Indexes are not saved
db_load_from_file(f) ==
    IF disk[f].state = "whole"
    THEN [open |-> TRUE, tables |-> disk[f].tables, indexes |-> {}]
    ELSE NoDatabase

db_open(f) == IF disk[f].state = "absent" THEN NewDatabase ELSE db_load_from_file(f)

\* Writing a file fails when it is opened (nothing changes) or later (the
\* old content is gone)
Write(f, content) ==
    IF diskfull THEN disk' = disk \/ disk' = [disk EXCEPT ![f] = Other]
    ELSE disk' = [disk EXCEPT ![f] = content]

\* save_state for database db, whatever file or path db came from
save_state(db) ==
    IF db.open THEN Write(StateFile, Whole(db.tables)) ELSE UNCHANGED disk

-----------------------------------------------------------------------------
(***************************************************************************)
(* Handlers.  Each sets report, g_database, disk and the history.          *)
(***************************************************************************)

\* A handler, or an early return, that only prints
Shown(r) == report' = r /\ UNCHANGED <<g_database, disk, hvars>>

\* Every function of the stub block of database.c returns
\* ERROR_NOT_IMPLEMENTED, which print_error_code prints
NotImplemented == "error"

Become(db) == g_database' = db /\ UNCHANGED <<disk, hvars>>

\* A database that was open is neither saved nor closed
create_database_interactive == Become(NewDatabase) /\ report' = "success"

open_database_interactive ==
    \E f \in Files :
        /\ Become(db_open(f))
        /\ report' = IF db_open(f).open THEN "success" ELSE "error"

close_database_interactive ==
    IF ~g_database.open THEN Shown("none")
    ELSE /\ g_database' = NoDatabase
         /\ save_state(g_database) \/ UNCHANGED disk
         /\ report' = "success"
         /\ UNCHANGED hvars

\* A failure of fclose is not reported
backup_database_interactive ==
    IF ~g_database.open THEN Shown("error")
    ELSE \E b \in Backups :
            /\ Write(b, Whole(g_database.tables))
            /\ report' \in IF diskfull THEN {"success", "error"} ELSE {"success"}
            /\ UNCHANGED <<g_database, hvars>>

\* Mutant: the tables are freed before the backup is known to load
Restored_FreesFirst(b) == db_load_from_file(b)

\* Mutant: the index managers of the old tables are kept
Restored_KeepsIndexes(b) ==
    IF g_database.open /\ disk[b].state = "whole"
    THEN [db_load_from_file(b) EXCEPT !.indexes = g_database.indexes] ELSE g_database

\* The database after db_restore_backup: its tables are replaced only when
\* the backup loads, and there must be one
Restored(b) ==
    IF g_database.open /\ disk[b].state = "whole" THEN db_load_from_file(b) ELSE g_database

\* No backup listed or a number out of range; cancelled; or restored
restore_database_interactive ==
    \/ Shown("error")
    \/ /\ \E b \in Backups : disk[b].state # "absent"
       /\ Shown("none")
    \/ \E b \in Backups :
         /\ disk[b].state # "absent"
         /\ Become(Restored(b))
         /\ report' = IF g_database.open /\ disk[b].state = "whole" THEN "success" ELSE "error"

\* The field count is in range or not; db_add_table refuses a name it has
create_table_interactive ==
    IF ~g_database.open THEN Shown("error")
    ELSE \/ Shown("error")
         \/ \E t \in TableNames :
              IF t \in g_database.tables \/ Cardinality(g_database.tables) >= MAX_TABLES
              THEN Shown("error")
              ELSE /\ Become([g_database EXCEPT !.tables = @ \cup {t}])
                   /\ report' = "success"

list_tables_interactive == Shown(IF g_database.open THEN "none" ELSE "error")

describe_table_interactive ==
    \E t \in TableNames : Shown(IF t \in g_database.tables THEN "none" ELSE "error")

\* op 0 cancels, 2 asks for confirmation, 4 and up are not there
alter_table_interactive ==
    \E op \in 0 .. 6, t \in TableNames, yes \in BOOLEAN :
        Shown(IF ~g_database.open THEN "error"
              ELSE IF op = 0 THEN "none"
              ELSE IF t \notin g_database.tables THEN "error"
              ELSE IF op >= 4 \/ (op = 2 /\ ~yes) THEN "none" ELSE NotImplemented)

\* What a confirmed operation of the stub block prints
Confirmed == \E yes \in BOOLEAN :
    Shown(IF ~g_database.open THEN "error" ELSE IF yes THEN NotImplemented ELSE "none")

truncate_table_interactive == Confirmed
drop_table_interactive == Confirmed
import_table_interactive == Shown(IF ~g_database.open THEN "error" ELSE NotImplemented)
export_table_interactive == Shown(IF ~g_database.open THEN "error" ELSE NotImplemented)
statistics_interactive == Shown(IF g_database.open THEN "none" ELSE "error")

-----------------------------------------------------------------------------
IndexesOf(t) == {x \in g_database.indexes : x[1] = t}

create_index_interactive ==
    IF ~g_database.open THEN Shown("error")
    ELSE \E t \in TableNames, f \in Fields \cup {0} :
            IF \/ t \notin g_database.tables
               \/ f \notin Fields
               \/ <<t, f>> \in g_database.indexes
               \/ Cardinality(IndexesOf(t)) >= MAX_INDEXES_PER_TABLE
            THEN Shown("error")
            ELSE /\ Become([g_database EXCEPT !.indexes = @ \cup {<<t, f>>}])
                 /\ report' = "success"

\* One table, by name, or all of them
list_indexes_interactive ==
    \E t \in TableNames, all \in BOOLEAN :
        Shown(IF g_database.open /\ (all \/ t \in g_database.tables) THEN "none" ELSE "error")

optimize_index_interactive == list_indexes_interactive

drop_index_interactive ==
    IF ~g_database.open THEN Shown("error")
    ELSE \E t \in TableNames, f \in Fields, yes \in BOOLEAN :
            IF t \notin g_database.tables \/ <<t, f>> \notin g_database.indexes
            THEN Shown("error")
            ELSE IF ~yes THEN Shown("none")
            ELSE /\ Become([g_database EXCEPT !.indexes = @ \ {<<t, f>>}])
                 /\ report' = "success"

rebuild_index_interactive == Confirmed

-----------------------------------------------------------------------------
\* JSON or CSV, to whatever file the user names; XML writes nothing
save_query_result ==
    \/ /\ \E f \in Files : Write(f, QueryResult) \/ Write(f, Other)
       /\ report' \in IF diskfull THEN {"success", "none"} ELSE {"success"}
    \/ report' = "none" /\ UNCHANGED disk

\* db_execute_query counts the query and returns an empty result
execute_query_interactive ==
    IF ~g_database.open THEN Shown("error")
    ELSE \/ Shown("none")
         \/ \E q \in Texts :
              /\ add_to_history(q)
              /\ save_query_result \/ (report' = "none" /\ UNCHANGED disk)
              /\ UNCHANGED g_database

\* Mutant: a script starts with a new database
execute_script_interactive_New == Become(NewDatabase) /\ report' = "none"

\* A script that cannot be opened, or one whose queries are executed
execute_script_interactive ==
    \E opened \in BOOLEAN : Shown(IF g_database.open /\ opened THEN "none" ELSE "error")

\* Lists the history; a query executed again is not added to it
query_history == Shown("none")

explain_query_interactive ==
    \E q \in Texts \cup {"empty"} :
        Shown(IF g_database.open /\ q = "empty" THEN "none" ELSE NotImplemented)

\* "completed" is printed whatever the functions called return
vacuum_database_interactive ==
    \E op \in 0 .. 5 :
        Shown(IF ~g_database.open THEN "error" ELSE IF op \in 1 .. 4 THEN "success" ELSE "none")

analyze_database_interactive == Shown(IF g_database.open THEN "success" ELSE "error")
check_integrity_interactive == Shown(NotImplemented)

\* One table; all tables or no such operation; indexes; from a backup
repair_database_interactive ==
    IF ~g_database.open THEN Shown("error")
    ELSE \E op \in 1 .. 5 :
            \/ op = 1 /\ Shown(NotImplemented)
            \/ op \in {2, 5} /\ Shown("none")
            \/ op = 3 /\ Shown("success")
            \/ op = 4 /\ restore_database_interactive

show_config_interactive == Shown(NotImplemented)
set_config_interactive == Shown(NotImplemented)
reset_config_interactive == Shown(IF g_database.open THEN "none" ELSE "error")
export_config_interactive == Shown(NotImplemented)
import_config_interactive == Shown(NotImplemented)

\* After the backup, if one is asked for, the benchmark itself only prints
benchmark_database ==
    IF ~g_database.open THEN Shown("error")
    ELSE \/ Shown("none")
         \/ /\ \E b \in Backups : Write(b, Whole(g_database.tables))
            /\ report' = "none"
            /\ UNCHANGED <<g_database, hvars>>

stress_test_database == Shown(IF g_database.open THEN "none" ELSE "error")
performance_monitor == Shown(IF g_database.open THEN "none" ELSE "error")

-----------------------------------------------------------------------------
(***************************************************************************)
(* Menus: what choice c, not 0, of a menu does                             *)
(***************************************************************************)

Prints(c, choices) == c \in choices /\ Shown("none")

handle_database_operations(c) ==
    \/ c = 1 /\ create_database_interactive
    \/ c = 2 /\ open_database_interactive
    \/ c = 3 /\ close_database_interactive
    \/ c = 4 /\ backup_database_interactive
    \/ c = 5 /\ restore_database_interactive
    \/ c = 6 /\ statistics_interactive
    \/ c = 7 /\ save_state(g_database) /\ report' = "none" /\ UNCHANGED <<g_database, hvars>>
    \/ c = 8 /\ Shown("success")
    \/ Prints(c, {9, 10})

handle_table_operations(c) ==
    \/ c = 1 /\ create_table_interactive
    \/ c = 2 /\ list_tables_interactive
    \/ c = 3 /\ describe_table_interactive
    \/ c = 4 /\ alter_table_interactive
    \/ c = 5 /\ truncate_table_interactive
    \/ c = 6 /\ drop_table_interactive
    \/ c = 7 /\ import_table_interactive
    \/ c = 8 /\ export_table_interactive
    \/ c = 9 /\ statistics_interactive
    \/ Prints(c, {10})

handle_index_operations(c) ==
    \/ c = 1 /\ create_index_interactive
    \/ c = 2 /\ list_indexes_interactive
    \/ c = 3 /\ drop_index_interactive
    \/ c = 4 /\ rebuild_index_interactive
    \/ c = 5 /\ optimize_index_interactive
    \/ c = 6 /\ statistics_interactive
    \/ Prints(c, 7 .. 10)

handle_query_operations(c) ==
    \/ c = 1 /\ execute_query_interactive
    \/ c = 2 /\ execute_script_interactive
    \/ c = 3 /\ query_history
    \/ c = 5 /\ explain_query_interactive
    \/ Prints(c, {4} \cup 6 .. 10)

handle_maintenance_operations(c) ==
    \/ c = 1 /\ vacuum_database_interactive
    \/ c = 2 /\ analyze_database_interactive
    \/ c = 3 /\ check_integrity_interactive
    \/ c = 4 /\ repair_database_interactive
    \/ c = 5 /\ statistics_interactive
    \/ Prints(c, 6 .. 10)

handle_config_operations(c) ==
    \/ c = 1 /\ show_config_interactive
    \/ c = 2 /\ set_config_interactive
    \/ c = 3 /\ reset_config_interactive
    \/ c = 4 /\ export_config_interactive
    \/ c = 5 /\ import_config_interactive
    \/ Prints(c, 6 .. 10)

handle_help(c) == Prints(c, 1 .. 10)

handle_tools(c) ==
    \/ c = 1 /\ benchmark_database
    \/ c = 2 /\ stress_test_database
    \/ c = 3 /\ performance_monitor
    \/ Prints(c, 4 .. 10)

Handle(menu, c) ==
    \/ menu = "database" /\ handle_database_operations(c)
    \/ menu = "table" /\ handle_table_operations(c)
    \/ menu = "index" /\ handle_index_operations(c)
    \/ menu = "query" /\ handle_query_operations(c)
    \/ menu = "maintenance" /\ handle_maintenance_operations(c)
    \/ menu = "config" /\ handle_config_operations(c)
    \/ menu = "help" /\ handle_help(c)
    \/ menu = "tools" /\ handle_tools(c)

-----------------------------------------------------------------------------
(***************************************************************************)
(* The main loop                                                           *)
(***************************************************************************)

\* A line typed at the main prompt: one that starts with a number, or one of
\* the shortcuts, which start with a backslash or a slash
Shortcuts == {"q", "t", "d", "i", "e", "h", "c", "?", "x"}
Line == [number : Numbers, shortcut : {"none"}] \cup [number : {0}, shortcut : Shortcuts]

atoi(line) == line.number

MenuOf == <<"database", "table", "index", "query", "maintenance", "config", "help", "tools">>

\* The test of the main loop
LoopTest(running) == at' = IF running THEN "main" ELSE "exit"

\* Mutant: no test of g_database
Enter_NoTest(menu) == at' = menu /\ input' = Unread /\ Shown("none")

\* handle_..._operations up to its loop
Enter(menu) ==
    IF menu \in Gated /\ ~g_database.open
    THEN LoopTest(g_running) /\ UNCHANGED input /\ Shown("error")
    ELSE at' = menu /\ input' = Unread /\ Shown("none")

\* A line, read to its end and acted upon.  The shortcuts are looked for only
\* when the number is not one of the menu's, and then there is none.
ReadMain(line) ==
    /\ at = "main" /\ ~eof
    /\ \/ atoi(line) \in 1 .. 8 /\ Enter(MenuOf[atoi(line)]) /\ UNCHANGED g_running
       \/ /\ atoi(line) = 0
          /\ g_running' = FALSE
          /\ LoopTest(FALSE)
          /\ UNCHANGED input
          /\ Shown("none")
       \/ /\ atoi(line) \notin 0 .. 8
          /\ LoopTest(g_running)
          /\ UNCHANGED <<g_running, input>>
          /\ Shown("none")
    /\ UNCHANGED <<eof, interrupted, diskfull>>

\* Mutant: the loop goes on
EndMain_Continues ==
    /\ at = "main" /\ eof
    /\ LoopTest(g_running)
    /\ UNCHANGED <<input, eof, g_running, interrupted, diskfull>>
    /\ Shown("none")

\* fgets returns NULL
EndMain ==
    /\ at = "main" /\ eof
    /\ at' = "exit"
    /\ UNCHANGED <<input, eof, g_running, interrupted, diskfull>>
    /\ Shown("none")

\* fgets(input): its result is not looked at, and at the end of the input the
\* buffer keeps the line read last, or what an uninitialised buffer holds
InMenu(c) == eof => input \in {c, Unread}

\* One turn of a menu's loop
ReadChoice(menu, c) ==
    /\ at = menu
    /\ InMenu(c)
    /\ IF c = 0 THEN LoopTest(g_running) /\ input' = Unread /\ Shown("none")
       ELSE at' = menu /\ input' = c /\ Handle(menu, c)
    /\ UNCHANGED <<eof, g_running, interrupted, diskfull>>

\* Mutant: the database is closed before it is saved
cleanup_ClosesFirst == g_database' = NoDatabase /\ save_state(NoDatabase)

cleanup == g_database' = NoDatabase /\ save_state(g_database)

End ==
    /\ at' = "end"
    /\ cleanup
    /\ report' = "none"
    /\ UNCHANGED <<input, eof, g_running, interrupted, diskfull, hvars>>

Exit == at = "exit" /\ End

-----------------------------------------------------------------------------
(***************************************************************************)
(* Signals, the end of the input, a full disk                              *)
(***************************************************************************)
Ended == {"end", "killed"}
Alive == at \notin Ended

\* SIGINT while the program waits.  Afterwards fgets goes on; with the C
\* runtime of MinGW it may return NULL, which the main loop takes for the end.
Interrupt ==
    /\ Alive
    /\ save_state(g_database)
    /\ g_running' = FALSE
    /\ interrupted' = TRUE
    /\ at' \in IF at = "main" THEN {"main", "exit"} ELSE {at}
    /\ report' = "none"
    /\ UNCHANGED <<input, eof, g_database, diskfull, hvars>>

\* The same runtime has reset the handler: a second SIGINT ends the process
Kill ==
    /\ Alive /\ interrupted
    /\ at' = "killed"
    /\ g_database' = NoDatabase
    /\ report' = "none"
    /\ UNCHANGED <<input, eof, g_running, interrupted, disk, diskfull, hvars>>

\* SIGTERM; SIGSEGV differs in the exit code only
Terminate == Alive /\ End

EndOfInput ==
    /\ Alive /\ ~eof
    /\ eof' = TRUE
    /\ UNCHANGED <<at, input, g_running, interrupted, g_database, disk, diskfull, report, hvars>>

DiskFills ==
    /\ diskfull' = ~diskfull
    /\ UNCHANGED <<at, input, eof, g_running, interrupted, g_database, disk, report, hvars>>

-----------------------------------------------------------------------------
(***************************************************************************)
(* main up to its loop.  given is what -d opened, if there was a -d.       *)
(***************************************************************************)
Given == {NoDatabase} \cup {db_open(f) : f \in Files}

\* A new process with database db, at its first prompt or with none
Start(db, prompt) ==
    /\ ~Alive
    /\ at' = prompt
    /\ input' = Unread
    /\ eof' = FALSE
    /\ g_running' = TRUE
    /\ interrupted' = FALSE
    /\ g_database' = db
    /\ Reset
    /\ report' = "none"
    /\ UNCHANGED <<disk, diskfull>>

\* load_state asks its question only if there is a file
StartInteractive(given) ==
    Start(given, IF disk[DefaultFile].state = "absent" THEN "main" ELSE "restore")

\* The answer: the file replaces whatever -d opened, even if it does not load
load_state ==
    /\ at = "restore"
    /\ LoopTest(g_running)
    /\ g_database' \in {g_database, db_load_from_file(DefaultFile)}
    /\ report' = "none"
    /\ UNCHANGED <<input, eof, g_running, interrupted, disk, diskfull, hvars>>

\* -e and -s: a query, or a script whose path is asked for, on the database
\* given or on a new one, and cleanup.  (-h, -v and a -d that fails change
\* nothing.)
RunBatch(given) == Start(IF given.open THEN given ELSE NewDatabase, "exit")

SNext ==
    \/ \E line \in Line : ReadMain(line)
    \/ EndMain
    \/ load_state
    \/ \E menu \in Menus, c \in Numbers : ReadChoice(menu, c)
    \/ Exit
    \/ Interrupt
    \/ Kill
    \/ Terminate
    \/ EndOfInput
    \/ DiskFills
    \/ \E given \in Given : StartInteractive(given) \/ RunBatch(given)

\* Users may stop typing.  At the end of the input there is nothing to wait
\* for, and the program goes on
ShellFairness ==
    /\ WF_svars(EndMain)
    /\ WF_svars(eof /\ load_state)
    /\ WF_svars(eof /\ Exit)
    /\ WF_svars(eof /\ \E menu \in Menus, c \in Numbers : ReadChoice(menu, c))

SSpec == SInit /\ [][SNext]_svars /\ ShellFairness

-----------------------------------------------------------------------------
(***************************************************************************)
(* Properties                                                              *)
(***************************************************************************)
Databases == [open : BOOLEAN, tables : SUBSET TableNames, indexes : SUBSET (TableNames \X Fields)]
Contents == [state : {"absent", "other", "whole"}, tables : SUBSET TableNames]

\* Types of the shell's state.  A closed database has nothing left in it, a
\* program that has ended has none, and an index is on a table that is there.
ShellTypeOK ==
    /\ at \in Menus \cup Ended \cup {"restore", "main", "exit"}
    /\ input \in Numbers \cup {Unread}
    /\ {eof, g_running, interrupted, diskfull} \subseteq BOOLEAN
    /\ g_database \in Databases
    /\ ~g_database.open \/ ~Alive => g_database = NoDatabase
    /\ \A x \in g_database.indexes : x[1] \in g_database.tables
    /\ disk \in [Files -> Contents]
    /\ report \in {"none", "success", "error"}

\* A menu that asks for an open database on entry, and never again, has one
\* until it returns: no entry of these menus closes or loses it, a restore
\* from a damaged backup (repair_database_interactive) included.
MenusHaveDatabase == at \in Gated => g_database.open

\* A program that ends by itself, after a batch run, after a SIGINT, on SIGTERM
\* or at the end of its input leaves the tables it had in the state file,
\* unless the disk is full; tables created between a SIGINT and the end are in
\* it (cleanup).  Only a process killed by a second SIGINT does not.
ExitSaves ==
    [][(Alive /\ at' = "end" /\ g_database.open /\ ~diskfull)
          => disk'[StateFile] = Whole(g_database.tables)]_svars

\* A table created stays in the database until the program ends, unless it is
\* at load_state's question, or the user creates, opens, closes or restores a
\* database: choices 1, 2, 3 and 5 of the database menu and 4 of the
\* maintenance menu.
TablesStay ==
    [][~(g_database.tables \subseteq g_database'.tables)
          => \/ at' \in Ended
             \/ at = "restore"
             \/ at = "database" /\ input' \in {1, 2, 3, 5}
             \/ at = "maintenance" /\ input' = 4]_svars

\* An error printed by a menu entry means that nothing happened, with two
\* exceptions: open_database_interactive (choice 2 of the database menu) has
\* lost the database that was open, and a backup that failed (choice 4) has
\* left a file no load accepts in the place of one backup.
ErrorsHarmless ==
    [][report' = "error" =>
          /\ \/ g_database' = g_database
             \/ at = "database" /\ input' = 2 /\ g_database' = NoDatabase
          /\ \/ disk' = disk
             \/ /\ at = "database" /\ input' = 4
                /\ \E b \in Backups : disk' = [disk EXCEPT ![b] = Other]]_svars

\* In a menu whose loop has a choice to repeat
Repeating == at \in Menus /\ input # Unread

\* The end of the input ends the program (the break of the main loop), unless
\* it comes in a menu that has read a choice, or finds one in its
\* uninitialised buffer.
EofSettles == eof ~> (~Alive \/ Repeating)
=============================================================================
