----------------------------- MODULE ShellProofs -----------------------------
(***************************************************************************)
(* The shell for any sets of tables, fields, files and backups.  Each      *)
(* handler is shown to keep the database well formed (Sound), and the ones *)
(* of the menus that need a database also to keep it open and to lose no   *)
(* table (Grows), a restore excepted, which keeps it open.                 *)
(***************************************************************************)
EXTENDS Shell, TLAPS

Reports == {"none", "success", "error"}

Good(db) ==
    /\ db \in Databases
    /\ ~db.open => db = NoDatabase
    /\ \A x \in db.indexes : x[1] \in db.tables

FilesOK == disk \in [Files -> Contents]

State == Good(g_database) /\ FilesOK

\* What a handler leaves
Sound == Good(g_database') /\ disk' \in [Files -> Contents] /\ report' \in Reports

Open == g_database.open => g_database'.open
Grows == Open /\ g_database.tables \subseteq g_database'.tables

-----------------------------------------------------------------------------
\* A database as it is created, read from a file or left after a restore is
\* well formed.
LEMMA GoodDatabases ==
    ASSUME FilesOK
    PROVE  /\ Good(NoDatabase)
           /\ Good(NewDatabase)
           /\ \A f \in Files : Good(db_load_from_file(f)) /\ Good(db_open(f))
           /\ \A f \in Files : disk[f].state = "whole" => db_load_from_file(f).open
  BY DEF FilesOK, Contents, Databases, Good, NoDatabase, NewDatabase, db_load_from_file, db_open

\* So is what a batch run or an interactive one starts with.
LEMMA GoodGiven ==
    ASSUME FilesOK, NEW given \in Given
    PROVE  Good(given) /\ Good(IF given.open THEN given ELSE NewDatabase)
  BY GoodDatabases DEF Given

\* Writing a file changes that file only, and leaves every file readable as a
\* database, damaged or absent.
LEMMA Writing ==
    ASSUME FilesOK, NEW f \in Files, NEW content \in Contents, Write(f, content)
    PROVE  /\ disk' \in [Files -> Contents]
           /\ \A g \in Files : g # f => disk'[g] = disk[g]
  <1>1. Other \in Contents
    BY DEF Other, Contents
  <1> QED BY <1>1 DEF Write, FilesOK

\* The content of a saved database.
LEMMA Saving == ASSUME NEW db, Good(db) PROVE Whole(db.tables) \in Contents
  BY DEF Good, Databases, Whole, Contents

\* save_state, for the database of the shell or another one, leaves files.
LEMMA StateSaved ==
    ASSUME FilesOK, NEW db, Good(db), save_state(db)
    PROVE  disk' \in [Files -> Contents]
  <1>1. CASE db.open
    BY <1>1, Saving, Writing, ShellConstants DEF save_state
  <1>2. CASE ~db.open
    BY <1>2 DEF save_state, FilesOK
  <1> QED BY <1>1, <1>2

\* A handler that only prints.
LEMMA Printing ==
    ASSUME State, NEW r \in Reports, Shown(r)
    PROVE  Sound /\ Grows
  BY DEF State, Shown, Sound, Grows, Open, FilesOK, Reports

\* Opening, closing and creating databases.
LEMMA CreateOpenClose ==
    ASSUME State,
           create_database_interactive \/ open_database_interactive \/ close_database_interactive
    PROVE  Sound
  <1> USE DEF State
  <1>1. CASE create_database_interactive
    BY <1>1, GoodDatabases DEF create_database_interactive, Become, Sound, Reports, FilesOK
  <1>2. CASE open_database_interactive
    BY <1>2, GoodDatabases DEF open_database_interactive, Become, Sound, Reports, FilesOK
  <1>3. CASE close_database_interactive
    <2>1. CASE ~g_database.open
      BY <1>3, <2>1, Printing DEF close_database_interactive, Reports
    <2>2. CASE g_database.open
      <3>1. CASE UNCHANGED disk
        BY <1>3, <2>2, <3>1, GoodDatabases
        DEF close_database_interactive, Sound, Reports, FilesOK
      <3>2. CASE save_state(g_database)
        BY <1>3, <2>2, <3>2, StateSaved, GoodDatabases
        DEF close_database_interactive, Sound, Reports
      <3> QED BY <1>3, <2>2, <3>1, <3>2 DEF close_database_interactive
    <2> QED BY <2>1, <2>2
  <1> QED BY <1>1, <1>2, <1>3

\* A backup, asked for in the database menu or before a benchmark, leaves the
\* database alone.
LEMMA BackingUp ==
    ASSUME State, backup_database_interactive \/ benchmark_database
    PROVE  Sound /\ Grows
  <1> USE DEF State
  <1>1. CASE \E r \in Reports : Shown(r)
    BY <1>1, Printing
  <1>2. ASSUME NEW b \in Backups, Write(b, Whole(g_database.tables)),
               report' \in Reports, UNCHANGED g_database
        PROVE  Sound /\ Grows
    <2>1. disk' \in [Files -> Contents]
      BY <1>2, Saving, Writing, ShellConstants
    <2> QED BY <1>2, <2>1 DEF Sound, Grows, Open
  <1>3. \/ \E r \in Reports : Shown(r)
        \/ \E b \in Backups : /\ Write(b, Whole(g_database.tables))
                              /\ report' \in Reports
                              /\ UNCHANGED g_database
    <2>1. CASE backup_database_interactive
      BY <2>1 DEF backup_database_interactive, Reports
    <2>2. CASE benchmark_database
      BY <2>2 DEF benchmark_database, Reports
    <2> QED BY <2>1, <2>2
  <1> QED BY <1>1, <1>2, <1>3

\* A restore, of whatever backup, keeps an open database open.
LEMMA Restoring ==
    ASSUME State, restore_database_interactive
    PROVE  Sound /\ Open
  <1> USE DEF State
  <1>1. CASE \E r \in Reports : Shown(r)
    BY <1>1, Printing DEF Grows
  <1>2. ASSUME NEW b \in Backups, Become(Restored(b)), report' \in Reports
        PROVE  Sound /\ Open
    <2>1. Good(Restored(b)) /\ (g_database.open => Restored(b).open)
      BY GoodDatabases, ShellConstants DEF Restored
    <2> QED BY <1>2, <2>1 DEF Become, Sound, Open, FilesOK
  <1> QED BY <1>1, <1>2 DEF restore_database_interactive, Reports

\* Creating a table or an index adds to the database, dropping an index takes
\* nothing but the index.
LEMMA Changing ==
    ASSUME State,
           create_table_interactive \/ create_index_interactive \/ drop_index_interactive
    PROVE  Sound /\ Grows
  <1> USE DEF State
  <1>1. CASE \E r \in Reports : Shown(r)
    BY <1>1, Printing
  <1>2. ASSUME NEW db, Good(db), db.open, g_database.tables \subseteq db.tables,
               Become(db), report' = "success"
        PROVE  Sound /\ Grows
    BY <1>2 DEF Become, Sound, Grows, Open, FilesOK, Reports
  <1>3. CASE create_table_interactive
    <2>1. ASSUME g_database.open, NEW t \in TableNames,
                 Become([g_database EXCEPT !.tables = @ \cup {t}]), report' = "success"
          PROVE  Sound /\ Grows
      <3> DEFINE db == [g_database EXCEPT !.tables = @ \cup {t}]
      <3>1. Good(db) /\ db.open /\ g_database.tables \subseteq db.tables
        BY <2>1 DEF Good, Databases
      <3> QED BY <1>2, <2>1, <3>1
    <2> QED BY <1>1, <1>3, <2>1 DEF create_table_interactive, Reports
  <1>4. CASE create_index_interactive
    <2>1. ASSUME g_database.open, NEW t \in g_database.tables, NEW f \in Fields,
                 Become([g_database EXCEPT !.indexes = @ \cup {<<t, f>>}]), report' = "success"
          PROVE  Sound /\ Grows
      <3> DEFINE db == [g_database EXCEPT !.indexes = @ \cup {<<t, f>>}]
      <3>1. Good(db) /\ db.open /\ g_database.tables \subseteq db.tables
        BY <2>1 DEF Good, Databases
      <3> QED BY <1>2, <2>1, <3>1
    <2> QED BY <1>1, <1>4, <2>1 DEF create_index_interactive, Reports
  <1>5. CASE drop_index_interactive
    <2>1. ASSUME g_database.open, NEW t, NEW f,
                 Become([g_database EXCEPT !.indexes = @ \ {<<t, f>>}]), report' = "success"
          PROVE  Sound /\ Grows
      <3> DEFINE db == [g_database EXCEPT !.indexes = @ \ {<<t, f>>}]
      <3>1. Good(db) /\ db.open /\ g_database.tables \subseteq db.tables
        BY <2>1 DEF Good, Databases
      <3> QED BY <1>2, <2>1, <3>1
    <2> QED BY <1>1, <1>5, <2>1 DEF drop_index_interactive, Reports
  <1> QED BY <1>3, <1>4, <1>5

\* Executing a query changes no table; its result may be saved to any file.
LEMMA Querying ==
    ASSUME State, execute_query_interactive
    PROVE  Sound /\ Grows
  <1> USE DEF State
  <1>1. CASE \E r \in Reports : Shown(r)
    BY <1>1, Printing
  <1>2. ASSUME UNCHANGED g_database, report' \in Reports,
               UNCHANGED disk \/ (\E f \in Files : Write(f, QueryResult) \/ Write(f, Other))
        PROVE  Sound /\ Grows
    <2>1. Other \in Contents /\ QueryResult \in Contents
      BY DEF Other, QueryResult, Whole, Contents
    <2>2. disk' \in [Files -> Contents]
      BY <1>2, <2>1, Writing DEF FilesOK
    <2> QED BY <1>2, <2>2 DEF Sound, Grows, Open
  <1> QED BY <1>1, <1>2 DEF execute_query_interactive, save_query_result, Reports

-----------------------------------------------------------------------------
(***************************************************************************)
(* Menus                                                                   *)
(***************************************************************************)

\* The database menu keeps the database well formed, and loses tables only
\* where the user creates, opens, closes or restores a database.
LEMMA DatabaseMenu ==
    ASSUME State, NEW c, handle_database_operations(c)
    PROVE  Sound /\ (c \notin {1, 2, 3, 5} => Grows)
  <1> USE DEF State
  <1>1. CASE \E r \in Reports : Shown(r)
    BY <1>1, Printing
  <1>2. CASE save_state(g_database) /\ report' = "none" /\ UNCHANGED <<g_database, hvars>>
    BY <1>2, StateSaved DEF Sound, Grows, Open, Reports
  <1> QED BY <1>1, <1>2, CreateOpenClose, BackingUp, Restoring
          DEF handle_database_operations, statistics_interactive, Prints, Reports

\* No entry of the table menu loses a table or the database.
LEMMA TableMenu ==
    ASSUME State, NEW c, handle_table_operations(c) PROVE Sound /\ Grows
  <1>1. CASE \E r \in Reports : Shown(r)
    BY <1>1, Printing
  <1> QED BY <1>1, Changing
          DEF handle_table_operations, list_tables_interactive, describe_table_interactive,
              alter_table_interactive, truncate_table_interactive, drop_table_interactive,
              import_table_interactive, export_table_interactive, statistics_interactive,
              Confirmed, NotImplemented, Prints, Reports

\* Nor does one of the index menu.
LEMMA IndexMenu ==
    ASSUME State, NEW c, handle_index_operations(c) PROVE Sound /\ Grows
  <1>1. CASE \E r \in Reports : Shown(r)
    BY <1>1, Printing
  <1> QED BY <1>1, Changing
          DEF handle_index_operations, list_indexes_interactive, rebuild_index_interactive,
              optimize_index_interactive, statistics_interactive,
              Confirmed, NotImplemented, Prints, Reports

\* Nor one of the query menu, the only one that writes files the user names.
LEMMA QueryMenu ==
    ASSUME State, NEW c, handle_query_operations(c) PROVE Sound /\ Grows
  <1>1. CASE \E r \in Reports : Shown(r)
    BY <1>1, Printing
  <1> QED BY <1>1, Querying
          DEF handle_query_operations, execute_script_interactive, query_history,
              explain_query_interactive, NotImplemented, Prints, Reports

\* The maintenance menu can replace the tables, by a restore, and keeps the
\* database open.
LEMMA MaintenanceMenu ==
    ASSUME State, NEW c, handle_maintenance_operations(c)
    PROVE  Sound /\ Open /\ (c # 4 => Grows)
  <1>1. CASE \E r \in Reports : Shown(r)
    BY <1>1, Printing DEF Grows
  <1> QED BY <1>1, Restoring
          DEF handle_maintenance_operations, vacuum_database_interactive,
              analyze_database_interactive, check_integrity_interactive,
              repair_database_interactive, statistics_interactive, NotImplemented, Prints, Reports

\* The configuration and help menus only print.
LEMMA PrintingMenus ==
    ASSUME State, NEW c, handle_config_operations(c) \/ handle_help(c)
    PROVE  Sound /\ Grows
  <1>1. CASE \E r \in Reports : Shown(r)
    BY <1>1, Printing
  <1> QED BY <1>1
          DEF handle_config_operations, handle_help, show_config_interactive,
              set_config_interactive, reset_config_interactive, export_config_interactive,
              import_config_interactive, NotImplemented, Prints, Reports

\* The tools menu only prints and makes backups.
LEMMA ToolsMenu ==
    ASSUME State, NEW c, handle_tools(c) PROVE Sound /\ Grows
  <1>1. CASE \E r \in Reports : Shown(r)
    BY <1>1, Printing
  <1> QED BY <1>1, BackingUp
          DEF handle_tools, stress_test_database, performance_monitor, Prints, Reports

\* All menus together.
LEMMA AllMenus ==
    ASSUME State, NEW menu \in Menus, NEW c, Handle(menu, c)
    PROVE  /\ Sound
           /\ menu \in Gated => Open
           /\ \/ Grows
              \/ menu = "database" /\ c \in {1, 2, 3, 5}
              \/ menu = "maintenance" /\ c = 4
  BY DatabaseMenu, TableMenu, IndexMenu, QueryMenu, MaintenanceMenu, PrintingMenus, ToolsMenu
  DEF Handle, Grows, Gated

-----------------------------------------------------------------------------
(***************************************************************************)
(* Steps                                                                   *)
(***************************************************************************)
SInv == ShellTypeOK /\ MenusHaveDatabase

\* The state a handler needs is part of the invariant.
LEMMA InvState == SInv => State
  BY DEF SInv, ShellTypeOK, State, Good, FilesOK

\* A process that is not there has no database, and files are files.
LEMMA InitSInv == SInit => SInv
  <1> SUFFICES ASSUME SInit PROVE SInv
    OBVIOUS
  <1>1. g_database = NoDatabase /\ NoDatabase \in Databases
    BY DEF SInit, NoDatabase, Databases
  <1>2. disk \in [Files -> Contents]
    BY DEF SInit, Contents, Absent, Whole
  <1>3. NoDatabase.indexes = {}
    BY DEF NoDatabase
  <1>4. \A x \in g_database.indexes : x[1] \in g_database.tables
    BY <1>1, <1>3
  <1>5. at = "end" /\ at \notin Gated /\ input \in Numbers \cup {Unread}
    BY DEF SInit, Gated
  <1>6. {eof, g_running, interrupted, diskfull} \subseteq BOOLEAN
    BY DEF SInit
  <1>7. report \in {"none", "success", "error"}
    BY DEF SInit
  <1>8. ShellTypeOK
    BY <1>1, <1>2, <1>4, <1>5, <1>6, <1>7 DEF ShellTypeOK, Ended, Alive
  <1> QED BY <1>5, <1>8 DEF SInv, MenusHaveDatabase

\* From what a step does to the parts of the state to the invariant.
LEMMA Rebuild ==
    ASSUME Sound, at' \in Menus \cup Ended \cup {"restore", "main", "exit"},
           input' \in Numbers \cup {Unread},
           {eof', g_running', interrupted', diskfull'} \subseteq BOOLEAN,
           at' \in Gated => g_database'.open,
           at' \in Ended => g_database' = NoDatabase
    PROVE  SInv'
  BY DEF Sound, Good, Reports, SInv, ShellTypeOK, MenusHaveDatabase, Alive

\* A line at the main prompt.
LEMMA MainInv ==
    ASSUME SInv, (\E line \in Line : ReadMain(line)) \/ EndMain
    PROVE  SInv' /\ Grows /\ at' \notin Ended
  <1>1. CASE EndMain
    BY <1>1, InvState, Printing, Rebuild
    DEF EndMain, Reports, SInv, ShellTypeOK, Menus, Gated, Ended
  <1>2. CASE \E line \in Line : ReadMain(line)
    <2>1. PICK line \in Line : ReadMain(line)
      BY <1>2
    <2>2. \E r \in Reports : Shown(r)
      BY <2>1 DEF ReadMain, Enter, Reports
    <2>3. Sound /\ Grows /\ UNCHANGED g_database
      BY <2>2, InvState, Printing DEF Shown
    <2>4. \A n \in 1 .. 8 : MenuOf[n] \in Menus
      BY DEF MenuOf, Menus, Gated
    <2>5. /\ at' \in Menus \cup {"main", "exit"}
          /\ input' \in Numbers \cup {Unread}
          /\ {eof', g_running', interrupted', diskfull'} \subseteq BOOLEAN
          /\ at' \in Gated => g_database'.open
      BY <2>1, <2>3, <2>4 DEF ReadMain, Enter, LoopTest, SInv, ShellTypeOK, Gated
    <2>6. at' \notin Ended
      BY <2>5 DEF Menus, Gated, Ended
    <2> QED BY <2>3, <2>5, <2>6, Rebuild
  <1> QED BY <1>1, <1>2

\* One turn of a menu's loop.
LEMMA MenuInv ==
    ASSUME SInv, NEW menu \in Menus, NEW c \in Numbers, ReadChoice(menu, c)
    PROVE  /\ SInv'
           /\ \/ Grows
              \/ at = "database" /\ input' \in {1, 2, 3, 5}
              \/ at = "maintenance" /\ input' = 4
           /\ at' \notin Ended
  <1>0. State
    BY InvState
  <1>1. CASE c = 0
    <2>1. Shown("none") /\ at' \in {"main", "exit"} /\ input' = Unread
      BY <1>1 DEF ReadChoice, LoopTest
    <2>2. Sound /\ Grows
      BY <1>0, <2>1, Printing DEF Reports
    <2> QED BY <2>1, <2>2, Rebuild DEF ReadChoice, SInv, ShellTypeOK, Gated, Ended
  <1>2. CASE c # 0
    <2>1. Handle(menu, c) /\ at = menu /\ at' = menu /\ input' = c
      BY <1>2 DEF ReadChoice
    <2>2. /\ Sound
          /\ menu \in Gated => Open
          /\ \/ Grows
             \/ menu = "database" /\ c \in {1, 2, 3, 5}
             \/ menu = "maintenance" /\ c = 4
      BY <1>0, <2>1, AllMenus
    <2>3. at' \in Gated => g_database'.open
      BY <2>1, <2>2 DEF SInv, MenusHaveDatabase, Open
    <2>4. at' \notin Ended
      BY <2>1 DEF Menus, Gated, Ended
    <2> QED BY <2>1, <2>2, <2>3, <2>4, Rebuild DEF ReadChoice, SInv, ShellTypeOK
  <1> QED BY <1>1, <1>2

\* The end of a process: its database is gone, saved or not.
LEMMA EndInv == ASSUME SInv, End \/ Kill PROVE SInv'
  <1>1. State
    BY InvState
  <1>2. disk' \in [Files -> Contents]
    <2>1. CASE End
      BY <1>1, <2>1, StateSaved DEF State, End, cleanup
    <2>2. CASE Kill
      BY <1>1, <2>2 DEF State, FilesOK, Kill
    <2> QED BY <2>1, <2>2
  <1>3. /\ g_database' = NoDatabase
        /\ report' \in Reports
        /\ at' \in Ended
        /\ UNCHANGED <<input, eof, g_running, interrupted, diskfull>>
    BY DEF End, cleanup, Kill, Reports, Ended
  <1>4. Sound
    BY <1>1, <1>2, <1>3, GoodDatabases DEF State, Sound
  <1>5. at' \notin Gated
    BY <1>3 DEF Ended, Gated
  <1> QED BY <1>3, <1>4, <1>5, Rebuild DEF SInv, ShellTypeOK

\* A SIGINT saves the database and may send the main loop to its end.
LEMMA InterruptInv ==
    ASSUME SInv, Interrupt PROVE SInv' /\ Grows /\ at' \notin Ended
  <1>1. State
    BY InvState
  <1>2. at' = at \/ at' = "exit"
    BY DEF Interrupt
  <1>3. disk' \in [Files -> Contents] /\ UNCHANGED g_database
    BY <1>1, StateSaved DEF State, Interrupt
  <1>4. Sound
    BY <1>1, <1>3 DEF Sound, State, Interrupt, Reports
  <1>5. at' \in Menus \cup {"restore", "main", "exit"}
    BY <1>2 DEF Interrupt, Alive, SInv, ShellTypeOK
  <1>6. at' \notin Ended
    BY <1>5 DEF Menus, Gated, Ended
  <1>7. at' \in Gated => g_database'.open
    BY <1>2, <1>3 DEF SInv, MenusHaveDatabase, Gated
  <1>8. SInv'
    BY <1>4, <1>5, <1>6, <1>7, Rebuild DEF Interrupt, SInv, ShellTypeOK
  <1> QED BY <1>3, <1>6, <1>8 DEF Grows, Open

\* The end of the input and the disk.
LEMMA OutsideInv ==
    ASSUME SInv, EndOfInput \/ DiskFills
    PROVE  SInv' /\ Grows /\ at' = at
  <1>1. State
    BY InvState
  <1>2. UNCHANGED <<at, input, interrupted, g_database, disk>>
    BY DEF EndOfInput, DiskFills
  <1>3. report' \in Reports /\ {eof', g_running', diskfull'} \subseteq BOOLEAN
    BY DEF EndOfInput, DiskFills, Reports, SInv, ShellTypeOK
  <1>4. Sound
    BY <1>1, <1>2, <1>3 DEF Sound, State, FilesOK
  <1>5. SInv'
    BY <1>2, <1>3, <1>4, Rebuild DEF SInv, ShellTypeOK, MenusHaveDatabase, Alive
  <1> QED BY <1>2, <1>5 DEF Grows, Open

\* A new process, or a batch run, and the question load_state asks.
LEMMA StartInv ==
    ASSUME SInv, load_state \/ \E given \in Given : StartInteractive(given) \/ RunBatch(given)
    PROVE  SInv' /\ at' \notin Ended /\ at \in Ended \cup {"restore"}
  <1>1. State
    BY InvState
  <1>2. ASSUME NEW db, Good(db), NEW prompt \in {"main", "restore", "exit"}, Start(db, prompt)
        PROVE  SInv' /\ at' \notin Ended /\ at \in Ended
    <2>1. Sound
      BY <1>1, <1>2 DEF Start, Sound, State, FilesOK, Reports
    <2>2. at' \notin Ended /\ at' \notin Gated
      BY <1>2 DEF Start, Ended, Gated
    <2> QED BY <1>2, <2>1, <2>2, Rebuild DEF Start, Alive, SInv, ShellTypeOK
  <1>3. CASE \E given \in Given : StartInteractive(given) \/ RunBatch(given)
    BY <1>1, <1>2, <1>3, GoodGiven DEF State, StartInteractive, RunBatch
  <1>4. CASE load_state
    <2>1. Good(g_database')
      BY <1>1, <1>4, GoodDatabases, ShellConstants DEF State, load_state
    <2>2. at \in {"restore"} /\ at' \in {"main", "exit"}
      BY <1>4 DEF load_state, LoopTest
    <2>3. Sound
      BY <1>1, <1>4, <2>1 DEF load_state, Sound, State, FilesOK, Reports
    <2>4. at' \notin Ended /\ at' \notin Gated
      BY <2>2 DEF Ended, Gated
    <2> QED BY <1>4, <2>2, <2>3, <2>4, Rebuild DEF load_state, SInv, ShellTypeOK
  <1> QED BY <1>3, <1>4

\* What any step may do.
LEMMA Steps ==
    ASSUME SInv, SNext
    PROVE  /\ SInv'
           /\ \/ Grows
              \/ at' \in Ended
              \/ at \in Ended \cup {"restore"}
              \/ at = "database" /\ input' \in {1, 2, 3, 5}
              \/ at = "maintenance" /\ input' = 4
           /\ Alive /\ at' = "end" => End
           /\ Alive /\ at' = "killed" => Kill
  <1>1. CASE (\E line \in Line : ReadMain(line)) \/ EndMain
    BY <1>1, MainInv DEF Ended
  <1>2. CASE \E menu \in Menus, c \in Numbers : ReadChoice(menu, c)
    <2>1. PICK menu \in Menus, c \in Numbers : ReadChoice(menu, c)
      BY <1>2
    <2> QED BY <2>1, MenuInv DEF Ended
  <1>3. CASE Exit \/ Terminate \/ Kill
    BY <1>3, EndInv DEF Exit, Terminate, End, Kill, Ended
  <1>4. CASE Interrupt
    BY <1>4, InterruptInv DEF Ended
  <1>5. CASE EndOfInput \/ DiskFills
    BY <1>5, OutsideInv DEF Alive, Ended
  <1>6. CASE load_state \/ \E given \in Given : StartInteractive(given) \/ RunBatch(given)
    BY <1>6, StartInv DEF Ended
  <1> QED BY <1>1, <1>2, <1>3, <1>4, <1>5, <1>6 DEF SNext

\* The invariant is kept, stuttering included.
LEMMA StepSInv == SInv /\ [SNext]_svars => SInv'
  <1> SUFFICES ASSUME SInv, [SNext]_svars PROVE SInv'
    OBVIOUS
  <1>1. CASE UNCHANGED svars
    BY <1>1 DEF svars, SInv, ShellTypeOK, MenusHaveDatabase, Alive
  <1>2. CASE SNext
    BY <1>2, Steps
  <1> QED BY <1>1, <1>2

-----------------------------------------------------------------------------
\* The shell keeps its types: a closed database is empty, an index is on a
\* table that is there.
THEOREM ShellTypes == SSpec => []ShellTypeOK
  <1>1. SInv => ShellTypeOK
    BY DEF SInv
  <1> QED BY <1>1, InitSInv, StepSInv, PTL DEF SSpec

\* A menu that tests g_database on entry has a database until it returns.
THEOREM DatabaseInMenus == SSpec => []MenusHaveDatabase
  <1>1. SInv => MenusHaveDatabase
    BY DEF SInv
  <1> QED BY <1>1, InitSInv, StepSInv, PTL DEF SSpec

\* A table stays until the program ends or the user creates, opens, closes or
\* restores a database.
THEOREM TablesStayThere == SSpec => TablesStay
  <1> DEFINE A == ~(g_database.tables \subseteq g_database'.tables)
                    => \/ at' \in Ended
                       \/ at = "restore"
                       \/ at = "database" /\ input' \in {1, 2, 3, 5}
                       \/ at = "maintenance" /\ input' = 4
  <1>1. SInv /\ [SNext]_svars => [A]_svars
    <2> SUFFICES ASSUME SInv, SNext PROVE A
      OBVIOUS
    <2>1. CASE at \notin Ended
      BY <2>1, Steps DEF Grows
    <2>2. CASE at \in Ended
      BY <2>2 DEF SInv, ShellTypeOK, Alive, NoDatabase
    <2> QED BY <2>1, <2>2
  <1> HIDE DEF A
  <1>2. SSpec => [][A]_svars
    BY <1>1, InitSInv, StepSInv, PTL DEF SSpec
  <1> QED BY <1>2 DEF A, TablesStay

\* However the program ends by itself, a batch run included, the tables it had
\* are in the state file, unless the disk is full.
THEOREM EndsSaved == SSpec => ExitSaves
  <1> DEFINE A == (Alive /\ at' = "end" /\ g_database.open /\ ~diskfull)
                    => disk'[StateFile] = Whole(g_database.tables)
  <1>1. SInv /\ [SNext]_svars => [A]_svars
    <2> SUFFICES ASSUME SInv, SNext, Alive, at' = "end", g_database.open, ~diskfull
                 PROVE  disk'[StateFile] = Whole(g_database.tables)
      OBVIOUS
    <2>1. End
      BY Steps
    <2>2. disk' = [disk EXCEPT ![StateFile] = Whole(g_database.tables)]
      BY <2>1 DEF End, cleanup, save_state, Write
    <2> QED BY <2>2, ShellConstants DEF SInv, ShellTypeOK
  <1> HIDE DEF A
  <1>2. SSpec => [][A]_svars
    BY <1>1, InitSInv, StepSInv, PTL DEF SSpec
  <1> QED BY <1>2 DEF A, ExitSaves

-----------------------------------------------------------------------------
(***************************************************************************)
(* What an error message means                                             *)
(***************************************************************************)
Harmless == report' = "error" => g_database' = g_database /\ disk' = disk

\* One backup is left half written
Halfway == \E b \in Backups : disk' = [disk EXCEPT ![b] = Other]

\* A handler that only prints does no harm, and neither does one that does
\* not print an error.
LEMMA PrintsHarmless ==
    /\ \A r : Shown(r) => Harmless
    /\ report' \in {"none", "success"} => Harmless
  BY DEF Shown, Harmless

\* A backup that fails changes one backup or nothing.
LEMMA BackupHarmless ==
    ASSUME backup_database_interactive
    PROVE  report' = "error" => g_database' = g_database /\ (disk' = disk \/ Halfway)
  <1>1. CASE Shown("error")
    BY <1>1 DEF Shown
  <1>2. ASSUME NEW b \in Backups, Write(b, Whole(g_database.tables)), UNCHANGED g_database,
               report' \in IF diskfull THEN {"success", "error"} ELSE {"success"},
               report' = "error"
        PROVE  g_database' = g_database /\ (disk' = disk \/ Halfway)
    <2>1. diskfull
      BY <1>2
    <2> QED BY <1>2, <2>1 DEF Write, Halfway
  <1> QED BY <1>1, <1>2 DEF backup_database_interactive

\* The other handlers that change something print an error only when they
\* have not.
LEMMA HandlersHarmless ==
    ASSUME State
    PROVE  /\ restore_database_interactive => Harmless
           /\ benchmark_database => Harmless
           /\ create_table_interactive => Harmless
           /\ create_index_interactive => Harmless
           /\ drop_index_interactive => Harmless
           /\ execute_query_interactive => Harmless
           /\ close_database_interactive => Harmless
  <1> USE DEF State
  <1>2. ASSUME restore_database_interactive PROVE Harmless
    <2>1. ASSUME NEW b \in Backups, Become(Restored(b)),
                 report' = IF g_database.open /\ disk[b].state = "whole" THEN "success" ELSE "error"
          PROVE  Harmless
      <3>1. CASE g_database.open /\ disk[b].state = "whole"
        BY <2>1, <3>1 DEF Harmless
      <3>2. CASE ~(g_database.open /\ disk[b].state = "whole")
        BY <2>1, <3>2 DEF Harmless, Become, Restored
      <3> QED BY <3>1, <3>2
    <2> QED BY <1>2, <2>1, PrintsHarmless DEF restore_database_interactive
  <1>3. ASSUME benchmark_database PROVE Harmless
    BY <1>3, PrintsHarmless DEF benchmark_database
  <1>4. ASSUME create_table_interactive PROVE Harmless
    BY <1>4, PrintsHarmless DEF create_table_interactive
  <1>5. ASSUME create_index_interactive PROVE Harmless
    BY <1>5, PrintsHarmless DEF create_index_interactive
  <1>6. ASSUME drop_index_interactive PROVE Harmless
    BY <1>6, PrintsHarmless DEF drop_index_interactive
  <1>7. ASSUME execute_query_interactive PROVE Harmless
    BY <1>7, PrintsHarmless DEF execute_query_interactive, save_query_result
  <1>8. ASSUME close_database_interactive PROVE Harmless
    BY <1>8, PrintsHarmless DEF close_database_interactive
  <1> QED BY <1>2, <1>3, <1>4, <1>5, <1>6, <1>7, <1>8

\* In every menu an error is harmless, or open_database_interactive failed, or
\* a backup.
LEMMA MenusHarmless ==
    ASSUME State, NEW menu, NEW c, Handle(menu, c), report' = "error"
    PROVE  /\ \/ g_database' = g_database
              \/ menu = "database" /\ c = 2 /\ g_database' = NoDatabase
           /\ \/ disk' = disk
              \/ menu = "database" /\ c = 4 /\ Halfway
  <1>1. ASSUME handle_database_operations(c)
        PROVE  /\ g_database' = g_database \/ (c = 2 /\ g_database' = NoDatabase)
               /\ disk' = disk \/ (c = 4 /\ Halfway)
    <2>1. CASE c = 2 /\ open_database_interactive
      <3>1. PICK f \in Files : Become(db_open(f))
                 /\ report' = IF db_open(f).open THEN "success" ELSE "error"
        BY <2>1 DEF open_database_interactive
      <3>2. ~db_open(f).open
        BY <3>1
      <3>3. Good(db_open(f))
        BY GoodDatabases DEF State
      <3> QED BY <2>1, <3>1, <3>2, <3>3 DEF Good, Become
    <2>2. CASE c = 4 /\ backup_database_interactive
      BY <2>2, BackupHarmless
    <2>3. CASE Harmless
      BY <2>3 DEF Harmless
    <2> QED BY <1>1, <2>1, <2>2, <2>3, HandlersHarmless, PrintsHarmless
          DEF handle_database_operations, create_database_interactive,
              statistics_interactive, Prints
  <1>2. ASSUME handle_table_operations(c) \/ handle_index_operations(c) PROVE Harmless
    BY <1>2, HandlersHarmless, PrintsHarmless
       DEF handle_table_operations, list_tables_interactive, describe_table_interactive,
           alter_table_interactive, truncate_table_interactive, drop_table_interactive,
           import_table_interactive, export_table_interactive, statistics_interactive,
           handle_index_operations, list_indexes_interactive, rebuild_index_interactive,
           optimize_index_interactive, Confirmed, Prints
  <1>3. ASSUME handle_query_operations(c) \/ handle_maintenance_operations(c) PROVE Harmless
    BY <1>3, HandlersHarmless, PrintsHarmless
       DEF handle_query_operations, execute_script_interactive, query_history,
           explain_query_interactive, handle_maintenance_operations,
           vacuum_database_interactive, analyze_database_interactive,
           check_integrity_interactive, repair_database_interactive,
           statistics_interactive, Prints
  <1>4. ASSUME handle_config_operations(c) \/ handle_help(c) \/ handle_tools(c) PROVE Harmless
    BY <1>4, HandlersHarmless, PrintsHarmless
       DEF handle_config_operations, handle_help, show_config_interactive,
           set_config_interactive, reset_config_interactive, export_config_interactive,
           import_config_interactive, handle_tools, stress_test_database,
           performance_monitor, Prints
  <1> QED BY <1>1, <1>2, <1>3, <1>4 DEF Handle, Harmless

Quiet == ~Alive => report = "none"

\* Between two processes there is no message to explain.
LEMMA QuietEnd == SInv /\ Quiet /\ [SNext]_svars => Quiet'
  <1> SUFFICES ASSUME SInv, Quiet, [SNext]_svars, ~Alive' PROVE report' = "none"
    BY DEF Quiet
  <1>1. CASE UNCHANGED svars
    BY <1>1 DEF svars, Quiet, Alive
  <1>2. CASE SNext /\ Alive
    BY <1>2, Steps DEF End, Kill, Alive, Ended
  <1>3. CASE SNext /\ ~Alive
    <2>1. CASE DiskFills
      BY <1>3, <2>1 DEF DiskFills, Quiet
    <2>2. ASSUME NEW given \in Given, StartInteractive(given) \/ RunBatch(given)
          PROVE  report' = "none"
      BY <2>2 DEF StartInteractive, RunBatch, Start
    <2>3. at \in Ended
      BY <1>3 DEF Alive
    <2> QED BY <1>3, <2>1, <2>2, <2>3
        DEF SNext, ReadMain, EndMain, load_state, ReadChoice, Menus, Gated, Exit, Interrupt,
            Kill, Terminate, EndOfInput, Alive, Ended
  <1> QED BY <1>1, <1>2, <1>3

\* An error printed by any menu means that nothing happened, but for a failed
\* open_database_interactive, which loses the database that was open, and a
\* failed backup, which leaves one damaged backup.
THEOREM ErrorsAreHarmless == SSpec => ErrorsHarmless
  <1> DEFINE A == report' = "error" =>
                    /\ \/ g_database' = g_database
                       \/ at = "database" /\ input' = 2 /\ g_database' = NoDatabase
                    /\ \/ disk' = disk
                       \/ /\ at = "database" /\ input' = 4
                          /\ \E b \in Backups : disk' = [disk EXCEPT ![b] = Other]
  <1>1. SInv /\ Quiet /\ [SNext]_svars => [A]_svars
    <2> SUFFICES ASSUME SInv, Quiet, SNext PROVE A
      OBVIOUS
    <2>1. Harmless => A
      BY DEF Harmless
    <2>2. CASE (\E line \in Line : ReadMain(line)) \/ EndMain
      BY <2>1, <2>2, PrintsHarmless DEF ReadMain, Enter, EndMain
    <2>3. CASE \E menu \in Menus, c \in Numbers : ReadChoice(menu, c)
      <3>1. PICK menu \in Menus, c \in Numbers : ReadChoice(menu, c)
        BY <2>3
      <3>2. CASE c = 0
        BY <2>1, <3>1, <3>2, PrintsHarmless DEF ReadChoice
      <3>3. CASE c # 0
        <4>1. at = menu /\ Handle(menu, c) /\ input' = c
          BY <3>1, <3>3 DEF ReadChoice
        <4> QED BY <4>1, InvState, MenusHarmless DEF Halfway
      <3> QED BY <3>2, <3>3
    <2>4. CASE Exit \/ Terminate \/ Interrupt \/ Kill \/ load_state
      BY <2>4 DEF Exit, Terminate, End, Interrupt, Kill, load_state
    <2>5. CASE EndOfInput \/ DiskFills
      BY <2>5 DEF EndOfInput, DiskFills
    <2>6. CASE \E given \in Given : StartInteractive(given) \/ RunBatch(given)
      BY <2>6 DEF StartInteractive, RunBatch, Start
    <2> QED BY <2>2, <2>3, <2>4, <2>5, <2>6 DEF SNext
  <1> HIDE DEF A
  <1>0. SInit => Quiet
    BY DEF SInit, Quiet
  <1>2. SSpec => [][A]_svars
    BY <1>0, <1>1, InitSInv, StepSInv, QuietEnd, PTL DEF SSpec
  <1> QED BY <1>2 DEF A, ErrorsHarmless
=============================================================================
