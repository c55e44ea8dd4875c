# A TLA+ model of Luminix

Luminix is a single-process, menu-driven database written in C. It keeps tables of
typed records in memory and writes the whole database to a JSON file when the
program is told to, when it ends, and when it catches a signal. This directory
models that program: the storage engine (`src/src/database.c`), the JSON
persistence layer and its text (`src/src/json_io.c`), the shell with its menus,
signals and query history (`src/src/main.c`), and the transaction objects
(`src/src/transaction.c`).

## The system

| Component | State | Operations | Modelled in |
|---|---|---|---|
| Storage engine, `database.c` | array of tables, each with a schema, a linked list of records, `record_count` and an index list; `transaction_active`, `transaction_level`; the static id counter of `generate_record_id` | add table; insert, update, delete, delete by field, batch insert; create and drop index; begin, commit, rollback | `Table`, `Database` |
| JSON persistence, `json_io.c` | files | save, load, create, restore and delete a backup; the serializer and the parser they use | `JsonIo`, `Persistence` |
| JSON text, `json_io.c` | a parser's position in a text | escape, read a token, skip a value, count what is in a text, minify | `JsonText` |
| Shell, `main.c` | `g_database`, `g_running`, the prompt it waits at, files | command line, main loop, every menu entry, `save_state`, `load_state`, `signal_handler`, `cleanup` | `Shell` |
| Query history, `main.c` | a ring of queries, its index and its count | `add_to_history`, `query_history` | `History`, promised by `RecentQueries` |
| Transaction objects, `transaction.c` | objects with an id and a state; the id counter and its mutex | begin, commit, rollback, free | `Transactions` |
| Index structures, `index.c` | array of index descriptors | create, free, insert and delete (count only), search (returns NULL) | not modelled |
| Block storage, `storage.c`; file backup, `backup.c`; import and export, `export_import.c` | a file descriptor; none; none | open, read, write, close; copy a file; load then save, CSV print | not modelled: no other file uses them |
| Query parser, query engine, command line: `parser.c`, `query_engine.c`, `cli.c` | none that lasts | scan a string, count the query, print | not modelled: the result of the parse is discarded |
| Security helpers, utilities | none | byte encodings, strings, time, logging | not modelled: pure, or I/O |

How they interact. The shell calls the engine and the persistence layer from its main
thread. The persistence layer reads the engine's tables directly when it saves, and
calls `db_add_table` and `table_insert_record` when it loads, so a load is checked by
the same code as a caller's insertion and moves the same id counter. SIGINT, SIGTERM
and SIGSEGV call `save_state` from the handler, that is, in the middle of whatever
the main thread is doing. The repository's build files (`Makefile`, `build.ps1`) are
for MinGW, whose C runtime runs the handler of a Ctrl-C on a thread of its own; a
handler on the interrupted thread, as elsewhere, is the case in which the main thread
takes no step meanwhile. The transaction objects are a library of their own: they are
written to be used by several threads, and no other file calls them.

What is hard, and which properties are about it:

* *Ids.* An id is the caller's key or comes from `generate_record_id`, which takes the
  larger of max + 1 (which wraps) and a counter all tables share. `IdsUnique`,
  `AutoIdFresh`.
* *A count kept by hand.* `record_count` guards the capacity and is changed by four
  functions. `CountExact`, `BatchFits`.
* *Failure in the middle.* An update refused at its second key, a batch whose third
  record is a duplicate, a restore from a torn file, a handler that gives up after
  half of its work. `FailedCallHarmless`, `RowHistory`, `RestoreAtomic`,
  `ErrorsHarmless`.
* *Transactions inside transactions.* Calls begin and end transactions of their own
  next to the caller's, and a rollback ends all levels and undoes nothing. `TxnShape`,
  `TransactionsOwned`, `FailedCallHarmless`.
* *Signals and crashes.* A save in the middle of a batch, a load, a restore that has
  freed the old tables and not yet installed the new ones, or another save; a process
  that dies between `fopen` and `fwrite`. `SavesExact`, `RestoreAtomic`, `EngineSound`,
  `AtomicWrite`, `StateSaved`.
* *The end of the program.* It ends by a choice, by a signal, at the end of the input
  and after a batch run, on a disk that may be full; what it had must be in the state
  file. `load_state` looks for another one. `ExitSaves`, `EofSettles`, `MenusHaveDatabase`, `TablesStay`.
* *The file format.* Constraints are written and not read, the first field becomes
  the key, strings are escaped and never unescaped, keys of records are not escaped,
  names are cut, floats and times are rounded, infinities print as words, long floats
  do not fit their buffer. `ReloadFaithful`, `WholeFilesLoad`, `NamesDistinct`.
* *The text.* Where a string ends among escapes, what is passed over unread, what a
  minifier may drop. `StringsKept`, `StringEndsRight`, `SkipsWholeValue`,
  `ClosesWhatItOpens`, `StatsExact`, `MinifyKeepsTokens`.
* *A ring.* The history is indexed modulo its size, with a capped count, and a new
  query is compared with one slot of it. `ListsRecent`, `NoDuplicates`.
* *Threads.* Ids under a mutex, objects used again after they are freed, a state that
  is tested and set without a lock. `TxnIdsUnique`, `OutcomeFinal`, `MutexReleased`.
* *Termination* of the loader's and the parser's loops. `LoadReturns`, `LoopsReturn`.

## Modules

**`Table`** is one table and the functions `table_*` of `database.c`, as operators
from a table to a table, a counter and an `ErrorCode`. The linked list is a function
from list nodes to records; nodes are numbered in order of allocation, and since
insertion prepends, the list runs from the largest node down. A `Field` is a type, any
of `types.h`, and the content of the value union, an integer; the range of integers is
that of a C `int` of any width, and `Succ` wraps. Fields are positions; of a field's
name only what becomes of it in JSON is kept (`NameKinds`): nothing needs escaping, or
it does and the name as it stands makes a key all the same, or it does not, as with a
quote or an odd run of backslashes at its end. Timestamps and statistics, which no
operation reads, are left out, and so is a failing `malloc`.

**`Database`** is the engine: `tables`, `txn`, `global_counter`, and `ret`, the
operation and code of the last call. One action per API function; a call is atomic
except `db_batch_insert_records`, whose loop is one step per record (`batch`), so that
a handler can be seen to save in the middle of it; `batch` also remembers, for the
properties, what the call found and which rows it has inserted. `Truncated` is the cut
of a table name at 63 characters: lookups compare the full name.

**`JsonIo`** is what a table becomes on its way to a file and back. A document keeps
the structure of the JSON text; the characters are abstracted to functions that are
constants: `Renamed` and `Escaped` (escaping that is never undone, and a cut),
`Printed` (`%.6f` and back), `NoNumber` (what is printed as a word, or does not fit the
32 bytes of the buffer), `Remade` (`localtime` and `mktime`), and `Coerced` for a value
read as another type than it was printed as. A `BLOB` is printed as an empty string.
`ReadSchema` drops the constraints and turns `DOUBLE` into `UNKNOWN`
(`string_to_field_type` does not know it); `ReadRow` overwrites the first field by the
record's id, and finds no value for a field whose name was escaped, because the keys of
records are not; `Unparsable` are the records whose text no parser accepts.

**`JsonText`** is the layer below: texts as sequences of symbols, one symbol for each
class of characters the code treats alike. `json_escape_string`, `json_parse_token`
and `json_compress` are operators; `json_skip_token_value`, with its recursion as a
stack, and `json_get_stats_string` are loops of one step per token. What the serializer
prints is `Printed`: a string, number or word (`json_serialize_field_value`), a key and
its value, a container, or what is left of one behind a member; each with its text, the
counts of what is in it, and the parts it is put together from. The rules for how a
text is made of those of its parts, with any white space of `Gaps` where
`json_serialize_indent` or a literal of the serializer puts some, are the named
assumption `TextConstants`, which says nothing about the depth of nesting; TLC
evaluates it for the values of the run.

**`Persistence`** composes `Database` and `JsonIo` with files. `disk` maps a file to
`absent`, `torn` or a whole document. `saves` has a save for the main thread and one for
each handler that saves: `signal`, SIGINT's, after which the program goes on, and
`exit`, that of SIGTERM and SIGSEGV, with which the process ends. A save is one step to
call `db_save_to_file` (`StartSave`), one per table (`SerializeTable`), then `fopen`
(`OpenFile`, which empties the file), then `fwrite` (`EndSave`, which may write a part,
or nothing). A load is one step per table (`LoadTable`) and per record (`LoadRecord`),
then the switch to the new database: one step in `db_open` (`EndLoad`), and in
`db_restore_backup` one that frees the old tables (`FreeOld`) and one that installs the
new ones (`Install`). Handlers take their steps between any two of the main thread. A
save that has read tables which main then changed or freed is `overtaken`: what it
writes may be garbled, which stands for every outcome of reading such memory but the end
of the process, and that is `Crash`, which may happen at any step. A save that holds a
database which the main thread has dropped without freeing it goes on reading it
(`Detached`). `saved` is a history variable: the tables each whole file was made from.

What is coarser than the code there: a table is serialized in one step, and `fwrite` is
one step; a garbled file is a torn one, and a torn one is refused; a change to an index
list counts as a change of the tables; SIGTERM's `db_close` and `exit` come in one step
after its save (Windows does not raise SIGTERM, so nothing runs beside them); the
`created_at` of a document is left out, as no loader reads it and its text has a fixed
width.

**`Shell`** is `main.c`. One step is a line at the main prompt or a choice in a menu
with the whole handler behind it; what the handler asks for is any answer. `at` is the
prompt the program waits at, `input` the number in a menu's buffer (`fgets` is not
checked there, so at the end of the input the last choice is repeated, or an
uninitialised buffer is read). A database is the set of its tables and indexes:
records are `Database`'s business, signals in the middle of a handler
`Persistence`'s. `report` is the kind of the last message, success or error, which is
what `ErrorsHarmless` is about. Signals that arrive at a prompt (`load_state`'s question
included), the end of the input, and a disk that fills and empties are actions; the
second SIGINT of a process may kill it, as the C runtime of MinGW resets the handler
when it delivers one. A query result saved as JSON is a file that loads as a database
without tables, since the loader skips the keys it does not know; CSV is not.

**`History`** is the ring of queries, part of `Shell`; **`RecentQueries`** is what it
promises: the queries executed last, in order, none left out unless it is on the list.
`ListsRecent` is the refinement, with the list as `query_history` prints it for the
abstract one. That a query executed twice in a row is not listed twice, which the code's
comment promises too, is `NoDuplicates`, and false.

**`Transactions`** is `transaction.c` with several threads, one step per access to
shared memory: the counter is read and written in two steps, and a commit or rollback
tests the state in one step (`TestActive`) and sets it in a later one (`SetState`).
Objects are addresses that `malloc` may return again.

**`MC...`** modules give the constants of the runs; **`...Claims`** state what a
comment or a help text of the repository says of the program where the code does
otherwise; **`...Proofs`** hold the proofs.

Definitions called `X_Something` and marked "Mutant" are faulty versions of `X`. They
are part of no specification; putting one in the place of `X` must make the property
it is listed with in `PROJECT.json` fail.

## Runs

| Run | Configuration | Checks | Shows |
|---|---|---|---|
| `engine` | `MCDatabase.cfg` | `TypeOK` `IdsUnique` `CountExact` `TxnShape` `BatchFits` `AutoIdFresh` `FailedCallHarmless` `RowHistory` `TransactionsOwned` | the engine under any sequence of calls |
| `persistence` | `MCPersistence.cfg` | `PTypeOK` `EngineSound` `SavesExact` `RestoreAtomic` | saves, backups, loads, restores and crashes interleaved with calls, with the handlers of all signals beside them |
| `round_trip` | `MCPersistenceFormat.cfg` | `ReloadFaithful` `WholeFilesLoad` `LoadReturns` | any number of saves and loads of fields of all types; every load ends |
| `round_trip_tables` | `MCPersistenceTables.cfg` | `AutoIdFresh` `NamesDistinct` `ReloadFaithful` `WholeFilesLoad` | the same with two tables, in any order, that share the id counter and whose names are cut and escaped |
| `json_text` | `MCJsonText.cfg` | `JTypeOK` `StringsKept` `StringEndsRight` `SkipsWholeValue` `ClosesWhatItOpens` `StatsExact` `MinifyKeepsTokens` `LoopsReturn` | printed values and arbitrary short texts, token by token |
| `shell` | `MCShell.cfg` | `ShellTypeOK` `MenusHaveDatabase` `ExitSaves` `TablesStay` `ErrorsHarmless` `EofSettles` | every menu entry with any answers, over restarts and batch runs |
| `history` | `MCHistory.cfg` | `RingShape` `ListsRecent` | the ring implements the list of recent queries |
| `transactions` | `MCTransactions.cfg` | `TransactionTypeOK` `TxnIdsUnique` `OutcomeFinal` `MutexReleased` | threads beginning, ending and freeing transactions |
| `claim_updated_keys` | `ClaimUpdatedKeys.cfg` | `UpdatedKeysDistinct` | violated: two updates set the same primary key |
| `claim_atomic_write` | `ClaimAtomicWrite.cfg` | `AtomicWrite` | violated: a crash leaves an empty state file |
| `claim_state_saved` | `ClaimStateSaved.cfg` | `StateSaved` | violated: SIGINT's handler reads tables that are changed or freed under it |
| `claim_no_duplicates` | `ClaimNoDuplicates.cfg` | `NoDuplicates` | violated: the same query is listed twice in a row |

What the passing runs say with an exception in the property is worth reading there:

* `FailedCallHarmless`: a batch keeps the rows before the one refused, an update the
  fields before the key refused; neither changes anything else.
* `TransactionsOwned`: three calls end all levels of their caller's transaction, a
  rollback, a batch that fails in its loop, and a deletion by field without a match,
  which returns `SUCCESS`.
* `NamesDistinct`: only names that do not fit may meet another one.
* `SavesExact`: a handler's save is exact only if main changes no table meanwhile.
* `OutcomeFinal`: an outcome is final once no call that found the transaction active is
  under way.
* `WholeFilesLoad`: names of tables that are the same when they are escaped and cut,
  field names that break their key, and floats that print as no number make files no
  load accepts.
* `ErrorsHarmless`: a failed open loses the open database, a failed backup leaves a file
  that does not load.
* `ExitSaves`: a full disk, and a second SIGINT.
* `EofSettles`: at the end of the input a menu may repeat its last choice for ever.
* `LoopsReturn`: `json_get_stats_string` reads a character that starts no token for ever.

More places where the code does otherwise than a text says follow from what the model
does, and have no run of their own:

* `db_begin_transaction` calls a nested transaction a savepoint (`database.c:1492`) and
  `db_rollback_transaction` says it rolls back all changes (`database.c:1528`): a rollback
  ends all levels and undoes nothing (`RolledBack`), so a batch that fails half way stays.
* "Check if table already exists" (`database.c:567`) compares the full name with names
  that were cut, so a long name and what is left of it make two tables of one name
  (`db_add_table`; the exception of `NamesDistinct`).
* Shortcuts are promised at the main prompt (`main.c:2202`, `main.c:2541`), but `atoi` of
  a backslash is 0, which ends the program first (`ReadMain`).
* "Found saved state. Restore?" (`main.c:225`): `load_state` looks for
  `default.state.json`, while `save_state` writes `Database.state.json`. They are
  `DefaultFile` and `StateFile` of `Shell`; what every exit saves is never offered.
* A commit in `transaction.c` is overwritten by a rollback that tested the state before
  it (`SetState`; the exception of `OutcomeFinal`), where the repository's README, line
  218, speaks of ACID properties.
* `unique` is read by no operation; a backup replaces the one made in the same second
  (`db_create_backup`); a commit writes no file, so a crash loses it; and `db_close`, of
  which the repository's README says at line 449 that it flushes pending writes, writes
  nothing.

Bounds, and why they are enough.

* `INT_MAX = 3` with the counter starting at 2: an `int` of three bits. Generated ids
  meet ids callers chose, the counter passes them, and both max + 1 and the counter
  wrap, all within three insertions. In the code the counter starts at 1000 and the
  same happens later.
* Tables hold two records (`MAX_RECORDS_PER_TABLE`), three may ever be inserted
  (`MaxNodes`), so full tables, deletion and reinsertion, and batches that do and do not
  fit all occur; a record is updated once (`MaxVersion`). Rows have an explicit key, no
  key (`-1` and `NULL`), a key in the second field, and an `UNKNOWN` value.
* Two schemas: the default one, and one with a `NOT NULL`, unique first field and the
  primary key second, which is what makes an update fail half way.
* Transactions nest to level 2, which separates "one level" from "all levels".
* Names: in `engine` one that a table may have and one it has not.
* `persistence`: a state file and a backup file, one table, and both handlers beside
  the main thread: their saves meet each other, a backup, a save of the same file, every
  step of a load and of a restore, and the records of a batch of two (449,329 states).
* `round_trip` has no handlers and one file; it varies the data: schemas of seven, three
  and two fields covering all types and all kinds of names, values that do and do not
  survive printing, an infinity and a double that is too long, `NULL`s (53,308 states).
  Its loads meet whole, torn and refused files, which `LoadReturns` needs.
* `round_trip_tables` varies two tables: their names, one that is cut when it is given,
  one that is cut when it is escaped, and two that stay apart; and their records, one
  each (`MaxNodes`), with an id of the caller's or a generated one, so that the counter,
  moved by the other table and never by a load, is ahead of a table, equal to its id, or
  has wrapped (1,210,980 states); several records of one table are `engine`'s. A save
  while a handler runs adds nothing to the two: `saved` is what a file was made from, and
  `SavesExact` says what that is.
* The three have the view `EngineAndFiles`: states that differ in `ret` only are one.
  No action reads `ret`, and none of their properties mentions it.
* `json_text`: every string of up to two symbols that matter to the writer or the
  reader, containers of them nested twice, with and without white space, and everything
  these are put together from; and every text
  of up to four symbols, which is enough for an escape at the end of an unfinished
  string or a bracket that closes the wrong container.
* `shell`: one table with one field to index, limits of one, so that a full database
  and a full index list occur; the two state files and one backup; `default.state.json`
  absent, or with a table in it, when the program is first started; no bound on the
  number of steps, restarts and signals.
* `history`: a ring of four slots, which wraps after four of the four queries, one of
  which is stored as another.
* `transactions`: two threads and three objects, so that objects are used again while
  both threads are at work, and three ids (`MaxId`).

`CHECK_DEADLOCK FALSE` in the persistence and transaction runs: with `MaxNodes` or
`MaxId` used up the model may have nothing left to do, where the program would wait for
input.

Fairness.

* `PSpec`: weak fairness of `LoadStep`. The main thread keeps running while it has
  something to do: a handler on a thread of its own does not stop it, and one on the
  interrupted thread runs to its end and gives it back. Weak fairness is enough because
  no handler ever disables a load's next step but by ending the process, which ends the
  load too; so the run that checks `LoadReturns` has none. Nothing is assumed of the handlers, the user or the disk.
* `SSpec`: weak fairness of the steps that wait for nobody: the end of the main loop at
  the end of the input, and, once the input has ended, `load_state`'s question, `cleanup`
  after the loop, and a menu's turn, as `fgets` can no longer block. Users may stop
  typing, so there is none for reading a line.
* `TSpec`: a thread that is inside `generate_txn_id` keeps running. POSIX mutexes are
  not fair, so nothing is assumed of `Lock`, and only giving the mutex back is claimed.
* `JSpec`: the one thread runs.

## Proofs

All theorems hold for every value of the constants that satisfies the named
assumptions of the modules: capacities are naturals, `MAX_TRANSACTION_LEVEL` is
positive, the counter starts between 1 and `INT_MAX`, a row has at least as many
fields as the schema it is passed with, stored names are names; the functions that
stand for printing and parsing are any functions of the right type; a schema read from
a file is one of the schemas; escaping leaves no name empty that was not; texts are
sequences of the symbols of `Alphabet`, and everything printed, with its parts, is
printed by the rules of the serializer.

**`DatabaseProofs`**: `EngineInvariant`, `Spec => []IInv` with
`IInv == TypeOK /\ IdsUnique /\ CountExact /\ TxnShape /\ BatchFits /\ BatchProgress`, and from it
`TypeCorrect`, `RecordIdsUnique`, `RecordCountExact`, `TransactionsWellFormed`,
`BatchCapacityReserved` and `GeneratedIdsFresh` (an id from `generate_record_id` is
free unless some record of the table has the id `INT_MAX`).

The proof carries the conjuncts together. `BatchFits` needs `CountExact`, since
the loop of a batch checks the count; `CountExact` needs `TypeOK`, since a list is
finite only because its nodes lie below the number allocated; `TxnShape` is needed for
a batch, which must find a transaction it can commit. `BatchProgress` says what a batch
under way has done: the transaction is the one it found with its own begun, the other
tables are as it found them, and its table is as it was with the rows done so far
inserted (`Extended`). It is what the two properties about whole calls need, since the
turn that fails sees only the state before it. `TypeOK` includes that every
record has the fields of its schema, without which insertion and update would be read
outside their domain.

The argument goes in three layers. Lemmas about integers and finite sets come first
(`LeastNat`, `GreatestInt`, `MaxId`, `FiniteList`). Then each `table_*` function is
shown to preserve the invariant of one table (`InsertInv`, `UpdateInv`, `DeleteInv`,
`UnlinkMatchingInv`); insertion for any row that `Fits` the schema, so that the lemma
serves callers' rows and the loader's. Then each call is shown to preserve `IInv`, from
the table lemma and `ReplaceTable` (one table of the array is replaced by another good
one) or `RefuseInv` (an early return). `StepInv` joins them, one case per action.

Its second half has the action properties, `FailedCallsHarmless`, `RowHistoryKept`
and `TransactionsStayOwned`, and `NamesStayDistinct`. `StepEffect` says everything a step can do to the tables:
nothing; append a table under a name no table has; replace one table, records that stay
being untouched (`Kept`); or edit records as an update may (`Edited`). One lemma per
call shows that it is all (`Effects`), and the properties follow.

**`PersistenceProofs`**: `PersistenceInvariant`, `PSpec => []PInv`, and from it
`PersistenceTypes`, `EngineSoundness`, `SavesAreExact` and `RestoresAtomic`, for any files
and with none, either or both of the handlers. `PInv` is `IInv` with four parts besides
types. `DiskOK` says that documents in files are well formed. `ReadersOK` says that a save
which is reading and not overtaken has read the first tables of the database, exactly, and
that none is in that state while a restore has freed them. `MainOK` says that the main
thread is in one call at a time, and that its own save is never overtaken: every step that
changes tables is one of the main thread's, so the save would have to overtake itself.
`LoadOK` says that the tables of a load under way satisfy the invariant of one table, that
only the last of them has records left to read, and that its schema is the one read from
the document. Well-formed documents make rows that fit the schema read with them
(`ReadRowFits`), which is what the insertion lemma of the engine asks for. Every step of
`Persistence` that touches tables must re-establish `ReadersOK`, and does by marking the
readers (`Overtaken`), by letting them read what they hold (`Detached`), or by leaving the
tables they have read alone.

**`HistoryProofs`**: `RingInvariant`, and the refinement `HistoryImplementsRecent`: for
every size of the ring and every set of queries, every step of the ring is a step of
the list of recent queries, or a stutter. The list is not read off the code's comparison
with the slot to be written: it allows any query that is listed to be left out, and the
proof shows that what the code leaves out is listed. The arithmetic is in three lemmas about `%`
and in `ListedEntries`, which says which slot the i-th listed entry is.

**`TransactionProofs`**: `TransactionIdsUnique`, `TransactionTypes` and `OutcomesFinal`
for any number of threads. The invariant adds to the properties that every id in use is
below the counter, and so is the one a thread has taken and not yet stored, unless it
holds the mutex and has not yet written the counter back. `OutcomesFinal` rests on the
step between test and assignment being seen: a call that ends a transaction has it begun
and unfreed all the while (`Ending`), and none can start on one that is settled.

**`ShellProofs`**: `ShellTypes`, `DatabaseInMenus`, `TablesStayThere`, `EndsSaved` and
`ErrorsAreHarmless`, for any tables, fields and files. Each handler is shown to leave a
well-formed database, each menu that needs one also to leave it open; the types and
`MenusHaveDatabase` are inductive together. `ErrorsAreHarmless` also needs that no error
is pending between two processes.

**`ReloadProofs`**: `ReloadInvariant`, and from it `ReloadsFaithful` and
`WholeFilesReload`: what a load makes of a file agrees, record for record, with the
tables the file was made from, for any tables, files and signals. `RInv` joins a file
and a load to tables that may have been gone for long. `FilesMatch` says that a whole
file holds the document of the tables in `saved`, and that they were well formed and
within the limits; `SavesMatch`, that no save has read more tables than a database
holds, even one that was overtaken, which is how `FilesMatch` survives the end of any
save; `LoadMatch`, that behind each table of a load lies exactly what has been read so
far of the original (`Arrived`): its name and schema, the ids and fields of the records
read, and nothing else. No induction over the list is needed, since the invariant says of
every prefix of the load what the property says of its end.

The first attempt at it failed for a reason TLC had not met within its bounds: the
loader takes a record whose id is -1 for one without an id and skips it. A caller's -1
asks for a generated id, but once ids have wrapped past `INT_MAX` a generated id may be
-1 itself. `Portable`, the condition on the tables in `ReloadFaithful`, now excludes
such records by name. That a file is refused only where `Loadable` does not hold rests
on `EscapingKeepsNames`.

**`JsonTextProofs`**: `JsonReading` (`JSpec => []JInv`), and from it `JsonTypes`,
`StringsEndRight` and `BracketsClosed` for every text, and `StringsReadBack` for every
string of any length. Scans and the loops over characters are recursive functions; the
library's induction theorems cannot be used, so the proofs build a function that does
what the loop does (`WrittenExists`, `TokensExist`), and show that there is no least
position at which it goes wrong or differs from the loop (`LeastNat`).

* A string ends right because the `escaped` flag at a position is the parity of the
  backslashes before it (`OddIs`, `StringEndIs`).
* A string is read back because each character is spelled as one that is neither quote
  nor backslash, or behind a backslash (`EncodingIs`), so that the flag is down between
  any two characters and up at every quote among them (`FlagsRight`); and
  because the buffer of `6 * length + 1` never fills (`EscapeIs`).
* A value that is skipped closes what it opens because of `BalanceInv`: of the tokens
  read so far, the calls under way make up for the brackets opened and not closed
  (`Balanced`). The other cases of the invariant are what makes this harder than it
  looks: a call with no enclosing one accepts the end of the text, or a character that
  starts no token, as a value, and at the value of a member that is only noticed one
  step later. The text up to the position is read like the whole text (`TokenCut`,
  `TokensRead`), which is what lets `Count` be about what was passed over.

**`JsonValueProofs`**: `ValuesSkipped`, `StatsCounted` and `MinifiedTokens`, for
whatever is printed, however deeply it is nested and whatever of the three endings
follows it. Neither a recursive definition of a value nor an induction rule is
available to the provers, so the argument is laid out differently:

* A `Reader` does at once what the loops do: it has a position, calls under way,
  something it wants, counts, and the tokens it has kept; `Turn` is one token.
  `SkipIsTurn` shows that `json_skip_token_value` makes these turns. That turns lead
  from one reader to another is said without counting them: the second is in every set
  that holds the first and that no turn leaves (`Reaches`). This can be chained
  (`ReachThen`) and has only one way forward (`ReachOn`), which is what an invariant of
  the loops needs.
* `ReadsValue`, `ReadsMember` and `ReadsRest` say of a text that, anywhere in a larger
  text and with any calls under way, a reader passes from its beginning to its end with
  given counts and tokens. Strings need the parity of backslashes from
  `JsonTextProofs`; a number needs that a delimiter follows it, which is why the claim
  asks for one behind every text and why every rest of a container begins with one
  (`StartsDelimited`).
* `Compresses(u, m)` says the same of `json_compress`: between tokens, it turns `u`
  into `m`. White space becomes nothing, a string stays as it is.
* `PrintedReads`: everything printed is read as its kind says, with the counts it
  should have, and so is what `json_compress` makes of it, with the same tokens. The
  parts of a text are shorter than the text, so there is no shortest one of which this
  is false (`LeastNat`); that takes the place of the induction.

The invariants of the loops are then short. `SkipsInv`: the reader that
`json_skip_token_value` is reaches the end of the value. `CountsInv`: so does the one
`json_get_stats_string` is, which has not yet arrived; or the counts are complete and
nothing that counts is left. `MinifiedTokens` follows from `PrintedReads` and from
`KeptIs`: what a reader has kept and what is still to be read are together the tokens
of the text.

Only model-checked: liveness (`LoadReturns`, `EofSettles`, `MutexReleased`,
`LoopsReturn`), which is out of the prover's reach. Every invariant and every action
property of the passing runs is proved.

## Not modelled

* Statistics, timestamps, the query cache and `db_execute_query`, `db_vacuum`,
  `db_optimize`: they change counters that nothing reads.
* Failing allocations, and NULL arguments.
* Data read outside its arrays, such as a row shorter than its schema (the assumption
  on `Rows` excludes it), and what lies behind the buffer of a float that does not fit it
  (`NoNumber`: the text is cut by a NUL, which no token starts with).
* In `Persistence`, the text of JSON files that Luminix did not write itself. A torn
  file is refused; that the loops which find this out end on any text is `JsonText`'s
  part (`LoopsReturn`).
* In `Persistence`, two handlers of one kind at once: a second SIGINT while the first is
  being handled waits, or finds no handler and ends the process (`Crash`).
* A handler in the middle of a menu's `printf` or of `malloc`: what the C library does
  then is not the program's, and its worst case is `Crash`.
* In `json_io.c`, the record and table conversions, documents, paths, patches and diffs
  of the second half, which no menu reaches, and its stubs.
* `index.c`: the structures `index.h` declares do not exist; `index.c` counts entries
  and finds none. The list of indexed fields that the engine keeps is in `Database`.
* `storage.c`, `backup.c`, `export_import.c`: wrappers around file calls, and a load
  followed by a save, which no other file calls. The menu entries of these names call
  stubs of `database.c`, which are in `Shell`.
* `parser.c`, `query_engine.c`, `cli.c`: the statement a query is parsed into is
  discarded, and `db_execute_query` counts it. `main.c` has its own command line.
* `security.c`, `utils.c`: pure byte and string functions, time, logging.
