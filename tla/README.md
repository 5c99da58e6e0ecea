# RMariaDB in TLA+

RMariaDB is a DBI driver: R code on top of C++ classes on top of the C client
library of MariaDB. R is single-threaded, so nothing here is a race between
threads. What makes the package hard to get right is that

* R's garbage collector may finalize connection and result objects inside any
  call that allocates, in any order;
* a connection can run one statement at a time, and rows nobody has read block
  every other command;
* the session runs with `autocommit = 0` (`R/dbConnect_MariaDBDriver.R:237`), so
  the package commits by itself, whenever a statement ends;
* the program may leave every protocol half-way: cancel, rebind, interrupt,
  disconnect, roll back, or just forget its objects;
* the server may refuse a statement, end the session, or be changed by others,
  and the client library may open another session by itself (`reconnect = TRUE`).

Paths below are relative to `src/` of the repository.

## Components

| Component | State it keeps | Operations | Interacts with | Correct when |
|---|---|---|---|---|
| `DbConnection` (`src/DbConnection.cpp`, `connection.cpp`) | `pConn_`, `pCurrentResult_` (raw), `transacting_` | connect, set/reset current result, exec, begin/commit/rollback, autocommit, disconnect, destructor | closes the current result; is shared by handle and results | the raw pointer never dangles; work is committed when nothing is in use; the session ends with the last reference |
| `DbResult`/`MariaResult` (`DbResult.cpp`, `MariaResult.cpp`, `result.cpp`) | shared connection, `impl` | construct, bind, fetch, close, destructor | takes over the connection in its constructor, gives it back in its destructor | cancelled results cannot disturb the current one; a failed constructor gives the connection back |
| `MariaResultPrep` | `pStatement_`, `pSpec_`, `bound_`, `complete_`, column cache | send_query, execute, bind, step, fetch, close | `MariaBinding`, the client library, `autocommit()` | fetch hands out the rows of every parameter row, in order, once |
| `MariaResultSimple` | none | send_query | `DbConnection::exec` | leaves nothing on the wire |
| `MariaBinding` | parameter list, `i`, `n_rows` | init_binding, bind_next_row | `MariaResultPrep` | never reads outside the list that was bound |
| table writing (`R/table.R`, `R/dbWriteTable_*.R`, `R/dbAppendTable_*.R`) | one call: `found`, `need_transaction`, counts | exists, DROP, CREATE, INSERT / LOAD DATA, check, commit, `on.exit` rollback | one connection; other sessions through the server | all rows or none; a user's transaction is left alone |
| `MariaRow`, `MariaTypes`, `MariaBinding`, `R/coerce.R`, `R/query.R` | buffers of parameters and columns | bind a row, fetch a row, time zones, 64-bit integers | the session's time zone, set by `dbConnect` | what is stored is what was bound, what is read is what is stored, whatever the buffers held |
| `dbConnect` (`R/dbConnect_MariaDBDriver.R`, `R/connect.R`, `connection_create`) | session settings, `timezone`, `timezone_out` | create, SET/SELECT time zone, check, SET autocommit, `on.exit` | the server, `DbConnection` | R and the session agree when the program gets the connection; a failed call leaves no session |
| the session under a connection (`DbConnection::connect`, client library) | session settings, `transacting_`, what the client believes about the transaction | execute, clear, begin, commit, rollback, loss, reopening | `DbConnection`; `dbConnect` made the settings | a transaction has one fate; what escapes a commit or a rollback is explained by a lost session or a silent reopening |
| texts (`R/table.R`, `R/*Quote*.R`, `R/dbUnquoteIdentifier_*.R`, `DbConnection::quote_string`) | a temporary file | write the file, LOAD DATA, quote and unquote names, quote strings | table writing; the server's parsers | what is stored or named is what was meant |
| show, driver, generated glue | none | string and value functions | | not modelled |

The hazards this code is exposed to are listed, each at its line, in
`PROJECT.json` (`hazards`), with the properties that cover them.

## Modules

### Connection.tla

One `DbConnection`, its `DbResult` objects, the collector and the server session.

| Variables | Code |
|---|---|
| `pConn`, `pCurrentResult`, `transacting` | members of `DbConnection` |
| `conRef` | `conn@ptr` still holds its `DbConnectionPtr` |
| `results[r]` | an object: `impl`, `pStatement_ # NULL` (`open`), `pSpec_ # NULL` (`spec`), `bound_`, `complete_`, parameter rows not yet executed (`left`) |
| `pending` | a `result_create()` call, before (`warn`) or after (`run`) its warning |
| `held`, `connHeld` | what the R program can still reach; a `MariaDBResult` holds its connection (`R/MariaDBResult.R`) |
| `alive`, `unread`, `work` | the server: session, rows on the wire, fate of each unit of work |
| `verdict`, `crashed` | history: how the transaction of a unit was ended; a null pointer was followed |

A result is named by its address, and addresses are reused. Every operation is
one action, with one exception: constructing a result is split where
`set_current_result()` calls `cpp11::warning()`, because R code runs there. While
the call is in `warn`, finalizers may run (`FinalizeResult`), the warning may be
turned into an error (`WarningUnwinds`), or it returns (`CancelPrevious`,
`CancelNothing`). Finalizers are also possible between the warning and the end
of the query. `MariaResultPrep::close()` is one operator (`Close`) with its
trailing `autocommit()`; the destructors `~DbResult`, `~MariaResultPrep` and,
for the last reference, `~DbConnection` are the single action body `Destroy`.

The client library and the server are external. What is taken from them: a
command while rows are unread fails ("Commands out of sync"), which
`mysql_commit()` and `mysql_rollback()` report and the code ignores;
`mysql_stmt_close()` and a new `mysql_stmt_execute()` read off the rows of their
own statement; a CALL still has its status on the wire after its rows; DDL
commits implicitly; closing or losing the session rolls back.

Statements are abstracted to what the code distinguishes: effect (read, write,
DDL), whether they return rows, whether metadata is known before execution,
parameters, and `is_statement`. A multi-statement string is one statement.

### ResultStream.tla and PreparedResult.tla

`ResultStream` is the promise of a prepared query: binding a list fixes the stream of rows;
`fetch(n)` hands out the next `n` or all that are left; a failure ends the stream;
an interrupt loses what had been read. `PreparedResult` is the code:
`MariaResultPrep::bind/step/fetch_row/execute/fetch` with `MariaBinding`, one turn
of a loop per action. It is shown to implement the promise by the refinement mapping
`Stream`: the rows still to come are those written but not returned, those on the
wire (unless `complete_`), and those of the parameter rows not yet executed.

`kind` selects the statement: `plain` (no parameters), `query` (metadata known when
prepared), `call` (only once executed), `statement` (no rows). The data frame is its
`capacity` and the rows written; values are not modelled.

A list whose columns differ in length is refused by `DbResult::validate_params()` before
anything is touched (`ValidParams`, `BindUneven`). `params` is the list as
`init_binding()` has left it: the number of its columns, its rows, and whether the types
of its columns are supported. Two kinds of lists pass the first check and are `Unfit`:
those with another number of columns than the statement has parameters (`BadBind`,
refused after the list has been replaced), and those with a column
`variable_type_from_object()` does not know (`BadTypes`, refused when the place and maybe
the number of rows have changed). `NextParamsOutside` stands for what may follow: a
`fetch()` all the same reads a cell that is not there, and nothing is said about the
process after that. `HasCompleted` is what `dbHasCompleted()` answers.

### TableWrite.tla

One call of `dbWriteTable()` (data frame or file) or `dbAppendTable()`, statement by
statement, on a database in which the name may denote a permanent and a temporary
table. Each step is one `dbExecute()`/`dbGetQuery()`, including the commit that
clearing its result does outside a transaction (`Autocommits`, the interface to
`Connection`: there `QuiescentCommitted` is what justifies it). A COMMIT may be refused,
and then the server rolls back (`Commits`): `DbConnection::commit()` and `autocommit()`
do not look at the result of `mysql_commit()`, so the call goes on. `StopWith` is the
unwinding of the R call, with the `on.exit(dbRollback(conn))` of the transaction it
has opened. Other sessions act between statements; a metadata lock (`locked`) keeps
them from dropping a table the open transaction has used. `db_append_table()` counts the
rows before a LOAD DATA (`CountBefore`), and again after it when the server says that it
has added none (`CountAfter`); whether the second count sees the rows of other sessions
depends on the isolation level (`repeatable`). The insertion without
`load_data_local_infile` is DBI's default method, which binds one INSERT to all rows:
external, modelled from `MariaResultPrep::bind`.

### Connect.tla, Calendar.tla, Conversions.tla

`Connect` is `dbConnect()`, one action per round trip (`step` says how far it has
come), and the ways it may fail before (`FailUnguarded`) and after (`FailGuarded`)
`on.exit(dbDisconnect(conn))`. `check_tz()` is modelled as it computes: the
assignment in its handler is lost.

`Calendar` has the two date algorithms, `CivilFromDays` (`set_date_buffer()`) and
`DaysFromCivil`, with the truncating division of C, and the Gregorian calendar they
are compared with (`IsDate`, `DayNumber`, by counting leap years).

`Conversions` extends both: a connection prepares one INSERT with one parameter, binds
up to `MaxBinds` columns of values to it, clears it; the same or another connection,
with a time zone of its own, reads the rows back.

| Variables | Code |
|---|---|
| `params`, `i`, `time_buffer`, `buffer`, `is_null` | `MariaBinding` with one parameter |
| `out` | `buffers_`, `lengths_`, `nulls_` of `MariaRow` with one column |
| `stage`, `col`, `table`, `fetched` | the statement, the column's type, rows of the server with what was bound (`put`, `from`), rows `dbFetch()` returned |

A column of the program is described by its `typeof` and class, as `sql_data()`,
`variable_type_from_object()` and `dbDataType()` see it, and `into`, the columns of the
server it may be bound to. `Fetched` is the class in which `dbFetch()` returns it.

What is abstracted: integers have `IntBits` and `BigBits` bits and are unsigned on the
wire; strings and blobs are short sequences; doubles only matter for what `as.numeric`
can hold (`Exact`) and for times, which are integers in ticks finer than the server's
`second_part`; a time zone is a fixed offset or one with a summer time. R's time zone
functions, the client library and the server's columns are external. Other programs
(`PeerStores`) store integers R may not be able to hold. A connection with a statement
in use does not disconnect here; `Connection` is about that.

### Reconnect.tla

Extends `Connect` with the work done in the session, in units, after and across its
loss. `DbConnection` is reduced to `transacting_` and one result that may not have been
cleared; what the client library believes (`in_trans`, from `SERVER_STATUS_IN_TRANS`)
decides whether it opens another session when a command finds the old one gone
(`Reopen`): with `autocommit = 1` and the server's time zone, since `dbConnect()` has
made its settings with statements and not with options. `EndOnServer` is
`mysql_commit()` or `mysql_rollback()`, whose failure `DbConnection` does not report.
`deed` remembers whether a unit was done alone or in a transaction and how the program
ended that; `reopened`, that the client has opened a session by itself since
`dbConnect()` returned; `adrift`, the units done while that was so; `bereft`, the units
not committed when their session was lost.

### TableText.tla

What becomes of the cells of a data frame on their way into a table, character by
character where the characters matter: `csv_quote_one()` and the order of its escapes
(`Escapes`), the line that `readr::write_delim()` writes, the `SET` clause for raw
columns, the types that `dbDataType()` and `get_char_type()` choose, and the other way,
values bound to an INSERT (`Inserted`). It also has the quoting of identifiers, its
inverse by regular expressions (`Readings` has all ways in which the expression
matches), and `quote_string()` with the size of its buffer. How the server reads a file,
a name, a literal or a text in a column (`ReadFile`, `ReadName`, `ReadLiteral`,
`Stored`) is external.

## Runs

| Run | Bounds | Shows |
|---|---|---|
| `core` | 2 results, 2 units, all kinds of statements, up to 1 parameter row, session loss; symmetry | all invariants of `Connection`, the inductive one included; the fate of work |
| `handles` | 3 results, 1 unit, fewer statements, fair finalizers | a forgotten connection ends its session, in whatever order handles are finalized |
| `stream` | 2 parameters, lists of up to 3 rows over 2 values (with 2 and 0 result rows), fetches of 1, 3, all; first capacity 2, interrupts every 2 rows; failures, unfit and refused lists | refinement of `ResultStream`; frame, order, `dbHasCompleted()`, reads outside the list, termination |
| `tables` | every call, 2 rows of which any may clash, every pair of tables, failures, refused commits, other sessions, both isolations | all or nothing, also when the call succeeds; users' transactions, temporary tables |
| `values` | 8 calls of `dbConnect()`, 17 columns of R, 12 types of columns of the server, 2 bindings, integers of 3 and 6 bits, 4 parts of 2 ticks per second | storing, reading, classes, time zones, failure of `dbConnect()` |
| `sessions` | 3 units of work, `reconnect` TRUE and FALSE, 2 calls of `dbConnect()`; symmetry | one fate for a transaction; what escapes a commit or a rollback, and why |
| `text` | cells of up to 3 characters out of those with a meaning, names of up to 3 parts, paths of up to 3 characters; `VARCHAR(1)`, TEXT of 2 | what is stored is what was given, from a file and by INSERT; quoting is undone |
| `rollback`, `cancel`, `completed`, `call`, `timezone` | smallest instance | counterexamples, see Findings |

Why the bounds are enough. Two results give a current one and one that was
cancelled, is still held, or waits for its finalizer; three (in `handles`) give two
finalizers that can run in either order behind a current result. Two units of work
distinguish work before a transaction from work inside it, or of two results. One
parameter row makes the difference between an execution that has run and one that is
still to come. In `stream`, three parameter rows over a value with two result rows
and one with none contain an empty result set before, between and after others, and
a growth of the frame in the middle of a fetch (2 for the 100 of the code; 2 for the
1024 rows between interrupts); two parameters are the least for a list with
columns of different lengths, which is refused. In `tables`, two rows are the least for a partial
insertion. In `values`, every column mixes missing and other values, so that each buffer
is reused after each kind of row; two bindings change the type in the middle (a datetime
and a time bound to a TIME column share `MYSQL_TIME`); 3 and 6 bits keep the order
int < exact doubles < int64 and are small enough to reach every boundary; the dates are the
first and last days of five months of years around leap years and centuries, from year 1
to 9999; the instants lie around the epoch, and before, in and at both edges of the hours
that clocks skip and repeat. The theorems cover all other values. In `sessions`, three
units are one before a transaction and two in it, with a loss of the session between
any two steps. In `text`, a cell of three characters may be a backslash with each of its
followers, or the mark of a missing value with one more backslash; two rows and up to three columns
put every separator next to every cell; lengths of 1 and 2 for `MaxVarchar` and
`TextSize` make some texts too long for either; the theorems cover all lengths.

`CHECK_DEADLOCK FALSE`: a program may stop at any time, work is used up, and a crashed
process does nothing more.

Fairness. `Connection`: weak fairness of the finalizers only, which are registered
with `external_pointer(.., true)` (`connection.cpp:50`, `result.cpp:15`), that is, to
run at exit at the latest. Nothing is assumed of the program or the server.
`PreparedResult`: weak fairness of the loop of `fetch()`, which runs in one thread.
The library calls inside are assumed to return.

Symmetry (permutations of results and of units) is used in `core` and `sessions` only,
which have no liveness property; no definition of theirs names a particular result or
unit.

## Findings

Runs with a counterexample, each against a text of the repository:

* `rollback`: `DbConnection::rollback()` ignores that `mysql_rollback()` was refused
  because rows were unread; the next `dbClearResult()` commits the work.
* `cancel`: the collector, run by the warning "Cancelling previous query", may
  destroy the current result; `set_current_result()` then follows NULL.
* `completed`: `dbBind()` on a query sets `complete_`, so `dbHasCompleted()` is TRUE
  before the first fetch.
* `call`: a CALL with parameters returns rows without columns.
* `timezone`: `check_tz()` warns that it falls back to local time and does not: the
  fallback is assigned inside the handler. Datetimes cannot be read or written then.

Behaviour that is modelled and worth knowing, which no text of the repository
contradicts clearly enough for a run:

* a list that `init_binding()` refuses stays bound, and the next fetch may read a cell
  that is not there (`OutsideNeedsUnfit` says that nothing else leads to this);
* a COMMIT that is refused goes unnoticed: `dbWriteTable()` returns TRUE with all of its
  rows lost (`SuccessIsWhole` says that it is never a part of them);
* when the server does not say how many rows LOAD DATA has added, the rows other sessions
  have added meanwhile are taken for the call's own, unless reads are repeatable, and may
  make up for rows that were skipped;
* a failed new binding of a statement without rows leaves `dbHasCompleted()` TRUE;
* `dbDisconnect()` under a live result ends the session at once, although its warning
  says that the connection is released with the result; uncommitted work is lost;
* `dbWriteTable(append = TRUE)` creates a table that is missing; `dbWriteTable()` of a
  file drops whatever the name denotes, the permanent table too;
* with `reconnect = TRUE` a session that was lost outside a transaction of the server
  comes back with `autocommit = 1` and the server's time zone, and nothing tells the
  program; `dbRollback()` does not undo what is done then (`EndingsExplained`), and
  `dbCommit()` may return though the session was lost with the work;
* times stored as integers (class POSIXct) are bound as plain numbers in UTC, the
  default, because only a change of zone makes doubles of them;
* LOAD DATA runs without strict mode: texts longer than a TEXT or BLOB are cut, where an
  INSERT is refused; FALSE as a logical and 0.0 as a double load into a BIT(1) column as
  1, since only integers get the empty field; the integer 0 loads into a text column as
  an empty text. The properties in `text` are stated for what the code takes care of.

Two properties are stated so that these do not hide other behaviour: the refinement in
`stream` is suspended between an unfit list and the next binding (`Unfit`), and
covers queries, not CALLs (`Promised`).

## Proofs

Every theorem is proved for all values of the constants, from the named assumptions in
the module that declares them. TLC evaluates the assumptions in the runs.

### ConnectionProofs

For every set of results, units of work and statements and every `MaxBind`:
`Spec => []P` for `TypeOK`, `IInv`, `NoDangling`, `OnlyCurrentOpen`, `UnreadOwner`,
`QuiescentCommitted` and `SessionReleased`, and the action properties `TransactionEnds`,
`TransactionPrivate` and `LossExplained`.

None of them is inductive alone. `OnlyCurrentOpen` survives a cancellation only because
the constructor owns the connection when it proceeds; `QuiescentCommitted` survives a
clear only because `autocommit()` finds nobody else's rows on the wire, which is
`UnreadOwner` with `OnlyCurrentOpen`; and it needs that uncommitted work outside a
transaction always has an open statement which is going to commit it (`WorkHasOwner`).
`IInv` adds these and the agreement of handles (`HandlesAgree`) and of the constructor
in progress (`PendingOwns`). The proof has one lemma per action; the uses of a current
result (bind, fetch) share `UsedIInv`, the actions that leave objects alone
`FrameIInv`, both ways to destroy a result `DestroyIInv`. `TransactionEnds` follows:
with no result in use nothing is on the wire (`NothingUnread`), so the server sees the
commit or rollback. The other two rest on one lemma per group of actions: every action
but ending a transaction or the session is `Gentle`, which says that it loses no work
and commits only what it executes itself, unless its statement is DDL.

Two more are what of `ForgottenIsClosed` is not about fairness. `ForgottenCanClose`: while the
session of a connection without handles is open, there is a handle or a result whose
finalizer may run at once, and the program has not followed a null pointer
(`CrashedInUse`: who does that still holds one). `FinalizersShrink`: a forgotten connection
stays forgotten, no step makes an object, and each finalizer removes one.

### PreparedResultProofs

For all lists, answers, sizes of fetches and of the frame: `TypeOK`, `WritesInFrame`,
`ExecutedInOrder`, `HasCompletedHonest` and `OutsideNeedsUnfit`. The invariant adds to
them that the number of rows is that of the list unless the list is unfit (`InPlace`;
this is what keeps `bind_next_row()` inside), that a query without parameters has no
list (`Unparameterised`), that what was executed is a prefix whose length is the place
unless an execution failed (`InOrder`), and that during a fetch the frame has room, and
is not full when the end of the rows is seen (`Framed`). `TakenList` says what a binding
takes over; that the number of rows, which is the length of the first column, is that of
the list follows from what `validate_params()` lets pass (`LengthsAgree`).

`RefinesStream` proves that a prepared query implements `ResultStream`, step by step: for
queries with lists that are fit, every action is one of the stream's (`AsBind`,
`AsAsk`, `AsReply`, `AsFail`, `AsInterrupt`, `AsForget`) or leaves it alone. The rows still
to come are those in the frame, those on the wire, and the concatenation of the answers
to the parameter rows not yet executed (`AfterArgs`). Reading a row moves it between the
first two; executing the next parameter row takes the first answer off the third
(`AfterNext`, a lemma on `FlattenSeq`); what is returned is the beginning of the
stream, `n` rows or all (`ShareOf`). Besides `IInv` the mapping needs `Steady`: a query's
metadata is there from the start, the frame of `fetch(n)` has `n` rows, and no
fetch has rows without a result set to read from.

`FetchDescends` is what of `FetchReturns` is not about fairness: every turn of the loops in
`fetch()` ends the call, or makes the pair of the parameter rows left and the rows left on
the wire (its end included) smaller in the order `Nearer`, which has no endless descent
(`NearerEnds`).

`AgreesWithConnection` joins the two models of a prepared result. `Connection` counts only
the parameter rows left and asks whether rows are on the wire; for queries and statements with
lists that are fit, every turn of the loops in `bind()` and `fetch()` is one of its actions
`BindRows`, `BindExecute`, `BindFails`, `FetchSome`, `FetchAll`, `FetchFails`, or a stutter. So
nothing that `PreparedResult` lets a cursor do is missing from the interleavings that
`Connection` is about. Between the end of one execution and the start of the next
(`Between`, only inside a `fetch()`) `Connection` still has rows on the wire; that the two
never disagree when the call is over needs `HasCompletedHonest` and `Framed`, and that an
execution has taken a parameter row (`Underway`). CALLs and unfit lists are outside of it:
`Connection` keeps the status of a CALL on the wire, and does not know unfit lists.

### SequenceLemmas

The library's induction theorems have a parameter that is an operator, which the provers
cannot instantiate; induction over a *set* of numbers, or of sequences, needs only that
the numbers are well-founded (`LeastNumber`, `SetInduction`, `GrowInduction`: what holds of the
empty sequence and survives one more element at the end holds of all). From it follow what the
operators of the community modules compute, for all sequences: `FlattenSeq` with one more
at either end (`FlattenFirst`, `FlattenGrow`), replacing characters by sequences (`Spread`),
once and twice (`SpreadTwice`), and `FoldLeft` of a typed step as the run of an automaton
(`Run`, `FoldEnds`), which can be cut anywhere (`RunConcat`).

### TableTextProofs

For all characters, texts, names and data frames of any size, and all column types
`dbDataType()` or `field.types` may give: `NameKept`, `LiteralKept`, `TypeOK`, `SameEitherWay`
and `StoredIsGiven`. Whatever writes a text is a `Spread`, whatever reads one a `Run`, and
each round trip is an induction along the text: one character more is written as one or two
more, which take the reading automaton where the character alone would (`ReadDoubled`,
`ReadQuoting`).

* Names: a quoted part is read inside backticks, the dot outside (`ReadDotted`); in
  the other direction only the dot between two parts splits the text into names, since
  any other leaves a backtick alone (`Broken`, `ReadingsOfTwo`).
* The file: escaping the backslash first makes the four replacements of
  `csv_quote_char()` one (`CsvIsSpread`); no text is written as the mark of NA
  (`MarkIsNoText`); a field ends only at a tab, a line at its end (`ReadPieces`, `ReadLine`), so
  that LOAD DATA reads what was given row by row (`FileRead`). Raw bytes are read back from
  their digits (`HexRead`).
* The table: each target of the statement reaches its own column only, because names
  differ once they are read and variables are no names (`ReachesOwn`); no text of a column is
  longer than its VARCHAR (`LongestIs`, `Bounded`); with that the value loaded is the value
  inserted (`SameStored`), and is what was given (`StoredAsGiven`).

The invariant `IInv` of the call ties these together: the columns that exist fit their
classes, the file is the text of the whole data frame, and the table has what an INSERT
would have stored. Assumed: the characters named in the module are among `Chars`
(`CharsAssumption`), and a data frame has columns of one length, with different names and
values of their class (`CallsAssumption`).

### TableWriteProofs

For every number of rows, and every interleaving with other sessions: `TypeOK`,
`NoHalfWrite`, `CreatedIsNew`, `UserTransactionKept`, `UserRollbackTakesBack`,
`SuccessIsWhole` and `TemporaryLeavesPermanent`. The invariant follows the call:
nothing is in the table before the rows are added, and in a transaction all of them can
be taken back (`Tentative`); at each step it is known whose transaction it is
(`Ownership`, `UserWorkKept`); what the call has added in a transaction of its own is in
a table nobody else can drop, its count is right if reads are repeatable, and all rows
are there when COMMIT is sent (`Held`); a table it created is
still there (`Creation`); and the permanent table has none of the rows while a
temporary one is written (`PermanentAlone`).

### ReconnectProofs

For every set of units: `TypeOK`, `EndingsExplained` and `EndIsAtomic`. Nothing is done before the program has the connection
(`NothingBeforeReady`); a session without a connection belongs to a handle that waits
for its finalizer (`OrphanFailed`); work not yet decided is in a session that is still
there (`DirtyInSession`). A session that commits by itself is one the client library has
opened (`AutocommitOff`), which it does only when it is asked to reconnect
(`OnlyIfAsked`). So the work of an open transaction is undecided, or lost with its
session, or committed in a reopened one, and how the transaction ends decides the rest
(`Fates`); and in any transaction, unless its session was lost with
`reconnect = TRUE`, all work has the same fate (`OneSession`).

### ConnectProofs, ConversionsProofs

`ConversionsProofs` starts with the calendar: it proves, for all integers, that `days_from_civil()` is the day number
of the Gregorian calendar (`DaysFromCivilCounts`), and that `set_date_buffer()` gives a
date of that calendar with the right number, which `days_from_civil()` inverts
(`CivilFromDaysCounts`). The argument: truncating division with its correction is the
floor; counting from March 1, an era's leap days are those of its 400 years, and only a
year that ends in a leap February has day 365 (`DayOfEra`); months from March on follow
the line `(153 * mp + 2) / 5` (`DayOfMonth`). Overflow of `int` (beyond year 5 million) is
not modelled.

`ConnectProofs` has an invariant that says at each step of `dbConnect()` what
`conn@timezone` is (`ZonesAgree`) and that a session without a connection belongs to a
handle the collector will finalize (`SessionsOwned`). `ConversionsProofs` carries it over to
`Conversions` (`ReadyIsConfigured`, `FailedLeavesNothing`) by showing that every
statement is a stuttering step of `Connect` (`StatementsLeaveConnection`); it also proves
that a time of day and a datetime come back from MYSQL_TIME as what was bound, up to the
server's precision (`TimeRoundTrip`, `DateTimeRoundTrip`), before 1970 and for negative
and long times too.

The last part of `ConversionsProofs` proves the rest of what the run `values` checks: `TypeOK`,
`StoredIsBound`, `ReadIsStored` and `InstantKept`. The invariant `ValueInv` says that
the statement in use is in one of its stages (`StageOK`), that what is bound is a column
that may go where it goes (`BindingOK`), and that every row of the server (`RowsOK`)
and every value returned (`ReadsOK`) is right when it arrives. Of the contents of the
buffers it says nothing but their shape (`BuffersOK`): a row is right whatever they
hold, because each row either says that it is missing or sets all the fields that its
type sends. What remains is arithmetic: one lemma
per type says that a bound value is stored faithfully (`BoundRowOK`), that a stored one is
read back or cannot be represented (`ValuesRead`, `ClassesKept`), and that
zones agree on instants (`InstantsRead`). Assumed of the data: integers fit their width
(`ForeignAssumption`), columns hold values of their type and go into columns they may
go into (`ColumnsAssumption`), and powers of two are natural numbers with the order of
the widths (`WidthAssumption`, `PowerAssumption`).

### Only model-checked

Liveness (`ForgottenIsClosed`, `FetchReturns`): that fairness makes the next finalizer run
and the next turn of the loop happen is beyond the prover; that those steps lead to the end,
and that a finalizer is there to run, is proved (`FinalizersShrink`, `ForgottenCanClose`,
`FetchDescends`). Every invariant and action property of the passing runs, and the
refinement, is a theorem.

## Not modelled

* Counters (`rowsFetched_`, `rowsAffected_`), column info, connection options that are
  passed through (host, groups, SSL), row names, encodings: no control depends on them.
* Multi-statement strings (`CLIENT_MULTI_STATEMENTS`): one statement is one execution.
* The zero date 0000-00-00: servers in strict mode refuse to store it.
* `dbQuoteLiteral()`: DBI's, but for a cast of difftimes.
* Running out of memory, and R errors inside the client library's buffers.
* Driver, show methods, default groups, generated glue, vendored boost, CI: no state of
  their own.

The reason for every component and hazard without a property is in `PROJECT.json`
(`components`, `hazards`).

## Plan

Done: all modules above with their runs; every invariant, every action property and the
refinement are proved, and the two models of a prepared result are shown to agree.

Left:

1. Multi-statement strings in `Connection`: `exec()` stops at the first
   `mysql_next_result()` that is not 0, an error included.
2. The counters of `MariaResultPrep`, if a property about `dbGetRowsAffected()` across
   several parameter rows is wanted.
3. `AgreesWithConnection` for CALLs: `PreparedResult` would have to keep the status that a
   CALL leaves on the wire.
