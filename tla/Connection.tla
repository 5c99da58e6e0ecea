----------------------------- MODULE Connection -----------------------------
(***************************************************************************)
(* One DbConnection of RMariaDB, the DbResult objects created on it, the    *)
(* garbage collector that finalizes their handles, and the server session   *)
(* behind the connection.                                                   *)
(*                                                                          *)
(* R is single-threaded: a program calls one operation at a time.  What     *)
(* interleaves are the finalizers, which R may run inside any call that     *)
(* allocates -- in particular inside cpp11::warning() -- and the server,    *)
(* whose session may go away between any two steps.                         *)
(*                                                                          *)
(* The constructor of a result is the one call that is split: up to its     *)
(* warning ("warn"), and from the query on ("run").  Every other operation  *)
(* is one step.                                                             *)
(***************************************************************************)
EXTENDS Naturals

CONSTANTS
    Results,      \* addresses of DbResult objects; reused once an object is freed
    Work,         \* units of work, each done at most once (bounds the writes)
    Statements,   \* the SQL statements programs send: a subset of Statement
    MaxBind,      \* largest number of parameter rows in one dbBind()
    SessionLoss,  \* may the server end the session on its own?
    NULL          \* the null pointer

(* What the code can tell apart about an SQL statement: its effect on the   *)
(* server, whether executing it produces a result set, whether the result   *)
(* set's metadata is known once it is prepared (SELECT, INSERT..RETURNING)  *)
(* or only once it has run (CALL), whether it has parameters, and whether   *)
(* the program sends it by dbSendStatement() (is_statement).                *)
Statement == [effect : {"read", "write", "ddl"}, rows : BOOLEAN,
              meta : BOOLEAN, params : BOOLEAN, isStatement : BOOLEAN]

ASSUME StatementsAssumption ==
    /\ Statements \subseteq Statement
    /\ \A s \in Statements : s.meta => s.rows
ASSUME BoundAssumption == MaxBind \in Nat /\ SessionLoss \in BOOLEAN

VARIABLES
    \* ---- DbConnection ----
    pConn,           \* "open", or "null" once disconnected
    pCurrentResult,  \* the result that owns the connection, or NULL
    transacting,
    conRef,          \* the handle conn@ptr still holds its DbConnectionPtr
    \* ---- DbResult and its MariaResultPrep / MariaResultSimple ----
    results,
    pending,         \* the result_create() call in progress, or NULL
    \* ---- the R program ----
    held,            \* results the program can still reach
    connHeld,        \* the program can still reach the connection itself
    \* ---- the server session (external) ----
    alive,           \* the session exists
    unread,          \* result whose rows are on the wire, or NULL
    work,            \* fate of every unit of work
    \* ---- history and outcome ----
    verdict,         \* how the transaction that did a unit was ended
    crashed          \* "no", or which null pointer the process followed

connVars == <<pConn, pCurrentResult, transacting, conRef>>
vars == <<connVars, results, pending, held, connHeld, alive, unread, work,
          verdict, crashed>>

-----------------------------------------------------------------------------
(* Types *)

Result == [impl : {"none", "prep", "simple"}, stmt : Statements \cup {NULL},
           open : BOOLEAN, spec : BOOLEAN,
           bound : BOOLEAN, complete : BOOLEAN, left : 0..MaxBind]

Call == [phase : {"warn", "run"}, r : Results, stmt : Statements,
         immediate : BOOLEAN]

ASSUME NullAssumption == NULL \notin Results \cup Statements /\ NULL \notin Call

Fates == [Work -> {"unused", "dirty", "durable", "lost"}]

(* Every variable has its type; the fields of a result mirror the members  *)
(* pStatement_, pSpec_, bound_, complete_ and the unbound parameter rows.   *)
TypeOK ==
    /\ pConn \in {"open", "null"}
    /\ pCurrentResult \in Results \cup {NULL}
    /\ transacting \in BOOLEAN
    /\ conRef \in BOOLEAN
    /\ results \in [Results -> Result]
    /\ pending \in Call \cup {NULL}
    /\ held \subseteq Results
    /\ connHeld \in BOOLEAN
    /\ alive \in BOOLEAN
    /\ unread \in Results \cup {NULL}
    /\ work \in Fates
    /\ verdict \in [Work -> {"none", "open", "commit", "rollback"}]
    /\ crashed \in {"no", "null_result", "null_stmt"}

Freed == [impl |-> "none", stmt |-> NULL, open |-> FALSE, spec |-> FALSE,
          bound |-> FALSE, complete |-> FALSE, left |-> 0]

Live == {r \in Results : results[r].impl # "none"}

-----------------------------------------------------------------------------
(* The server: fates of the units of work *)

Committed(wk) == [w \in Work |-> IF wk[w] = "dirty" THEN "durable" ELSE wk[w]]
Discarded(wk) == [w \in Work |-> IF wk[w] = "dirty" THEN "lost" ELSE wk[w]]

(* The fates after one statement has run; DDL implicitly commits what came  *)
(* before it and itself.                                                    *)
Executed(s, wk) ==
    CASE s.effect = "read"  -> {wk}
      [] s.effect = "write" -> {[wk EXCEPT ![w] = "dirty"] :
                                  w \in {v \in Work : wk[v] = "unused"}}
      [] s.effect = "ddl"   -> {[Committed(wk) EXCEPT ![w] = "durable"] :
                                  w \in {v \in Work : wk[v] = "unused"}}

(* A client call succeeds only on a live session with no rows on the wire  *)
(* ("Commands out of sync" otherwise).                                      *)
InSync(onWire) == pConn = "open" /\ alive /\ onWire = NULL

(* Units done by this step belong to the transaction running now, if any.  *)
Enlist ==
    verdict' = [w \in Work |->
        IF work[w] = "unused" /\ work'[w] # "unused" /\ transacting
        THEN "open" ELSE verdict[w]]

-----------------------------------------------------------------------------
(* Helpers of DbConnection and MariaResultPrep *)

(* Variant: autocommit() does not ask is_transacting(). *)
AutoCommittedAlways(onWire, wk) ==
    IF InSync(onWire) THEN Committed(wk) ELSE wk

(* DbConnection::autocommit(): its mysql_commit() may fail, unnoticed.      *)
AutoCommitted(onWire, wk) ==
    IF ~transacting /\ InSync(onWire) THEN Committed(wk) ELSE wk

(* mysql_stmt_close() reads off the rows of its own statement. *)
Flushed(r) == IF unread = r THEN NULL ELSE unread

(* Variant: close() drops the handle without mysql_stmt_close(). *)
CloseWithoutStmtClose(r) ==
    IF results[r].impl = "prep"
    THEN /\ results' = [results EXCEPT ![r].open = FALSE, ![r].spec = FALSE]
         /\ work' = AutoCommitted(unread, work)
         /\ UNCHANGED unread
    ELSE UNCHANGED <<results, unread, work>>

(* MariaResultPrep::close(); MariaResultSimple::close() does nothing. *)
Close(r) ==
    IF results[r].impl = "prep"
    THEN /\ results' = [results EXCEPT ![r].open = FALSE, ![r].spec = FALSE]
         /\ unread' = Flushed(r)
         /\ work' = AutoCommitted(Flushed(r), work)
    ELSE UNCHANGED <<results, unread, work>>

(* The session ends with the connection and takes uncommitted work along;   *)
(* statement handles are detached from it.                                  *)
CloseConnection(wk) ==
    /\ pConn' = "null"
    /\ alive' = FALSE
    /\ unread' = NULL
    /\ work' = IF pConn = "open" THEN Discarded(wk) ELSE wk

(* R code runs only between the calls of the package.  Any object that has  *)
(* a reference to the connection keeps it reachable: a MariaDBResult holds  *)
(* its MariaDBConnection.                                                   *)
Ready == pending = NULL /\ crashed = "no"
ConnReachable == connHeld \/ held # {}
CanCall == Ready /\ ConnReachable /\ conRef /\ pConn = "open"

-----------------------------------------------------------------------------
(* dbSendQuery() / dbSendStatement() *)

(* result_create() down to set_current_result(): with a current result, the *)
(* warning "Cancelling previous query" runs R code before the pointer is    *)
(* looked at again.                                                         *)
SendQuery(r, s, immediate) ==
    /\ CanCall
    /\ results[r] = Freed
    /\ pending' = [phase |-> IF pCurrentResult = NULL THEN "run" ELSE "warn",
                   r |-> r, stmt |-> s, immediate |-> immediate]
    /\ pCurrentResult' = IF pCurrentResult = NULL THEN r ELSE pCurrentResult
    /\ UNCHANGED <<pConn, transacting, conRef, results, held, connHeld, alive,
                   unread, work, verdict, crashed>>

InWarning == pending # NULL /\ pending.phase = "warn" /\ crashed = "no"
InQuery == pending # NULL /\ pending.phase = "run" /\ crashed = "no"

(* The warning was turned into an error, or caught: the constructor unwinds *)
(* before it has taken over.                                                *)
WarningUnwinds ==
    /\ InWarning
    /\ pending' = NULL
    /\ UNCHANGED <<connVars, results, held, connHeld, alive, unread, work,
                   verdict, crashed>>

(* Variant: set_current_result() takes over without closing. *)
CancelWithoutClose ==
    /\ InWarning
    /\ pCurrentResult # NULL
    /\ pCurrentResult' = pending.r
    /\ pending' = [pending EXCEPT !.phase = "run"]
    /\ UNCHANGED <<pConn, transacting, conRef, results, held, connHeld, alive,
                   unread, work, verdict, crashed>>

(* The warning returns: close what is the current result by now. *)
CancelPrevious ==
    /\ InWarning
    /\ pCurrentResult # NULL
    /\ Close(pCurrentResult)
    /\ pCurrentResult' = pending.r
    /\ pending' = [pending EXCEPT !.phase = "run"]
    /\ UNCHANGED <<pConn, transacting, conRef, held, connHeld, alive, verdict,
                   crashed>>

(* A finalizer has reset pCurrentResult_ during the warning: the call       *)
(* pCurrentResult_->close() follows a null pointer.                         *)
CancelNothing ==
    /\ InWarning
    /\ pCurrentResult = NULL
    /\ crashed' = "null_result"
    /\ UNCHANGED <<connVars, results, pending, held, connHeld, alive, unread,
                   work, verdict>>

(* The query fails: on the way out ~MariaResultPrep commits (when there was *)
(* one) and ~DbResult gives the connection back.                            *)
QueryFails ==
    /\ InQuery
    /\ work' = IF pending.immediate THEN work ELSE AutoCommitted(unread, work)
    /\ pCurrentResult' = NULL
    /\ pending' = NULL
    /\ UNCHANGED <<pConn, transacting, conRef, results, held, connHeld, alive,
                   unread, verdict, crashed>>

(* The new object reaches the program as a handle. *)
Construct(obj) ==
    /\ results' = [results EXCEPT ![pending.r] = obj]
    /\ held' = held \cup {pending.r}
    /\ pending' = NULL
    /\ Enlist
    /\ UNCHANGED <<connVars, connHeld, alive, crashed>>

Prepared(hasSpec, isBound) ==
    [impl |-> "prep", stmt |-> pending.stmt, open |-> TRUE, spec |-> hasSpec,
     bound |-> isBound, complete |-> FALSE, left |-> 0]

(* MariaResultPrep::send_query() of a statement with parameters. *)
Prepare ==
    /\ InQuery
    /\ ~pending.immediate
    /\ InSync(unread)
    /\ pending.stmt.params
    /\ UNCHANGED <<unread, work>>
    /\ Construct(Prepared(pending.stmt.meta, FALSE))

(* MariaResultPrep::execute() asks again for the metadata, unless the       *)
(* program said that the statement returns nothing.                         *)
SpecAfterExecute(s) == s.meta \/ (s.rows /\ ~s.isStatement)

(* MariaResultPrep::send_query() of a statement without parameters. *)
PrepareAndExecute ==
    /\ InQuery
    /\ ~pending.immediate
    /\ InSync(unread)
    /\ ~pending.stmt.params
    /\ work' \in Executed(pending.stmt, work)
    /\ unread' = IF pending.stmt.rows THEN pending.r ELSE NULL
    /\ Construct(Prepared(SpecAfterExecute(pending.stmt), TRUE))

(* DbConnection::exec() reads everything off the wire, then commits.        *)
Exec(s, wk) == {AutoCommitted(NULL, w) : w \in Executed(s, wk)}

(* Variant: exec() returns without autocommit(). *)
ExecSimpleNoCommit ==
    /\ InQuery
    /\ InSync(unread)
    /\ ~pending.stmt.params
    /\ work' \in Executed(pending.stmt, work)
    /\ Construct([Freed EXCEPT !.impl = "simple"])
    /\ UNCHANGED unread

(* MariaResultSimple, asked for or because the server cannot prepare the    *)
(* statement (the MariaResultPrep that tried is destroyed first).           *)
ExecSimple ==
    /\ InQuery
    /\ InSync(unread)
    /\ ~pending.stmt.params
    /\ work' \in Exec(pending.stmt, IF pending.immediate THEN work
                                     ELSE AutoCommitted(unread, work))
    /\ Construct([Freed EXCEPT !.impl = "simple"])
    /\ UNCHANGED unread

-----------------------------------------------------------------------------
(* dbBind() *)

Bindable(r) == Ready /\ r \in held /\ results[r].impl = "prep"
                     /\ results[r].stmt.params

(* There is no check that the result is active: the handle of a cancelled   *)
(* result is null when mysql_stmt_param_count() follows it.                 *)
BindCancelled(r) ==
    /\ Ready
    /\ r \in held
    /\ results[r].impl = "prep"
    /\ ~results[r].open
    /\ crashed' = "null_stmt"
    /\ UNCHANGED <<connVars, results, pending, held, connHeld, alive, unread,
                   work, verdict>>

(* Variant: the parameter rows are counted from zero. *)
BindRowsOffByOne(r, k) ==
    /\ Bindable(r)
    /\ results[r].open
    /\ results[r].spec
    /\ results' = [results EXCEPT ![r].complete = TRUE, ![r].left = k + 1,
                                  ![r].bound = TRUE]
    /\ UNCHANGED <<connVars, pending, held, connHeld, alive, unread, work,
                   verdict, crashed>>

(* The query has a result set: execution is left to dbFetch(). *)
BindRows(r, k) ==
    /\ Bindable(r)
    /\ results[r].open
    /\ results[r].spec
    /\ results' = [results EXCEPT ![r].complete = TRUE, ![r].left = k,
                                  ![r].bound = TRUE]
    /\ UNCHANGED <<connVars, pending, held, connHeld, alive, unread, work,
                   verdict, crashed>>

(* The query has no result set so far: run it for every parameter row.      *)
BindExecute(r, k) ==
    LET s == results[r].stmt IN
    /\ Bindable(r)
    /\ results[r].open
    /\ ~results[r].spec
    /\ k > 0 => InSync(Flushed(r))
    /\ results' = [results EXCEPT
         ![r].bound = TRUE, ![r].left = 0,
         ![r].complete = IF k > 0 THEN FALSE ELSE @,
         ![r].spec = k > 0 /\ SpecAfterExecute(s)]
    /\ work' \in IF k > 0 THEN Executed(s, work) ELSE {work}
    /\ unread' = IF k = 0 THEN unread ELSE IF s.rows THEN r ELSE NULL
    /\ Enlist
    /\ UNCHANGED <<connVars, pending, held, connHeld, alive, crashed>>

(* The same, failing at some row: the rows before it stay executed and the  *)
(* binding keeps its place.                                                 *)
BindFails(r, k, ranSome) ==
    LET s == results[r].stmt
        spec == ranSome /\ SpecAfterExecute(s)
    IN
    /\ Bindable(r)
    /\ results[r].open
    /\ ~results[r].spec
    /\ k > 0
    /\ ranSome => InSync(Flushed(r))
    /\ \E l \in 0..(k - 1) :
         /\ l > 0 => spec      \* without a result set nobody looks at the place
         /\ results' = [results EXCEPT ![r].complete = FALSE, ![r].spec = spec,
                                       ![r].left = l]
    /\ work' \in IF ranSome THEN Executed(s, work) ELSE {work}
    /\ unread' = Flushed(r)
    /\ Enlist
    /\ UNCHANGED <<connVars, pending, held, connHeld, alive, crashed>>

-----------------------------------------------------------------------------
(* dbFetch() *)

Fetchable(r) ==
    /\ Ready
    /\ r \in held
    /\ pCurrentResult = r
    /\ results[r].impl = "prep"
    /\ results[r].bound
    /\ results[r].spec

(* An execution is under way, or the previous one is done with. *)
CanStep(r) == results[r].complete \/ unread = r

(* Stop with rows left on the wire, having gone on to a later parameter row *)
(* (stopping within the same execution changes nothing that is seen here).  *)
FetchSome(r) ==
    /\ Fetchable(r)
    /\ CanStep(r)
    /\ results[r].left > 0
    /\ InSync(Flushed(r))
    /\ \E l \in 0..(results[r].left - 1) :
         results' = [results EXCEPT ![r].complete = FALSE, ![r].left = l]
    /\ work' \in Executed(results[r].stmt, work)
    /\ unread' = r
    /\ Enlist
    /\ UNCHANGED <<connVars, pending, held, connHeld, alive, crashed>>

(* Read to the end of the last parameter row.  A CALL still has its status  *)
(* on the wire then.                                                        *)
FetchAll(r) ==
    LET more == results[r].left > 0 IN
    /\ Fetchable(r)
    /\ CanStep(r)
    /\ ~results[r].complete \/ more
    /\ InSync(Flushed(r))
    /\ results' = [results EXCEPT ![r].complete = TRUE, ![r].left = 0]
    /\ work' \in IF more THEN Executed(results[r].stmt, work) ELSE {work}
    /\ unread' = IF results[r].stmt.meta THEN NULL ELSE r
    /\ Enlist
    /\ UNCHANGED <<connVars, pending, held, connHeld, alive, crashed>>

(* A row cannot be read, or a later execution fails. *)
FetchFails(r, ranSome) ==
    /\ Fetchable(r)
    /\ ~results[r].complete \/ results[r].left > 0
    /\ ranSome => results[r].left > 0 /\ CanStep(r) /\ InSync(Flushed(r))
    /\ \E l \in 0..results[r].left :
         /\ results[r].complete \/ ranSome => l < results[r].left
         /\ results' = [results EXCEPT ![r].complete = FALSE, ![r].left = l]
    /\ work' \in IF ranSome THEN Executed(results[r].stmt, work) ELSE {work}
    /\ unread' = Flushed(r)
    /\ Enlist
    /\ UNCHANGED <<connVars, pending, held, connHeld, alive, crashed>>

-----------------------------------------------------------------------------
(* Ends of results *)

(* Variant: ~DbResult does not give the connection back. *)
DestroyStaysCurrent(r) ==
    /\ results' = [results EXCEPT ![r] = Freed]
    /\ unread' = Flushed(r)
    /\ work' = AutoCommitted(Flushed(r), work)
    /\ UNCHANGED <<connVars, alive, pending, connHeld, verdict, crashed>>

(* Variant: the destructors close the statement without autocommit(). *)
DestroyNoCommit(r) ==
    /\ results' = [results EXCEPT ![r] = Freed]
    /\ pCurrentResult' = IF pCurrentResult = r THEN NULL ELSE pCurrentResult
    /\ IF ~conRef /\ Live = {r} /\ pending = NULL
       THEN CloseConnection(work)
       ELSE unread' = Flushed(r) /\ UNCHANGED <<pConn, alive, work>>
    /\ UNCHANGED <<transacting, conRef, pending, connHeld, verdict, crashed>>

(* Variant: the result leaks its DbConnectionPtr. *)
DestroyLeaksConnection(r) ==
    /\ results' = [results EXCEPT ![r] = Freed]
    /\ pCurrentResult' = IF pCurrentResult = r THEN NULL ELSE pCurrentResult
    /\ unread' = Flushed(r)
    /\ work' = AutoCommitted(Flushed(r), work)
    /\ UNCHANGED <<pConn, transacting, conRef, alive, pending, connHeld, verdict,
                   crashed>>

(* ~DbResult, then ~MariaResultPrep, then the DbConnectionPtr of the result: *)
(* the last one destroys the connection.                                    *)
Destroy(r) ==
    LET prep == results[r].impl = "prep"
        wk == IF prep THEN AutoCommitted(Flushed(r), work) ELSE work
        last == ~conRef /\ Live = {r} /\ pending = NULL
    IN
    /\ results' = [results EXCEPT ![r] = Freed]
    /\ pCurrentResult' = IF pCurrentResult = r THEN NULL ELSE pCurrentResult
    /\ IF last THEN CloseConnection(wk)
               ELSE /\ unread' = IF prep THEN Flushed(r) ELSE unread
                    /\ work' = wk
                    /\ UNCHANGED <<pConn, alive>>
    /\ UNCHANGED <<transacting, conRef, pending, connHeld, verdict, crashed>>

(* dbClearResult(): a result that is not current is left to the collector. *)
ClearResult(r) ==
    /\ Ready
    /\ r \in held
    /\ pCurrentResult = r
    /\ Destroy(r)
    /\ held' = held \ {r}

(* The collector finalizes an unreachable result, in the middle of a call  *)
(* of the package too.                                                      *)
FinalizeResult(r) ==
    /\ crashed = "no"
    /\ r \in Live \ held
    /\ Destroy(r)
    /\ UNCHANGED held

(* The program forgets a result, or the connection. *)
DropResult(r) ==
    /\ Ready
    /\ r \in held
    /\ held' = held \ {r}
    /\ UNCHANGED <<connVars, results, pending, connHeld, alive, unread, work,
                   verdict, crashed>>

DropConnection ==
    /\ Ready
    /\ connHeld
    /\ connHeld' = FALSE
    /\ UNCHANGED <<connVars, results, pending, held, alive, unread, work,
                   verdict, crashed>>

-----------------------------------------------------------------------------
(* Transactions *)

EndVerdict(how) ==
    verdict' = [w \in Work |-> IF verdict[w] = "open" THEN how ELSE verdict[w]]

(* Variant: commit() only takes the flag back. *)
CommitForgotten ==
    /\ CanCall
    /\ transacting
    /\ transacting' = FALSE
    /\ EndVerdict("commit")
    /\ UNCHANGED <<pConn, pCurrentResult, conRef, results, pending, held,
                   connHeld, alive, unread, work, crashed>>

Begin ==
    /\ CanCall
    /\ ~transacting
    /\ transacting' = TRUE
    /\ UNCHANGED <<pConn, pCurrentResult, conRef, results, pending, held,
                   connHeld, alive, unread, work, verdict, crashed>>

(* The outcome of mysql_commit() is not looked at. *)
Commit ==
    /\ CanCall
    /\ transacting
    /\ work' = IF InSync(unread) THEN Committed(work) ELSE work
    /\ transacting' = FALSE
    /\ EndVerdict("commit")
    /\ UNCHANGED <<pConn, pCurrentResult, conRef, results, pending, held,
                   connHeld, alive, unread, crashed>>

(* Nor is that of mysql_rollback(). *)
Rollback ==
    /\ CanCall
    /\ transacting
    /\ work' = IF InSync(unread) THEN Discarded(work) ELSE work
    /\ transacting' = FALSE
    /\ EndVerdict("rollback")
    /\ UNCHANGED <<pConn, pCurrentResult, conRef, results, pending, held,
                   connHeld, alive, unread, crashed>>

-----------------------------------------------------------------------------
(* Ends of the connection *)

(* dbDisconnect(): closes at once, whatever result is in use. *)
Disconnect ==
    /\ CanCall
    /\ conRef' = FALSE
    /\ CloseConnection(work)
    /\ UNCHANGED <<pCurrentResult, transacting, results, pending, held, connHeld,
                   verdict, crashed>>

(* Variant: finalizing the handle does not run ~DbConnection. *)
FinalizeWithoutDestructor ==
    /\ Ready
    /\ conRef
    /\ ~ConnReachable
    /\ conRef' = FALSE
    /\ UNCHANGED <<pConn, pCurrentResult, transacting, results, pending, held,
                   connHeld, alive, unread, work, verdict, crashed>>

(* The collector finalizes the handle of an unreachable connection; results *)
(* that wait for their own finalizer keep the DbConnection itself.          *)
FinalizeConnection ==
    /\ Ready
    /\ conRef
    /\ ~ConnReachable
    /\ conRef' = FALSE
    /\ IF Live = {} THEN CloseConnection(work)
                    ELSE UNCHANGED <<pConn, alive, unread, work>>
    /\ UNCHANGED <<pCurrentResult, transacting, results, pending, held, connHeld,
                   verdict, crashed>>

(* The server closes the session (timeout, KILL, restart) and rolls back.  *)
SessionLost ==
    /\ SessionLoss
    /\ crashed = "no"
    /\ alive
    /\ alive' = FALSE
    /\ work' = Discarded(work)
    /\ UNCHANGED <<connVars, results, pending, held, connHeld, unread, verdict,
                   crashed>>

-----------------------------------------------------------------------------
(* dbConnect() has returned: the session runs with autocommit = 0. *)
Init ==
    /\ pConn = "open"
    /\ pCurrentResult = NULL
    /\ transacting = FALSE
    /\ conRef = TRUE
    /\ results = [r \in Results |-> Freed]
    /\ pending = NULL
    /\ held = {}
    /\ connHeld = TRUE
    /\ alive = TRUE
    /\ unread = NULL
    /\ work = [w \in Work |-> "unused"]
    /\ verdict = [w \in Work |-> "none"]
    /\ crashed = "no"

Construction ==
    \/ WarningUnwinds
    \/ CancelPrevious
    \/ CancelNothing
    \/ QueryFails
    \/ Prepare
    \/ PrepareAndExecute
    \/ ExecSimple

UseResult(r) ==
    \/ \E s \in Statements, immediate \in BOOLEAN : SendQuery(r, s, immediate)
    \/ BindCancelled(r)
    \/ \E k \in 0..MaxBind : BindRows(r, k) \/ BindExecute(r, k)
    \/ \E k \in 0..MaxBind, ranSome \in BOOLEAN : BindFails(r, k, ranSome)
    \/ FetchSome(r)
    \/ FetchAll(r)
    \/ \E ranSome \in BOOLEAN : FetchFails(r, ranSome)
    \/ ClearResult(r)
    \/ DropResult(r)

Next ==
    \/ \E r \in Results : UseResult(r) \/ FinalizeResult(r)
    \/ Construction
    \/ Begin \/ Commit \/ Rollback
    \/ Disconnect \/ DropConnection \/ FinalizeConnection
    \/ SessionLost

Spec == Init /\ [][Next]_vars

-----------------------------------------------------------------------------
(* Properties *)

NoDirty == \A w \in Work : work[w] # "dirty"

(* pCurrentResult_ is a raw pointer: it never dangles.  It is NULL, a result  *)
(* that exists, or the one whose constructor is running.                     *)
NoDangling ==
    pCurrentResult # NULL =>
        \/ pCurrentResult \in Live
        \/ InQuery /\ pending.r = pCurrentResult

(* A new query cancels the previous one: only the current result has an     *)
(* open statement, whatever was created, cancelled, cleared and collected.  *)
OnlyCurrentOpen == \A r \in Results : results[r].open => pCurrentResult = r

(* Rows on the wire belong to an open statement; with OnlyCurrentOpen, a new *)
(* query therefore never finds the rows of another one on the wire.         *)
UnreadOwner == unread # NULL => results[unread].open

(* The session runs with autocommit = 0, so the package must commit by      *)
(* itself: when no result is in use and no transaction is open, nothing     *)
(* waits for a commit -- after failed queries, cancelled and collected      *)
(* results and transactions ended too early alike.                          *)
QuiescentCommitted == pCurrentResult \notin Live /\ ~transacting => NoDirty

(* A DbConnection that nothing refers to has closed its session.            *)
SessionReleased == ~conRef /\ Live = {} /\ pending = NULL =>
                       pConn = "null" /\ ~alive

(* The object a constructor works on is not yet a result; the call keeps    *)
(* its connection, and owns it once the previous result is closed.          *)
PendingOwns ==
    pending # NULL =>
        /\ results[pending.r] = Freed
        /\ conRef /\ pConn = "open"
        /\ pending.phase = "run" => pCurrentResult = pending.r /\ crashed = "no"

(* Statement handles belong to prepared results, and the current one that   *)
(* is prepared has its handle; handles of the program are live.             *)
HandlesAgree ==
    /\ held \subseteq Live
    /\ \A r \in Results :
         /\ results[r].open => results[r].impl = "prep"
         /\ results[r].impl = "prep" => results[r].stmt \in Statements
         /\ results[r].impl = "prep" /\ pCurrentResult = r => results[r].open

(* The session lives on an open connection; uncommitted work lives in the   *)
(* session and, outside a transaction, has an open statement that is going  *)
(* to commit it.                                                            *)
WorkHasOwner ==
    /\ alive => pConn = "open"
    /\ ~NoDirty => alive
    /\ ~NoDirty /\ ~transacting =>
         pCurrentResult # NULL /\ results[pCurrentResult].open

(* The inductive invariant. *)
IInv ==
    /\ TypeOK
    /\ PendingOwns
    /\ HandlesAgree
    /\ OnlyCurrentOpen
    /\ UnreadOwner
    /\ WorkHasOwner
    /\ NoDangling
    /\ SessionReleased

(* Ending a transaction while no result is in use decides all of its work.  *)
TransactionEnds ==
    [][transacting /\ ~transacting' /\ pCurrentResult = NULL => NoDirty']_vars

(* Clearing, cancelling, collecting or failing inside a transaction makes   *)
(* none of its work durable; only a DDL statement does.                     *)
TransactionPrivate ==
    [][transacting /\ transacting' =>
         \A w \in Work : work[w] = "dirty" /\ work'[w] = "durable" =>
           \E v \in Work : work[v] = "unused" /\ work'[v] = "durable"]_vars

(* Work is lost only with the session, inside a transaction, or when the    *)
(* program disconnects before it has cleared the result: never because      *)
(* objects were collected, in whatever order.                               *)
LossExplained ==
    [][(\E w \in Work : work[w] = "dirty" /\ work'[w] = "lost") =>
         \/ transacting
         \/ alive /\ ~alive' /\ pConn' = "open"
         \/ ConnReachable /\ pCurrentResult \in Live /\ pConn' = "null"]_vars

(* Handles are registered to be finalized (on exit at the latest).          *)
Fairness ==
    /\ \A r \in Results : WF_vars(FinalizeResult(r))
    /\ WF_vars(FinalizeConnection)

FairSpec == Spec /\ Fairness

(* A connection that the program has forgotten ends its session, in         *)
(* whatever order the handles are finalized.                                *)
ForgottenIsClosed == ~ConnReachable /\ pending = NULL ~> ~alive

(* dbRollback() has undone the transaction: R/transaction.R:6.              *)
RolledBackNeverDurable ==
    \A w \in Work : verdict[w] = "rollback" => work[w] # "durable"

(* set_current_result() cancels the previous query "if needed":             *)
(* DbConnection.h:51.                                                       *)
NoNullResult == crashed # "null_result"

=============================================================================
