--------------------------- MODULE PreparedResult ---------------------------
(***************************************************************************)
(* The cursor of one prepared statement: MariaResultPrep with its           *)
(* MariaBinding, from the return of send_query() on.  bind() replaces the    *)
(* parameter list; fetch() loops over step(), which reads a row, or goes on *)
(* to the next parameter row and executes the statement again.              *)
(*                                                                          *)
(* One action is one turn of a loop.  A result row is a pair <<p, k>>: the   *)
(* k-th row the server returns for parameter row p.                         *)
(***************************************************************************)
EXTENDS Integers, Sequences, SequencesExt

CONSTANTS
    Kinds,            \* kinds of statements that are sent, see kind
    NParams,          \* nParams_ of the statements that have parameters
    Params,           \* parameter rows programs bind
    Answer,           \* number of rows the server returns for each of them
    MaxBind,          \* longest list that is bound
    BadBinds,         \* do programs pass the wrong number of parameters?
    Faults,           \* may the server fail?
    Interrupts,       \* may the user interrupt a fetch?
    FetchSizes,       \* n_max of fetch(); negative for "all rows"
    InitialCapacity,  \* rows first allocated for fetch(-1): 100 in the code
    InterruptEvery,   \* rows between two looks at the interrupt flag: 1024
    NULL

ASSUME KindAssumption ==
    /\ Kinds \subseteq {"plain", "query", "call", "statement"}
    /\ NParams \in Nat \ {0}
ASSUME AnswerAssumption == Answer \in [Params \cup {NULL} -> Nat]
ASSUME SizeAssumption ==
    /\ MaxBind \in Nat
    /\ FetchSizes \subseteq Int
    /\ InitialCapacity \in Nat \ {0}
    /\ InterruptEvery \in Nat \ {0}
    /\ {BadBinds, Faults, Interrupts} \subseteq BOOLEAN
ASSUME NullAssumption == NULL \notin Params /\ NULL \notin Int

VARIABLES
    kind,      \* "plain": a query without parameters; with parameters,
               \* "query": metadata is known once it is prepared, "call": only
               \* once it has run, "statement": it returns no rows
    \* ---- MariaResultPrep ----
    pSpec,     \* pSpec_ # NULL, that is has_result()
    cached,    \* cache_metadata() has filled names_ and types_
    bound, complete,
    \* ---- MariaBinding ----
    params,    \* the list bound: its number of columns, its rows and whether
               \* variable_type_from_object() supports the columns
    i, n_rows,
    \* ---- the fetch() in progress ----
    max,       \* n_max, or NULL
    capacity,  \* n: rows allocated in the data frame
    out,       \* rows written to it
    \* ---- the statement on the server (external) ----
    cursor,    \* "none" or "rows": is there a result set to read from?
    wire,      \* its rows that have not been read
    \* ---- history and outcome ----
    executed,  \* parameter rows executed since the last binding
    got,       \* rows returned by fetch() since the last binding
    crashed    \* a parameter was read outside the list

bindVars == <<params, i, n_rows>>
fetchVars == <<max, capacity, out>>
vars == <<kind, pSpec, cached, bound, complete, bindVars, fetchVars, cursor, wire,
          executed, got, crashed>>

-----------------------------------------------------------------------------
Rows(p) == [k \in 1..Answer[p] |-> <<p, k>>]

(* What fetch() writes for a row of a result set it has no metadata of:     *)
(* nCols_ is 0, the row has no columns.                                     *)
Blank == <<>>

nParams == IF kind = "plain" THEN 0 ELSE NParams

ParamLists == BoundedSeq(Params, MaxBind)
NoList == [cols |-> 0, rows |-> <<>>, supported |-> TRUE]

TypeOK ==
    /\ kind \in Kinds
    /\ {pSpec, cached, bound, complete, crashed} \subseteq BOOLEAN
    /\ params.cols \in 0..(nParams + 1) /\ params.rows \in ParamLists
    /\ params.supported \in BOOLEAN
    /\ i \in 0..MaxBind /\ n_rows \in 0..MaxBind /\ i <= n_rows
    /\ max \in FetchSizes \cup {NULL}
    /\ capacity \in Nat
    /\ out \in Seq((Params \cup {NULL}) \X (Nat \ {0})) \/ ~cached
    /\ cursor \in {"none", "rows"}
    /\ wire \in Seq((Params \cup {NULL}) \X (Nat \ {0}))
    /\ executed \in Seq(Params \cup {NULL})

Idle == max = NULL /\ ~crashed

(* complete(), which is what dbHasCompleted() says. *)
HasCompleted == bound /\ (~pSpec \/ complete)

-----------------------------------------------------------------------------
(* dbBind() *)

(* A list is given by the rows that all of its columns have, and by the      *)
(* lengths of the columns.                                                   *)
Lengths(ps) ==
    {lengths \in [1..nParams -> Len(ps)..MaxBind] :
       \E j \in 1..nParams : lengths[j] = Len(ps)}

(* Variant: the lengths are not compared. *)
ValidParamsUnchecked(lengths) == TRUE

(* validate_params() *)
ValidParams(lengths) == \A j \in 2..nParams : lengths[j] = lengths[1]

(* "Parameter %i does not have length %d.": nothing has been touched.        *)
BindUneven(ps) ==
    /\ Idle
    /\ BadBinds
    /\ \E lengths \in Lengths(ps) : ~ValidParams(lengths)
    /\ UNCHANGED vars

(* init_binding(): the list is taken over, then counted.                    *)
BadBind(cols, ps) ==
    /\ Idle
    /\ BadBinds
    /\ nParams > 0
    /\ cols # nParams
    /\ params' = [cols |-> cols, rows |-> ps, supported |-> TRUE]
    /\ UNCHANGED <<kind, pSpec, cached, bound, complete, i, n_rows, fetchVars, cursor,
                   wire, executed, got, crashed>>

(* Column j has a type that cannot be bound.  The place is the first row      *)
(* again; the number of rows comes with the first column.                     *)
BadTypes(j, ps) ==
    /\ Idle
    /\ BadBinds
    /\ params' = [cols |-> nParams, rows |-> ps, supported |-> FALSE]
    /\ i' = 0
    /\ n_rows' = IF j = 1 THEN n_rows ELSE Len(ps)
    /\ executed' = <<>>
    /\ got' = <<>>
    /\ UNCHANGED <<kind, pSpec, cached, bound, complete, fetchVars, cursor, wire, crashed>>

(* validate_params() and init_binding(): the number of rows is the length    *)
(* of the first column.                                                      *)
TakeParams(ps) ==
    /\ Idle
    /\ nParams > 0
    /\ \E lengths \in Lengths(ps) : ValidParams(lengths) /\ n_rows' = lengths[1]
    /\ params' = [cols |-> nParams, rows |-> ps, supported |-> TRUE]
    /\ got' = <<>>

(* Variant: a new binding does not mark the previous execution as done. *)
BindQueryKeepsCursor(ps) ==
    /\ pSpec
    /\ TakeParams(ps)
    /\ i' = 0
    /\ bound' = TRUE
    /\ executed' = <<>>
    /\ UNCHANGED <<kind, pSpec, cached, complete, fetchVars, cursor, wire, crashed>>

(* Variant: a new binding does not start from its first row. *)
BindQueryKeepsPlace(ps) ==
    /\ pSpec
    /\ TakeParams(ps)
    /\ complete' = TRUE
    /\ bound' = TRUE
    /\ executed' = <<>>
    /\ UNCHANGED <<kind, pSpec, cached, i, fetchVars, cursor, wire, crashed>>

(* With a result set execution is left to fetch(); rows of an earlier       *)
(* execution may still be on the wire.                                      *)
BindQuery(ps) ==
    /\ pSpec
    /\ TakeParams(ps)
    /\ i' = 0
    /\ complete' = TRUE
    /\ bound' = TRUE
    /\ executed' = <<>>
    /\ UNCHANGED <<kind, pSpec, cached, fetchVars, cursor, wire, crashed>>

(* Without one, every parameter row is executed at once; a result set that  *)
(* comes up then (CALL) is remembered, its metadata is not.                  *)
BindStatement(ps) ==
    /\ ~pSpec
    /\ TakeParams(ps)
    /\ i' = Len(ps)
    /\ bound' = TRUE
    /\ executed' = ps
    /\ complete' = (complete /\ ps = <<>>)
    /\ pSpec' = (kind = "call" /\ ps # <<>>)
    /\ IF kind = "call" /\ ps # <<>>
       THEN cursor' = "rows" /\ wire' = Rows(Last(ps))
       ELSE UNCHANGED <<cursor, wire>>
    /\ UNCHANGED <<kind, cached, fetchVars, crashed>>

(* Execution number j fails: the rows before it have been executed.         *)
BindStatementFails(ps, j) ==
    /\ ~pSpec
    /\ Faults
    /\ TakeParams(ps)
    /\ i' = j
    /\ executed' = SubSeq(ps, 1, j - 1)
    /\ complete' = FALSE
    /\ pSpec' = (kind = "call" /\ j > 1)
    /\ cursor' = "none"
    /\ wire' = <<>>
    /\ UNCHANGED <<kind, cached, bound, fetchVars, crashed>>

-----------------------------------------------------------------------------
(* dbFetch() *)

(* fetch(): nothing to do for n_max = 0 and without a result set. *)
FetchStart(n) ==
    /\ Idle
    /\ bound
    /\ pSpec
    /\ n # 0
    /\ max' = n
    /\ capacity' = IF n < 0 THEN InitialCapacity ELSE n
    /\ UNCHANGED <<kind, pSpec, cached, bound, complete, bindVars, out, cursor, wire,
                   executed, got, crashed>>

Fetching == max # NULL /\ ~crashed
Full == max > 0 /\ Len(out) >= capacity

(* The call is over, with an error: the rows read so far go with it. *)
GiveUp ==
    /\ max' = NULL
    /\ capacity' = 0
    /\ out' = <<>>

(* fetch_row() reads a row. *)
CanRead == Fetching /\ ~Full /\ ~complete /\ cursor = "rows" /\ wire # <<>>

(* Variant: the data frame is not grown. *)
ReadRowNoGrowth ==
    /\ CanRead
    /\ wire' = Tail(wire)
    /\ out' = Append(out, IF cached THEN Head(wire) ELSE Blank)
    /\ UNCHANGED <<kind, pSpec, cached, bound, complete, bindVars, max, capacity, cursor,
                   executed, got, crashed>>

ReadRow ==
    /\ CanRead
    /\ wire' = Tail(wire)
    /\ out' = Append(out, IF cached THEN Head(wire) ELSE Blank)
    /\ capacity' = IF Len(out) >= capacity THEN 2 * capacity ELSE capacity
    /\ UNCHANGED <<kind, pSpec, cached, bound, complete, bindVars, max, cursor, executed,
                   got, crashed>>

(* ... and check_user_interrupt() finds that the user has had enough.       *)
ReadRowInterrupted ==
    /\ CanRead
    /\ Interrupts
    /\ (Len(out) + 1) % InterruptEvery = 0
    /\ wire' = Tail(wire)
    /\ GiveUp
    /\ UNCHANGED <<kind, pSpec, cached, bound, complete, bindVars, cursor, executed, got,
                   crashed>>

(* MYSQL_NO_DATA. *)
EndOfRows ==
    /\ Fetching
    /\ ~Full
    /\ ~complete
    /\ cursor = "rows"
    /\ wire = <<>>
    /\ complete' = TRUE
    /\ cursor' = "none"
    /\ UNCHANGED <<kind, pSpec, cached, bound, bindVars, fetchVars, wire, executed, got,
                   crashed>>

(* mysql_stmt_fetch() fails: always, when there is no result set.           *)
ReadFails ==
    /\ Fetching
    /\ ~Full
    /\ ~complete
    /\ Faults \/ cursor = "none"
    /\ cursor' = "none"
    /\ wire' = <<>>
    /\ GiveUp
    /\ UNCHANGED <<kind, pSpec, cached, bound, complete, bindVars, executed, got, crashed>>

(* step() goes on to the next parameter row. *)
MoreParams == Fetching /\ ~Full /\ complete /\ i < n_rows

(* The cell that bind_next_row() reads is there.                            *)
InList == params.cols >= nParams /\ i < Len(params.rows)

(* Variant: bind_next_row() does not move on. *)
NextParamsAgain ==
    /\ MoreParams
    /\ InList
    /\ complete' = FALSE
    /\ executed' = Append(executed, params.rows[i + 1])
    /\ cursor' = "rows"
    /\ wire' = Rows(params.rows[i + 1])
    /\ UNCHANGED <<kind, pSpec, cached, bound, bindVars, fetchVars, got, crashed>>

(* bind_next_row() and execute(): rows left on the wire are thrown away.    *)
NextParams ==
    /\ MoreParams
    /\ InList
    /\ i' = i + 1
    /\ complete' = FALSE
    /\ executed' = Append(executed, params.rows[i'])
    /\ cursor' = "rows"
    /\ wire' = Rows(params.rows[i'])
    /\ UNCHANGED <<kind, pSpec, cached, bound, params, n_rows, fetchVars, got, crashed>>

NextParamsFails ==
    /\ MoreParams
    /\ InList
    /\ Faults
    /\ i' = i + 1
    /\ complete' = FALSE
    /\ cursor' = "none"
    /\ wire' = <<>>
    /\ GiveUp
    /\ UNCHANGED <<kind, pSpec, cached, bound, params, n_rows, executed, got, crashed>>

(* R's accessors stop at a column that is not what types_ says: the place    *)
(* stays, and the next fetch() will stop there again.                        *)
NextParamsUnsupported ==
    /\ MoreParams
    /\ ~params.supported
    /\ GiveUp
    /\ UNCHANGED <<kind, pSpec, cached, bound, complete, bindVars, cursor, wire, executed,
                   got, crashed>>

(* Nothing keeps bind_next_row() inside the list. *)
NextParamsOutside ==
    /\ MoreParams
    /\ ~InList
    /\ crashed' = TRUE
    /\ UNCHANGED <<kind, pSpec, cached, bound, complete, bindVars, fetchVars, cursor,
                   wire, executed, got>>

(* Variant: fetch() stops at the end of a parameter row. *)
ReturnEarly ==
    /\ Fetching
    /\ Full \/ complete
    /\ got' = got \o out
    /\ GiveUp
    /\ UNCHANGED <<kind, pSpec, cached, bound, complete, bindVars, cursor, wire, executed,
                   crashed>>

(* Variant: fetch() goes on when step() has found no more rows. *)
ReturnOnlyWhenFull ==
    /\ Fetching
    /\ Full
    /\ got' = got \o out
    /\ GiveUp
    /\ UNCHANGED <<kind, pSpec, cached, bound, complete, bindVars, cursor, wire, executed,
                   crashed>>

Return ==
    /\ Fetching
    /\ Full \/ (complete /\ i >= n_rows)
    /\ got' = got \o out
    /\ GiveUp
    /\ UNCHANGED <<kind, pSpec, cached, bound, complete, bindVars, cursor, wire, executed,
                   crashed>>

-----------------------------------------------------------------------------
(* send_query() has returned: without parameters the statement has run.     *)
Init ==
    /\ kind \in Kinds
    /\ pSpec = (kind \in {"plain", "query"})
    /\ cached = (kind \in {"plain", "query"})
    /\ bound = (kind = "plain")
    /\ complete = FALSE
    /\ params = NoList
    /\ i = 0
    /\ n_rows = 0
    /\ max = NULL
    /\ capacity = 0
    /\ out = <<>>
    /\ cursor = IF kind = "plain" THEN "rows" ELSE "none"
    /\ wire = IF kind = "plain" THEN Rows(NULL) ELSE <<>>
    /\ executed = IF kind = "plain" THEN <<NULL>> ELSE <<>>
    /\ got = <<>>
    /\ crashed = FALSE

Bind ==
    \E ps \in ParamLists :
      \/ BindUneven(ps)
      \/ \E cols \in 0..(nParams + 1) : BadBind(cols, ps)
      \/ \E j \in 1..nParams : BadTypes(j, ps)
      \/ BindQuery(ps)
      \/ BindStatement(ps)
      \/ \E j \in 1..Len(ps) : BindStatementFails(ps, j)

FetchStep ==
    \/ ReadRow
    \/ ReadRowInterrupted
    \/ EndOfRows
    \/ ReadFails
    \/ NextParams
    \/ NextParamsFails
    \/ NextParamsUnsupported
    \/ NextParamsOutside
    \/ Return

Next ==
    \/ Bind
    \/ \E n \in FetchSizes : FetchStart(n)
    \/ FetchStep

Spec == Init /\ [][Next]_vars

(* fetch() runs on once it has been called. *)
FairSpec == Spec /\ WF_vars(FetchStep)

-----------------------------------------------------------------------------
(* Properties *)

(* An execution has failed and no result set is left; every fetch() fails   *)
(* until the next binding.                                                  *)
Broken == bound /\ ~complete /\ cursor = "none"

(* The rows that fetch() still has to give. *)
Todo ==
    IF ~bound \/ Broken THEN <<>>
    ELSE out \o (IF complete THEN <<>> ELSE wire)
             \o FlattenSeq([k \in 1..(n_rows - i) |-> Rows(params.rows[i + k])])

(* init_binding() refuses the list, after it has taken it over.              *)
Unfit == params.cols # nParams \/ ~params.supported

(* The promise is about queries; a list that is unfit suspends it until the  *)
(* next one.                                                                 *)
Promised == kind \in {"plain", "query"} /\ ~(bound /\ Unfit)

Stream == INSTANCE ResultStream WITH
    StreamOf <- [ps \in ParamLists |-> FlattenSeq([k \in 1..Len(ps) |-> Rows(ps[k])])],
    Unbound <- {<<>>, Rows(NULL)},
    list <- IF Promised /\ bound THEN params.rows ELSE <<>>,
    todo <- IF Promised THEN Todo ELSE <<>>,
    got <- IF Promised THEN got ELSE <<>>,
    asked <- IF Promised THEN max ELSE NULL

(* A prepared query gives its caller the stream of rows: all rows of all    *)
(* parameter rows, in order, none twice and none of an earlier binding,     *)
(* however fetch(), failures and new bindings follow each other.            *)
ImplementsStream == Stream!Spec

(* A write to the data frame stays inside what has been allocated. *)
WritesInFrame == max # NULL => Len(out) <= capacity

(* Parameter rows are executed in order, each once, none skipped unless its *)
(* execution failed.                                                        *)
ExecutedInOrder ==
    bound /\ nParams > 0 /\ ~Unfit =>
        /\ IsPrefix(executed, params.rows)
        /\ ~Broken => Len(executed) = i

(* Once the first parameter row of a query has run, dbHasCompleted() is      *)
(* right: TRUE only when all rows of all parameter rows have been read, of a *)
(* list that is fit.                                                         *)
HasCompletedHonest ==
    max = NULL /\ pSpec /\ HasCompleted /\ executed # <<>> /\ ~Unfit => i >= n_rows

(* No parameter is read outside the list, however bindings, fetches and       *)
(* failures follow each other, unless a list that was refused has replaced    *)
(* the one whose place or length is still in use.                             *)
OutsideNeedsUnfit == crashed => Unfit

(* Every fetch() comes to an end (by its own means, or by reading outside   *)
(* the list of parameters).                                                 *)
FetchReturns == max # NULL ~> max = NULL \/ crashed

(* "we've fetched all available results" (MariaResultPrep.cpp:232).         *)
CompleteMeansFetched == HasCompleted => Todo = <<>>

(* "Query returns results, so cache column names and types"                 *)
(* (MariaResultPrep.cpp:53): rows are returned with their columns.          *)
RowsHaveColumns == \A k \in 1..Len(got) : got[k] # Blank

=============================================================================
