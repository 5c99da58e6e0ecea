-------------------------- MODULE ConnectionProofs --------------------------
(* Proofs about Connection, for every value of its constants. *)
EXTENDS Connection, TLAPS

-----------------------------------------------------------------------------
(* Lemmas about the fates of work *)

(* What committing and discarding do to the fates. *)
LEMMA FatesSettled ==
    ASSUME NEW wk \in Fates
    PROVE  /\ Committed(wk) \in Fates
           /\ Discarded(wk) \in Fates
           /\ \A w \in Work : Committed(wk)[w] # "dirty" /\ Discarded(wk)[w] # "dirty"
BY DEF Fates, Committed, Discarded

(* autocommit() never leaves more to commit than it found; outside a        *)
(* transaction, on a connection that is in sync, it leaves nothing.         *)
LEMMA AutoCommittedFates ==
    ASSUME NEW wk \in Fates, NEW onWire
    PROVE  /\ AutoCommitted(onWire, wk) \in Fates
           /\ \A w \in Work : AutoCommitted(onWire, wk)[w] = "dirty" => wk[w] = "dirty"
           /\ ~transacting /\ InSync(onWire) =>
                \A w \in Work : AutoCommitted(onWire, wk)[w] # "dirty"
BY FatesSettled DEF AutoCommitted

(* Running a statement gives every unit a fate. *)
LEMMA ExecutedFates ==
    ASSUME NEW s \in Statements, NEW wk \in Fates, NEW x \in Executed(s, wk)
    PROVE  x \in Fates
<1>1. s.effect \in {"read", "write", "ddl"}
  BY StatementsAssumption DEF Statement
<1>2. CASE s.effect = "read"
  BY <1>2 DEF Executed
<1>3. CASE s.effect = "write"
  BY <1>3 DEF Executed, Fates
<1>4. CASE s.effect = "ddl"
  <2>1. PICK w \in Work : x = [Committed(wk) EXCEPT ![w] = "durable"]
    BY <1>4 DEF Executed
  <2>2. QED BY <2>1, FatesSettled DEF Fates
<1>5. QED BY <1>1, <1>2, <1>3, <1>4

(* Enlisting new units keeps the type of the verdicts. *)
LEMMA EnlistType ==
    ASSUME TypeOK, Enlist
    PROVE  verdict' \in [Work -> {"none", "open", "commit", "rollback"}]
BY DEF TypeOK, Enlist

(* A freed object is a well-typed record. *)
LEMMA FreedType == Freed \in Result
BY BoundAssumption DEF Freed, Result

(* MariaResultPrep::close() gives up the handle of its own result only.     *)
LEMMA ClosedResult ==
    ASSUME results \in [Results -> Result], NEW c \in Results,
           results' = [results EXCEPT ![c].open = FALSE, ![c].spec = FALSE]
    PROVE  /\ results' \in [Results -> Result]
           /\ results'[c].impl = results[c].impl
           /\ results'[c].stmt = results[c].stmt
           /\ results'[c].open = FALSE
           /\ \A q \in Results : q # c => results'[q] = results[q]
BY DEF Result

(* Closing a connection leaves a closed session without work to commit. *)
LEMMA CloseConnectionEffect ==
    ASSUME NEW wk \in Fates, CloseConnection(wk),
           pConn # "open" => \A w \in Work : wk[w] # "dirty"
    PROVE  work' \in Fates /\ NoDirty'
BY FatesSettled DEF CloseConnection, NoDirty

-----------------------------------------------------------------------------
(* The initial states satisfy the invariant. *)
THEOREM InitIInv == Init => IInv
<1> SUFFICES ASSUME Init PROVE IInv
  OBVIOUS
<1>1. TypeOK
  BY FreedType DEF Init, TypeOK, Fates
<1>2. QED
  BY <1>1, NullAssumption DEF Init, IInv, PendingOwns, HandlesAgree, OnlyCurrentOpen,
     UnreadOwner, WorkHasOwner, NoDangling, SessionReleased, NoDirty, Freed, Live

(* Leaving every variable unchanged preserves the invariant. *)
LEMMA StutterIInv == IInv /\ UNCHANGED vars => IInv'
BY DEF IInv, vars, connVars, TypeOK, PendingOwns, HandlesAgree, OnlyCurrentOpen,
   UnreadOwner, WorkHasOwner, NoDangling, SessionReleased, NoDirty, Live, InQuery

-----------------------------------------------------------------------------
(* One lemma per action *)

(* The operations of the program on the current, prepared result only change *)
(* what it still has to give and the fates of work.                          *)
LEMMA UseIInv ==
    ASSUME IInv, TypeOK', pending = NULL, NEW r \in Results,
           pCurrentResult = r, results[r].open,
           results'[r].impl = "prep", results'[r].open,
           results'[r].stmt = results[r].stmt,
           \A q \in Results : q # r => results'[q] = results[q],
           unread' \in {unread, r, NULL},
           NoDirty' \/ alive \/ UNCHANGED work,
           UNCHANGED <<connVars, pending, held, connHeld, alive, crashed>>
    PROVE  IInv'
<1> USE DEF IInv, TypeOK, connVars
<1>1. PendingOwns'
  BY DEF PendingOwns
<1>2. HandlesAgree'
  BY DEF HandlesAgree, Live
<1>3. OnlyCurrentOpen' /\ UnreadOwner'
  BY DEF OnlyCurrentOpen, UnreadOwner
<1>4. WorkHasOwner'
  BY NullAssumption DEF WorkHasOwner, NoDirty
<1>5. NoDangling'
  BY DEF NoDangling, Live
<1>6. SessionReleased'
  BY DEF SessionReleased, Live
<1>7. QED BY <1>1, <1>2, <1>3, <1>4, <1>5, <1>6

(* Steps that leave objects and rows alone. *)
LEMMA FrameIInv ==
    ASSUME IInv, TypeOK', held' \subseteq held, NoDirty' \/ UNCHANGED work,
           \/ transacting => transacting' \/ NoDirty'
           \/ pCurrentResult # NULL /\ results[pCurrentResult].open,
           UNCHANGED <<pConn, pCurrentResult, conRef, results, pending, unread, alive>>,
           crashed' # crashed => ~InQuery
    PROVE  IInv'
<1> USE DEF IInv, TypeOK
<1>1. PendingOwns'
  BY DEF PendingOwns, InQuery
<1>2. HandlesAgree'
  BY DEF HandlesAgree, Live
<1>3. OnlyCurrentOpen' /\ UnreadOwner'
  BY DEF OnlyCurrentOpen, UnreadOwner
<1>4. WorkHasOwner'
  BY DEF WorkHasOwner, NoDirty
<1>5. NoDangling'
  BY DEF NoDangling, Live, InQuery, PendingOwns
<1>6. SessionReleased'
  BY DEF SessionReleased, Live
<1>7. QED BY <1>1, <1>2, <1>3, <1>4, <1>5, <1>6

(* A constructor that succeeds turns its object into the current result.    *)
LEMMA ConstructIInv ==
    ASSUME IInv, TypeOK', InQuery, NEW obj \in Result, Construct(obj),
           obj.impl # "none", obj.open <=> obj.impl = "prep",
           obj.open => obj.stmt \in Statements,
           unread' = NULL \/ (unread' = pending.r /\ obj.open),
           NoDirty' \/ alive,
           ~transacting => NoDirty' \/ obj.open
    PROVE  IInv'
<1> USE DEF IInv, TypeOK, Construct, connVars
<1>1. /\ pending.r \in Results /\ pCurrentResult = pending.r
      /\ results'[pending.r] = obj
      /\ \A q \in Results : q # pending.r => results'[q] = results[q]
      /\ conRef /\ pConn = "open" /\ results[pending.r].open = FALSE
  BY DEF InQuery, PendingOwns, Call, Freed
<1>2. PendingOwns'
  BY DEF PendingOwns
<1>3. HandlesAgree'
  BY <1>1 DEF HandlesAgree, Live
<1>4. OnlyCurrentOpen' /\ UnreadOwner'
  BY <1>1 DEF OnlyCurrentOpen, UnreadOwner
<1>5. WorkHasOwner'
  BY <1>1, NullAssumption DEF WorkHasOwner, NoDirty
<1>6. NoDangling' /\ SessionReleased'
  BY <1>1 DEF NoDangling, Live, SessionReleased
<1>7. QED BY <1>2, <1>3, <1>4, <1>5, <1>6

-----------------------------------------------------------------------------
(* One lemma per action *)

(* result_create() up to the query; the call owns its object. *)
LEMMA SendQueryIInv ==
    ASSUME IInv, NEW r \in Results, NEW s \in Statements, NEW immediate \in BOOLEAN,
           SendQuery(r, s, immediate)
    PROVE  IInv'
<1>1. TypeOK'
  BY DEF IInv, TypeOK, SendQuery, Call
<1>2. PendingOwns'
  BY DEF IInv, TypeOK, SendQuery, CanCall, Ready, PendingOwns
<1>3. HandlesAgree'
  BY DEF IInv, TypeOK, SendQuery, HandlesAgree, Live, Freed
<1>4. OnlyCurrentOpen' /\ UnreadOwner'
  BY NullAssumption DEF IInv, TypeOK, SendQuery, OnlyCurrentOpen, UnreadOwner
<1>5. WorkHasOwner'
  BY DEF IInv, TypeOK, SendQuery, WorkHasOwner, NoDirty
<1>6. NoDangling' /\ SessionReleased'
  <2>1. /\ pending' # NULL /\ pending'.r = r /\ crashed' = "no"
        /\ pCurrentResult = NULL => pending'.phase = "run" /\ pCurrentResult' = r
        /\ pCurrentResult # NULL => pCurrentResult' = pCurrentResult
    BY NullAssumption DEF SendQuery, CanCall, Ready, Call
  <2>2. Live' = Live /\ pending = NULL
    BY DEF SendQuery, CanCall, Ready, Live
  <2>3. QED BY <2>1, <2>2 DEF IInv, NoDangling, SessionReleased, InQuery
<1>7. QED BY <1>1, <1>2, <1>3, <1>4, <1>5, <1>6 DEF IInv

(* The constructor unwinds out of the warning. *)
LEMMA WarningUnwindsIInv == IInv /\ WarningUnwinds => IInv'
BY DEF IInv, TypeOK, WarningUnwinds, InWarning, connVars, PendingOwns, HandlesAgree,
   OnlyCurrentOpen, UnreadOwner, WorkHasOwner, NoDangling, SessionReleased, NoDirty,
   Live, InQuery

(* set_current_result() closes the previous result and takes over. *)
LEMMA CancelPreviousIInv == IInv /\ CancelPrevious => IInv'
<1> SUFFICES ASSUME IInv, CancelPrevious PROVE IInv'
  OBVIOUS
<1> DEFINE c == pCurrentResult
<1>1. /\ pending \in Call /\ pending.phase = "warn" /\ pending.r \in Results
      /\ results[pending.r] = Freed /\ results[pending.r].open = FALSE
      /\ results[pending.r].impl = "none"
      /\ c \in Results /\ c # pending.r /\ results[c].impl # "none"
      /\ conRef /\ pConn = "open"
  BY DEF IInv, TypeOK, CancelPrevious, InWarning, InQuery, PendingOwns, NoDangling,
     Live, Call, Freed
<1>2. /\ pending' \in Call /\ pending'.phase = "run" /\ pending'.r = pending.r
      /\ pCurrentResult' = pending.r /\ crashed' = "no"
      /\ UNCHANGED <<pConn, transacting, conRef, held, connHeld, alive, verdict, crashed>>
  BY <1>1 DEF CancelPrevious, InWarning, Call
<1>3. Flushed(c) = NULL
  BY DEF IInv, TypeOK, OnlyCurrentOpen, UnreadOwner, Flushed
<1>4. /\ results' \in [Results -> Result]
      /\ results'[c].impl = results[c].impl /\ results'[c].stmt = results[c].stmt
      /\ results'[c].open = FALSE
      /\ \A q \in Results : q # c => results'[q] = results[q]
  <2>1. CASE results[c].impl = "prep"
    <3>1. results' = [results EXCEPT ![c].open = FALSE, ![c].spec = FALSE]
      BY <2>1 DEF CancelPrevious, Close
    <3>2. results \in [Results -> Result]
      BY DEF IInv, TypeOK
    <3>3. QED BY <1>1, <3>1, <3>2, ClosedResult
  <2>2. CASE results[c].impl # "prep"
    BY <1>1, <2>2 DEF CancelPrevious, Close, IInv, TypeOK, HandlesAgree, Result
  <2>3. QED BY <2>1, <2>2
<1>5. unread' = NULL
  BY <1>1, <1>3 DEF CancelPrevious, Close, IInv, HandlesAgree, OnlyCurrentOpen,
     UnreadOwner, TypeOK
<1>6. /\ work' \in Fates
      /\ NoDirty => NoDirty'
      /\ ~transacting => NoDirty'
  <2>1. CASE results[c].impl = "prep"
    <3>1. work' = AutoCommitted(NULL, work)
      BY <1>3, <2>1 DEF CancelPrevious, Close
    <3>2. QED
      BY <1>1, <3>1, AutoCommittedFates DEF IInv, TypeOK, WorkHasOwner, NoDirty, InSync
  <2>2. CASE results[c].impl # "prep"
    <3>1. work' = work
      BY <2>2 DEF CancelPrevious, Close
    <3>2. QED
      BY <1>1, <2>2, <3>1 DEF IInv, TypeOK, WorkHasOwner, HandlesAgree, NoDirty
  <2>3. QED BY <2>1, <2>2
<1>7. TypeOK'
  BY <1>1, <1>2, <1>4, <1>5, <1>6 DEF IInv, TypeOK
<1>8. PendingOwns'
  BY <1>1, <1>2, <1>4 DEF PendingOwns
<1>9. HandlesAgree'
  BY <1>1, <1>2, <1>4 DEF IInv, HandlesAgree, Live
<1>10. OnlyCurrentOpen' /\ UnreadOwner'
  BY <1>1, <1>2, <1>4, <1>5 DEF IInv, OnlyCurrentOpen, UnreadOwner
<1>11. WorkHasOwner'
  BY <1>2, <1>6 DEF IInv, WorkHasOwner
<1>12. NoDangling' /\ SessionReleased'
  BY <1>1, <1>2, NullAssumption DEF NoDangling, SessionReleased, InQuery, Call
<1>13. QED BY <1>7, <1>8, <1>9, <1>10, <1>11, <1>12 DEF IInv

(* The process follows the null pointer. *)
LEMMA CancelNothingIInv == IInv /\ CancelNothing => IInv'
<1> SUFFICES ASSUME IInv, CancelNothing PROVE IInv'
  OBVIOUS
<1>1. TypeOK' /\ ~InQuery
  BY DEF IInv, TypeOK, CancelNothing, connVars, InWarning, InQuery
<1>2. UNCHANGED <<pConn, pCurrentResult, transacting, conRef, results, pending,
                  held, unread, alive, work>>
  BY DEF CancelNothing, connVars
<1>3. /\ held' \subseteq held
      /\ NoDirty' \/ UNCHANGED work
      /\ transacting => transacting'
  BY <1>2
<1>4. QED BY <1>1, <1>2, <1>3, FrameIInv

(* The constructor unwinds out of a failed query. *)
LEMMA QueryFailsIInv == IInv /\ QueryFails => IInv'
<1> SUFFICES ASSUME IInv, QueryFails PROVE IInv'
  OBVIOUS
<1>1. /\ pending.r \in Results /\ pCurrentResult = pending.r
      /\ results[pending.r].open = FALSE
      /\ conRef /\ pConn = "open" /\ pCurrentResult' = NULL /\ pending' = NULL
      /\ UNCHANGED <<pConn, transacting, conRef, results, held, connHeld, alive, unread,
                     verdict, crashed>>
  BY DEF IInv, TypeOK, QueryFails, InQuery, PendingOwns, Call, Freed
<1>2. unread = NULL
  BY <1>1 DEF IInv, TypeOK, OnlyCurrentOpen, UnreadOwner
<1>3. work' \in Fates /\ (NoDirty => NoDirty')
  BY AutoCommittedFates DEF IInv, TypeOK, QueryFails, NoDirty
<1>4. TypeOK'
  BY <1>1, <1>3 DEF IInv, TypeOK
<1>5. PendingOwns'
  BY <1>1 DEF PendingOwns
<1>6. HandlesAgree'
  BY <1>1, NullAssumption DEF IInv, HandlesAgree, Live
<1>7. OnlyCurrentOpen' /\ UnreadOwner'
  BY <1>1, <1>2 DEF IInv, OnlyCurrentOpen, UnreadOwner
<1>8. WorkHasOwner'
  BY <1>1, <1>3 DEF IInv, WorkHasOwner
<1>9. NoDangling' /\ SessionReleased'
  BY <1>1 DEF NoDangling, SessionReleased
<1>10. QED BY <1>4, <1>5, <1>6, <1>7, <1>8, <1>9 DEF IInv

(* What the constructors that succeed have in common. *)
LEMMA ConstructType ==
    ASSUME IInv, InQuery, NEW obj \in Result, Construct(obj), work' \in Fates,
           unread' \in Results \cup {NULL}
    PROVE  TypeOK'
<1>1. pending.r \in Results
  BY DEF IInv, TypeOK, InQuery, Call
<1>2. verdict' \in [Work -> {"none", "open", "commit", "rollback"}]
  BY EnlistType DEF IInv, Construct
<1>3. QED BY <1>1, <1>2 DEF IInv, TypeOK, Construct, connVars

(* A new prepared result is a well-typed record. *)
LEMMA PreparedType ==
    ASSUME IInv, InQuery, NEW hasSpec \in BOOLEAN, NEW isBound \in BOOLEAN
    PROVE  /\ Prepared(hasSpec, isBound) \in Result
           /\ Prepared(hasSpec, isBound).impl = "prep"
           /\ Prepared(hasSpec, isBound).open = TRUE
           /\ Prepared(hasSpec, isBound).stmt = pending.stmt
           /\ pending.stmt \in Statements /\ pending.r \in Results
BY BoundAssumption DEF IInv, TypeOK, InQuery, Call, Prepared, Result

(* The fields of a statement are flags. *)
LEMMA StatementType ==
    ASSUME NEW s \in Statements
    PROVE  /\ s.rows \in BOOLEAN /\ s.meta \in BOOLEAN /\ s.params \in BOOLEAN
           /\ SpecAfterExecute(s) \in BOOLEAN
BY StatementsAssumption DEF Statement, SpecAfterExecute

(* send_query() with parameters. *)
LEMMA PrepareIInv == IInv /\ Prepare => IInv'
<1> SUFFICES ASSUME IInv, Prepare PROVE IInv'
  OBVIOUS
<1> DEFINE obj == Prepared(pending.stmt.meta, FALSE)
<1>1. /\ InQuery /\ Construct(obj) /\ InSync(unread)
      /\ unread' = unread /\ work' = work
  BY DEF Prepare
<1>2. /\ pending.stmt \in Statements /\ pending.r \in Results
      /\ pending.stmt.meta \in BOOLEAN
  BY <1>1, StatementType DEF IInv, TypeOK, InQuery, Call
<1>3. obj \in Result /\ obj.impl = "prep" /\ obj.open = TRUE /\ obj.stmt \in Statements
  BY <1>1, <1>2, PreparedType
<1>4. unread' = NULL /\ alive
  BY <1>1 DEF InSync
<1>5. TypeOK'
  <2>1. work' \in Fates
    BY <1>1 DEF IInv, TypeOK
  <2>2. QED BY <1>1, <1>3, <1>4, <2>1, ConstructType
<1> HIDE DEF obj
<1>6. QED
  BY <1>1, <1>3, <1>4, <1>5, ConstructIInv

(* send_query() without parameters. *)
LEMMA PrepareAndExecuteIInv == IInv /\ PrepareAndExecute => IInv'
<1> SUFFICES ASSUME IInv, PrepareAndExecute PROVE IInv'
  OBVIOUS
<1> DEFINE obj == Prepared(SpecAfterExecute(pending.stmt), TRUE)
<1>1. /\ InQuery /\ Construct(obj) /\ InSync(unread)
      /\ unread' \in {pending.r, NULL} /\ work' \in Executed(pending.stmt, work)
  BY DEF PrepareAndExecute
<1>2. /\ pending.stmt \in Statements /\ pending.r \in Results
      /\ SpecAfterExecute(pending.stmt) \in BOOLEAN
  BY <1>1, StatementType DEF IInv, TypeOK, InQuery, Call
<1>3. obj \in Result /\ obj.impl = "prep" /\ obj.open = TRUE /\ obj.stmt \in Statements
  BY <1>1, <1>2, PreparedType
<1>4. alive
  BY <1>1 DEF InSync
<1>5. TypeOK'
  <2>1. work' \in Fates
    BY <1>1, <1>2, ExecutedFates DEF IInv, TypeOK
  <2>2. QED BY <1>1, <1>2, <1>3, <2>1, ConstructType
<1> HIDE DEF obj
<1>6. QED
  BY <1>1, <1>3, <1>4, <1>5, ConstructIInv

(* The simple result, which leaves nothing open. *)
LEMMA ExecSimpleIInv == IInv /\ ExecSimple => IInv'
<1> SUFFICES ASSUME IInv, ExecSimple PROVE IInv'
  OBVIOUS
<1> DEFINE obj == [Freed EXCEPT !.impl = "simple"]
           before == IF pending.immediate THEN work ELSE AutoCommitted(unread, work)
<1>1. /\ InQuery /\ Construct(obj) /\ InSync(unread) /\ unread' = unread
      /\ \E wk \in Executed(pending.stmt, before) : work' = AutoCommitted(NULL, wk)
  BY DEF ExecSimple, Exec
<1>2. pending.stmt \in Statements /\ pending.r \in Results
  BY <1>1 DEF IInv, TypeOK, InQuery, Call
<1>3. obj \in Result /\ obj.impl = "simple" /\ obj.open = FALSE
  BY FreedType DEF Freed, Result
<1>4. unread' = NULL /\ alive /\ pConn = "open"
  BY <1>1 DEF InSync
<1>5. before \in Fates
  BY AutoCommittedFates DEF IInv, TypeOK
<1>6. work' \in Fates /\ (~transacting => NoDirty')
  <2> HIDE DEF before
  <2>1. PICK wk \in Executed(pending.stmt, before) : work' = AutoCommitted(NULL, wk)
    BY <1>1
  <2>2. wk \in Fates
    BY <1>2, <1>5, <2>1, ExecutedFates
  <2>3. InSync(NULL)
    BY <1>4 DEF InSync
  <2>4. QED BY <2>1, <2>2, <2>3, AutoCommittedFates DEF NoDirty
<1>7. TypeOK'
  BY <1>1, <1>3, <1>4, <1>6, ConstructType
<1> HIDE DEF obj
<1>8. /\ obj.impl # "none" /\ (obj.open <=> obj.impl = "prep")
      /\ obj.open => obj.stmt \in Statements
      /\ unread' = NULL \/ (unread' = pending.r /\ obj.open)
      /\ NoDirty' \/ alive
      /\ ~transacting => NoDirty' \/ obj.open
  BY <1>3, <1>4, <1>6
<1>9. QED
  BY <1>1, <1>3, <1>7, <1>8, ConstructIInv

-----------------------------------------------------------------------------
(* dbBind() and dbFetch() *)

(* What binding and fetching change of a result. *)
UsedOnly(r) ==
    /\ results' \in [Results -> Result]
    /\ results'[r].impl = results[r].impl
    /\ results'[r].open = results[r].open
    /\ results'[r].stmt = results[r].stmt
    /\ \A q \in Results : q # r => results'[q] = results[q]

(* The assignments of bind() and fetch() are of that kind. *)
LEMMA UsedResult ==
    ASSUME results \in [Results -> Result], NEW r \in Results, NEW l \in 0..MaxBind,
           NEW c \in BOOLEAN, NEW b \in BOOLEAN, NEW sp \in BOOLEAN,
           \/ results' = [results EXCEPT ![r].complete = c, ![r].left = l]
           \/ results' = [results EXCEPT ![r].complete = c, ![r].left = l,
                                         ![r].bound = b]
           \/ results' = [results EXCEPT ![r].complete = c, ![r].spec = sp,
                                         ![r].left = l]
           \/ results' = [results EXCEPT ![r].bound = b, ![r].left = l,
                                         ![r].complete = c, ![r].spec = sp]
    PROVE  UsedOnly(r)
<1> DEFINE old == results[r]
<1>a. old \in Result
  OBVIOUS
<1> HIDE DEF old
<1>1. CASE results' = [results EXCEPT ![r].complete = c, ![r].left = l]
  <2> DEFINE x == [old EXCEPT !.complete = c, !.left = l]
  <2>1. x \in Result /\ x.impl = old.impl /\ x.open = old.open /\ x.stmt = old.stmt
    BY <1>a DEF Result
  <2>2. results' = [results EXCEPT ![r] = x]
    BY <1>1 DEF old
  <2> HIDE DEF x
  <2>3. QED BY <2>1, <2>2 DEF UsedOnly, old
<1>2. CASE results' = [results EXCEPT ![r].complete = c, ![r].left = l, ![r].bound = b]
  <2> DEFINE x == [old EXCEPT !.complete = c, !.left = l, !.bound = b]
  <2>1. x \in Result /\ x.impl = old.impl /\ x.open = old.open /\ x.stmt = old.stmt
    BY <1>a DEF Result
  <2>2. results' = [results EXCEPT ![r] = x]
    BY <1>2 DEF old
  <2> HIDE DEF x
  <2>3. QED BY <2>1, <2>2 DEF UsedOnly, old
<1>3. CASE results' = [results EXCEPT ![r].complete = c, ![r].spec = sp, ![r].left = l]
  <2> DEFINE x == [old EXCEPT !.complete = c, !.spec = sp, !.left = l]
  <2>1. x \in Result /\ x.impl = old.impl /\ x.open = old.open /\ x.stmt = old.stmt
    BY <1>a DEF Result
  <2>2. results' = [results EXCEPT ![r] = x]
    BY <1>3 DEF old
  <2> HIDE DEF x
  <2>3. QED BY <2>1, <2>2 DEF UsedOnly, old
<1>4. CASE results' = [results EXCEPT ![r].bound = b, ![r].left = l, ![r].complete = c, ![r].spec = sp]
  <2> DEFINE x == [old EXCEPT !.bound = b, !.left = l, !.complete = c, !.spec = sp]
  <2>1. x \in Result /\ x.impl = old.impl /\ x.open = old.open /\ x.stmt = old.stmt
    BY <1>a DEF Result
  <2>2. results' = [results EXCEPT ![r] = x]
    BY <1>4 DEF old
  <2> HIDE DEF x
  <2>3. QED BY <2>1, <2>2 DEF UsedOnly, old
<1>5. QED BY <1>1, <1>2, <1>3, <1>4

(* A well-typed use of the current result preserves the invariant.          *)
LEMMA UsedIInv ==
    ASSUME IInv, NEW r \in held, pending = NULL, results[r].impl = "prep",
           results[r].open, UsedOnly(r), unread' \in {unread, r, NULL},
           work' \in Fates, Enlist \/ UNCHANGED verdict,
           alive \/ UNCHANGED work,
           UNCHANGED <<connVars, pending, held, connHeld, alive, crashed>>
    PROVE  IInv'
<1>1. r \in Results /\ pCurrentResult = r
  BY DEF IInv, TypeOK, OnlyCurrentOpen
<1>2. verdict' \in [Work -> {"none", "open", "commit", "rollback"}]
  BY EnlistType DEF IInv, TypeOK
<1>3. TypeOK'
  BY <1>1, <1>2 DEF IInv, TypeOK, UsedOnly, connVars
<1>4. QED
  BY <1>1, <1>3, UseIInv DEF UsedOnly

(* dbBind() follows the null handle of a cancelled result. *)
LEMMA BindCancelledIInv ==
    ASSUME IInv, NEW r \in Results, BindCancelled(r)
    PROVE  IInv'
<1>1. TypeOK' /\ ~InQuery
  BY DEF IInv, TypeOK, BindCancelled, connVars, Ready, InQuery
<1>2. UNCHANGED <<pConn, pCurrentResult, transacting, conRef, results, pending,
                  held, unread, alive, work>>
  BY DEF BindCancelled, connVars
<1>3. /\ held' \subseteq held
      /\ NoDirty' \/ UNCHANGED work
      /\ transacting => transacting'
  BY <1>2
<1>4. QED BY <1>1, <1>2, <1>3, FrameIInv

(* dbBind() of a query. *)
LEMMA BindRowsIInv ==
    ASSUME IInv, NEW r \in Results, NEW k \in 0..MaxBind, BindRows(r, k)
    PROVE  IInv'
<1>1. /\ r \in held /\ pending = NULL /\ results[r].impl = "prep" /\ results[r].open
      /\ results' = [results EXCEPT ![r].complete = TRUE, ![r].left = k,
                                    ![r].bound = TRUE]
      /\ UNCHANGED <<connVars, pending, held, connHeld, alive, unread, work,
                     verdict, crashed>>
  BY DEF BindRows, Bindable, Ready
<1>2. results \in [Results -> Result] /\ work \in Fates
  BY DEF IInv, TypeOK
<1>3. UsedOnly(r)
  BY <1>1, <1>2, UsedResult
<1>4. QED
  BY <1>1, <1>2, <1>3, UsedIInv

(* dbBind() of a statement. *)
LEMMA BindExecuteIInv ==
    ASSUME IInv, NEW r \in Results, NEW k \in 0..MaxBind, BindExecute(r, k)
    PROVE  IInv'
<1> DEFINE s == results[r].stmt
           done == IF k > 0 THEN FALSE ELSE results[r].complete
           sp == k > 0 /\ SpecAfterExecute(s)
<1>1. /\ r \in held /\ pending = NULL /\ results[r].impl = "prep" /\ results[r].open
      /\ results' = [results EXCEPT ![r].bound = TRUE, ![r].left = 0,
                                    ![r].complete = done, ![r].spec = sp]
      /\ work' \in IF k > 0 THEN Executed(s, work) ELSE {work}
      /\ unread' \in {unread, r, NULL}
      /\ k > 0 => alive
      /\ Enlist
      /\ UNCHANGED <<connVars, pending, held, connHeld, alive, crashed>>
  BY DEF BindExecute, Bindable, Ready, InSync
<1>2. /\ results \in [Results -> Result] /\ work \in Fates /\ s \in Statements
      /\ done \in BOOLEAN /\ sp \in BOOLEAN /\ 0 \in 0..MaxBind
  <2>1. /\ results \in [Results -> Result] /\ work \in Fates /\ s \in Statements
        /\ 0 \in 0..MaxBind
    BY <1>1, BoundAssumption DEF IInv, TypeOK, HandlesAgree
  <2>2. results[r].complete \in BOOLEAN
    BY <2>1 DEF Result
  <2>3. QED BY <2>1, <2>2, StatementType
<1>3. work' \in Fates /\ (alive \/ UNCHANGED work)
  <2>1. CASE k > 0
    BY <1>1, <1>2, <2>1, ExecutedFates
  <2>2. CASE ~(k > 0)
    BY <1>1, <1>2, <2>2
  <2>3. QED BY <2>1, <2>2
<1>4. UsedOnly(r)
  <2> HIDE DEF done, sp
  <2>1. QED BY <1>1, <1>2, UsedResult
<1>5. QED
  BY <1>1, <1>3, <1>4, UsedIInv

(* dbBind() of a statement that fails on the way. *)
LEMMA BindFailsIInv ==
    ASSUME IInv, NEW r \in Results, NEW k \in 0..MaxBind, NEW ranSome \in BOOLEAN,
           BindFails(r, k, ranSome)
    PROVE  IInv'
<1> DEFINE s == results[r].stmt
           sp == ranSome /\ SpecAfterExecute(s)
<1>1. /\ r \in held /\ pending = NULL /\ results[r].impl = "prep" /\ results[r].open
      /\ k > 0
      /\ work' \in IF ranSome THEN Executed(s, work) ELSE {work}
      /\ unread' \in {unread, NULL}
      /\ ranSome => alive
      /\ Enlist
      /\ UNCHANGED <<connVars, pending, held, connHeld, alive, crashed>>
  BY DEF BindFails, Bindable, Ready, InSync, Flushed
<1>2. PICK l \in 0..(k - 1) :
        results' = [results EXCEPT ![r].complete = FALSE, ![r].spec = sp, ![r].left = l]
  BY DEF BindFails
<1>3. /\ results \in [Results -> Result] /\ work \in Fates /\ s \in Statements
      /\ sp \in BOOLEAN /\ l \in 0..MaxBind
  BY <1>1, StatementType, BoundAssumption DEF IInv, TypeOK, HandlesAgree
<1>4. work' \in Fates /\ (alive \/ UNCHANGED work)
  <2>1. CASE ranSome
    BY <1>1, <1>3, <2>1, ExecutedFates
  <2>2. CASE ~ranSome
    BY <1>1, <1>3, <2>2
  <2>3. QED BY <2>1, <2>2
<1>5. UsedOnly(r)
  <2> HIDE DEF sp
  <2>1. QED BY <1>2, <1>3, UsedResult
<1>6. QED
  BY <1>1, <1>4, <1>5, UsedIInv

(* What can be fetched from has an open statement.                          *)
LEMMA FetchableOpen ==
    ASSUME IInv, NEW r \in Results, Fetchable(r)
    PROVE  /\ r \in held /\ pending = NULL /\ results[r].impl = "prep" /\ results[r].open
           /\ results[r].stmt \in Statements /\ results \in [Results -> Result]
           /\ work \in Fates /\ results[r].left \in 0..MaxBind
BY DEF IInv, TypeOK, HandlesAgree, Fetchable, Ready, Result

(* dbFetch() that leaves rows on the wire. *)
LEMMA FetchSomeIInv ==
    ASSUME IInv, NEW r \in Results, FetchSome(r)
    PROVE  IInv'
<1>1. /\ Fetchable(r) /\ alive /\ unread' = r /\ Enlist
      /\ work' \in Executed(results[r].stmt, work)
      /\ UNCHANGED <<connVars, pending, held, connHeld, alive, crashed>>
  BY DEF FetchSome, InSync
<1>2. PICK l \in 0..(results[r].left - 1) :
        results' = [results EXCEPT ![r].complete = FALSE, ![r].left = l]
  BY DEF FetchSome
<1>3. l \in 0..MaxBind
  BY <1>1, <1>2, FetchableOpen, BoundAssumption
<1>4. UsedOnly(r)
  BY <1>1, <1>2, <1>3, FetchableOpen, UsedResult
<1>5. work' \in Fates
  BY <1>1, FetchableOpen, ExecutedFates
<1>6. QED
  BY <1>1, <1>4, <1>5, FetchableOpen, UsedIInv

(* dbFetch() to the end. *)
LEMMA FetchAllIInv ==
    ASSUME IInv, NEW r \in Results, FetchAll(r)
    PROVE  IInv'
<1>1. /\ Fetchable(r) /\ alive /\ unread' \in {unread, r, NULL} /\ Enlist
      /\ results' = [results EXCEPT ![r].complete = TRUE, ![r].left = 0]
      /\ work' \in Executed(results[r].stmt, work) \cup {work}
      /\ UNCHANGED <<connVars, pending, held, connHeld, alive, crashed>>
  BY DEF FetchAll, InSync
<1>2. UsedOnly(r)
  <2>1. 0 \in 0..MaxBind
    BY BoundAssumption
  <2>2. QED BY <1>1, <2>1, FetchableOpen, UsedResult
<1>3. work' \in Fates
  BY <1>1, FetchableOpen, ExecutedFates
<1>4. QED
  BY <1>1, <1>2, <1>3, FetchableOpen, UsedIInv

(* dbFetch() that fails. *)
LEMMA FetchFailsIInv ==
    ASSUME IInv, NEW r \in Results, NEW ranSome \in BOOLEAN, FetchFails(r, ranSome)
    PROVE  IInv'
<1>1. /\ Fetchable(r) /\ unread' \in {unread, NULL} /\ Enlist
      /\ work' \in IF ranSome THEN Executed(results[r].stmt, work) ELSE {work}
      /\ ranSome => alive
      /\ UNCHANGED <<connVars, pending, held, connHeld, alive, crashed>>
  BY DEF FetchFails, InSync, Flushed
<1>2. PICK l \in 0..results[r].left :
        results' = [results EXCEPT ![r].complete = FALSE, ![r].left = l]
  BY DEF FetchFails
<1>3. l \in 0..MaxBind
  BY <1>1, <1>2, FetchableOpen, BoundAssumption
<1>4. UsedOnly(r)
  BY <1>1, <1>2, <1>3, FetchableOpen, UsedResult
<1>5. work' \in Fates /\ (alive \/ UNCHANGED work)
  <2>1. CASE ranSome
    BY <1>1, <2>1, FetchableOpen, ExecutedFates
  <2>2. CASE ~ranSome
    BY <1>1, <2>2, FetchableOpen
  <2>3. QED BY <2>1, <2>2
<1>6. QED
  BY <1>1, <1>4, <1>5, FetchableOpen, UsedIInv

-----------------------------------------------------------------------------
(* Ends of results *)

(* The destructors of a result, and of the connection when it was the last. *)
LEMMA DestroyIInv ==
    ASSUME IInv, NEW r \in Live, Destroy(r), held' = held \ {r}
    PROVE  IInv'
<1> DEFINE prep == results[r].impl = "prep"
           wk == IF prep THEN AutoCommitted(Flushed(r), work) ELSE work
           last == ~conRef /\ Live = {r} /\ pending = NULL
<1>1. /\ results' = [results EXCEPT ![r] = Freed]
      /\ pCurrentResult' = IF pCurrentResult = r THEN NULL ELSE pCurrentResult
      /\ UNCHANGED <<transacting, conRef, pending, connHeld, verdict, crashed>>
      /\ last => CloseConnection(wk)
      /\ ~last => /\ unread' = IF prep THEN Flushed(r) ELSE unread
                  /\ work' = wk
                  /\ UNCHANGED <<pConn, alive>>
  BY DEF Destroy
<1>2. /\ r \in Results /\ results[r].impl # "none" /\ Freed.impl = "none"
      /\ Freed.open = FALSE /\ NULL \notin Results
  BY NullAssumption DEF Live, Freed
<1>3. /\ results' \in [Results -> Result] /\ results'[r] = Freed
      /\ \A q \in Results : q # r => results'[q] = results[q]
  BY <1>1, <1>2, FreedType DEF IInv, TypeOK
<1>4. Live' = Live \ {r}
  BY <1>2, <1>3 DEF Live
<1>5. /\ wk \in Fates
      /\ \A w \in Work : wk[w] = "dirty" => work[w] = "dirty"
      /\ ~transacting /\ pCurrentResult = r => \A w \in Work : wk[w] # "dirty"
  <2>1. work \in Fates
    BY DEF IInv, TypeOK
  <2>2. wk \in Fates /\ \A w \in Work : wk[w] = "dirty" => work[w] = "dirty"
    BY <2>1, AutoCommittedFates
  <2>3. ASSUME ~transacting, pCurrentResult = r, ~NoDirty
        PROVE  \A w \in Work : wk[w] # "dirty"
    <3>1. prep /\ alive /\ pConn = "open"
      BY <2>3, <1>2 DEF IInv, WorkHasOwner, HandlesAgree
    <3>2. Flushed(r) = NULL
      BY <2>3, <1>2 DEF IInv, TypeOK, OnlyCurrentOpen, UnreadOwner, Flushed
    <3>3. InSync(Flushed(r))
      BY <3>1, <3>2 DEF InSync
    <3>4. QED BY <2>1, <2>3, <3>1, <3>3, AutoCommittedFates
  <2>4. QED BY <2>2, <2>3 DEF NoDirty
<1>6. PendingOwns' /\ pending' = pending
  <2>1. pending # NULL => ~last /\ pending.r # r /\ pending.r \in Results
    BY <1>2 DEF IInv, TypeOK, PendingOwns, Call
  <2>2. QED BY <1>1, <1>2, <1>3, <2>1 DEF IInv, PendingOwns
<1> HIDE DEF prep, wk
<1>7. HandlesAgree'
  BY <1>1, <1>2, <1>3, <1>4 DEF IInv, HandlesAgree
<1>8. OnlyCurrentOpen'
  BY <1>1, <1>2, <1>3 DEF IInv, OnlyCurrentOpen
<1>9. NoDangling'
  BY <1>1, <1>2, <1>4 DEF IInv, NoDangling, InQuery
<1>10. CASE last
  <2>1. NoDirty' /\ work' \in Fates /\ pConn' = "null" /\ alive' = FALSE /\ unread' = NULL
    <3>1. pConn # "open" => \A w \in Work : wk[w] # "dirty"
      BY <1>5 DEF IInv, WorkHasOwner, NoDirty
    <3>2. QED BY <1>1, <1>5, <1>10, <3>1, CloseConnectionEffect DEF CloseConnection
  <2>2. TypeOK'
    BY <1>1, <1>3, <2>1 DEF IInv, TypeOK
  <2>3. UnreadOwner' /\ WorkHasOwner' /\ SessionReleased'
    BY <2>1 DEF UnreadOwner, WorkHasOwner, SessionReleased
  <2>4. QED BY <1>6, <1>7, <1>8, <1>9, <2>2, <2>3 DEF IInv
<1>11. CASE ~last
  <2>1. unread' = unread \/ unread' = NULL
    BY <1>1, <1>11 DEF Flushed
  <2>2. unread' # r
    BY <1>1, <1>2, <1>11 DEF IInv, UnreadOwner, HandlesAgree, Flushed, prep
  <2>3. TypeOK'
    BY <1>1, <1>3, <1>5, <1>11, <2>1 DEF IInv, TypeOK
  <2>4. UnreadOwner'
    BY <1>2, <1>3, <2>1, <2>2 DEF IInv, TypeOK, UnreadOwner
  <2>5. WorkHasOwner'
    BY <1>1, <1>2, <1>3, <1>5, <1>11 DEF IInv, TypeOK, WorkHasOwner, NoDirty
  <2>6. SessionReleased'
    BY <1>1, <1>4, <1>11 DEF IInv, SessionReleased
  <2>7. QED BY <1>6, <1>7, <1>8, <1>9, <2>3, <2>4, <2>5, <2>6 DEF IInv
<1>12. QED BY <1>10, <1>11

(* dbClearResult(). *)
LEMMA ClearResultIInv ==
    ASSUME IInv, NEW r \in Results, ClearResult(r)
    PROVE  IInv'
<1>1. r \in Live /\ Destroy(r) /\ held' = held \ {r}
  BY DEF IInv, HandlesAgree, ClearResult
<1>2. QED BY <1>1, DestroyIInv

(* The finalizer of a result. *)
LEMMA FinalizeResultIInv ==
    ASSUME IInv, NEW r \in Results, FinalizeResult(r)
    PROVE  IInv'
<1>1. r \in Live /\ Destroy(r) /\ held' = held \ {r}
  BY DEF FinalizeResult
<1>2. QED BY <1>1, DestroyIInv

(* The program forgets a result. *)
LEMMA DropResultIInv ==
    ASSUME IInv, NEW r \in Results, DropResult(r)
    PROVE  IInv'
<1>1. /\ held' \subseteq held /\ (NoDirty' \/ UNCHANGED work) /\ (transacting => transacting')
      /\ UNCHANGED <<pConn, pCurrentResult, conRef, results, pending, unread, alive, crashed>>
  BY DEF DropResult, connVars
<1>2. TypeOK'
  BY DEF IInv, TypeOK, DropResult, connVars
<1>3. QED BY <1>1, <1>2, FrameIInv

(* The program forgets the connection. *)
LEMMA DropConnectionIInv == IInv /\ DropConnection => IInv'
<1> SUFFICES ASSUME IInv, DropConnection PROVE IInv'
  OBVIOUS
<1>1. /\ held' \subseteq held /\ (NoDirty' \/ UNCHANGED work) /\ (transacting => transacting')
      /\ UNCHANGED <<pConn, pCurrentResult, conRef, results, pending, unread, alive, crashed>>
  BY DEF DropConnection, connVars
<1>2. TypeOK'
  BY DEF IInv, TypeOK, DropConnection, connVars
<1>3. QED BY <1>1, <1>2, FrameIInv

-----------------------------------------------------------------------------
(* Transactions and the session *)

(* dbBegin(). *)
LEMMA BeginIInv == IInv /\ Begin => IInv'
<1> SUFFICES ASSUME IInv, Begin PROVE IInv'
  OBVIOUS
<1>1. /\ held' \subseteq held /\ (NoDirty' \/ UNCHANGED work) /\ (transacting => transacting')
      /\ UNCHANGED <<pConn, pCurrentResult, conRef, results, pending, unread, alive, crashed>>
  BY DEF Begin
<1>2. TypeOK'
  BY DEF IInv, TypeOK, Begin
<1>3. QED BY <1>1, <1>2, FrameIInv

(* With no open statement nothing is on the wire, so that the server gets   *)
(* to see the end of the transaction.                                       *)
LEMMA NothingUnread ==
    ASSUME IInv, ~(pCurrentResult # NULL /\ results[pCurrentResult].open)
    PROVE  unread = NULL
BY DEF IInv, TypeOK, OnlyCurrentOpen, UnreadOwner

(* Ending a transaction keeps the type of the verdicts. *)
LEMMA EndVerdictType ==
    ASSUME TypeOK, NEW how \in {"commit", "rollback"}, EndVerdict(how)
    PROVE  verdict' \in [Work -> {"none", "open", "commit", "rollback"}]
BY DEF TypeOK, EndVerdict

(* Ending a transaction with nothing on the wire leaves nothing to commit.  *)
LEMMA EndDecides ==
    ASSUME IInv, Commit \/ Rollback
    PROVE  /\ work' \in Fates
           /\ NoDirty' \/ UNCHANGED work
           /\ unread = NULL => NoDirty'
<1>1. work \in Fates /\ (~NoDirty => alive) /\ pConn = "open"
  BY DEF IInv, TypeOK, WorkHasOwner, Commit, Rollback, CanCall
<1>2. CASE Commit
  BY <1>1, <1>2, FatesSettled DEF Commit, NoDirty, InSync
<1>3. CASE Rollback
  BY <1>1, <1>3, FatesSettled DEF Rollback, NoDirty, InSync
<1>4. QED BY <1>2, <1>3

(* dbCommit() and dbRollback(). *)
LEMMA EndIInv == IInv /\ (Commit \/ Rollback) => IInv'
<1> SUFFICES ASSUME IInv, Commit \/ Rollback PROVE IInv'
  OBVIOUS
<1>1. /\ held' \subseteq held
      /\ UNCHANGED <<pConn, pCurrentResult, conRef, results, pending, unread, alive, crashed>>
  BY DEF Commit, Rollback
<1>2. /\ NoDirty' \/ UNCHANGED work
      /\ \/ transacting => transacting' \/ NoDirty'
         \/ pCurrentResult # NULL /\ results[pCurrentResult].open
  BY EndDecides, NothingUnread
<1>3. TypeOK'
  BY EndVerdictType, EndDecides DEF IInv, TypeOK, Commit, Rollback
<1>4. QED BY <1>1, <1>2, <1>3, FrameIInv

(* A closed connection has a closed session and keeps its objects.          *)
LEMMA ClosedIInv ==
    ASSUME IInv, CloseConnection(work), pending = NULL, conRef' \in BOOLEAN,
           UNCHANGED <<pCurrentResult, transacting, results, pending, held, connHeld,
                       verdict, crashed>>
    PROVE  IInv'
<1>1. NoDirty' /\ work' \in Fates /\ pConn' = "null" /\ alive' = FALSE /\ unread' = NULL
  BY CloseConnectionEffect DEF CloseConnection, IInv, TypeOK, WorkHasOwner, NoDirty
<1>2. TypeOK'
  BY <1>1 DEF IInv, TypeOK
<1>3. PendingOwns' /\ HandlesAgree' /\ OnlyCurrentOpen' /\ UnreadOwner'
  BY <1>1 DEF IInv, PendingOwns, HandlesAgree, OnlyCurrentOpen, UnreadOwner, Live
<1>4. WorkHasOwner' /\ NoDangling' /\ SessionReleased'
  BY <1>1 DEF IInv, WorkHasOwner, NoDangling, SessionReleased, Live, InQuery
<1>5. QED BY <1>2, <1>3, <1>4 DEF IInv

(* dbDisconnect(). *)
LEMMA DisconnectIInv == IInv /\ Disconnect => IInv'
BY ClosedIInv DEF Disconnect, CanCall, Ready

(* The finalizer of the connection. *)
LEMMA FinalizeConnectionIInv == IInv /\ FinalizeConnection => IInv'
<1> SUFFICES ASSUME IInv, FinalizeConnection PROVE IInv'
  OBVIOUS
<1>1. CASE Live = {}
  BY <1>1, ClosedIInv DEF FinalizeConnection, Ready
<1>2. CASE Live # {}
  <2>1. /\ pending = NULL /\ conRef' = FALSE
        /\ UNCHANGED <<pConn, alive, unread, work, pCurrentResult, transacting, results,
                       pending, held, connHeld, verdict, crashed>>
    BY <1>2 DEF FinalizeConnection, Ready
  <2>2. TypeOK' /\ PendingOwns' /\ HandlesAgree' /\ OnlyCurrentOpen' /\ UnreadOwner'
    BY <2>1 DEF IInv, TypeOK, PendingOwns, HandlesAgree, OnlyCurrentOpen, UnreadOwner, Live
  <2>3. WorkHasOwner' /\ NoDangling' /\ SessionReleased'
    BY <1>2, <2>1 DEF IInv, WorkHasOwner, NoDirty, NoDangling, SessionReleased, Live, InQuery
  <2>4. QED BY <2>2, <2>3 DEF IInv
<1>3. QED BY <1>1, <1>2

(* The server closes the session. *)
LEMMA SessionLostIInv == IInv /\ SessionLost => IInv'
<1> SUFFICES ASSUME IInv, SessionLost PROVE IInv'
  OBVIOUS
<1>1. /\ alive' = FALSE /\ work' \in Fates /\ NoDirty'
      /\ UNCHANGED <<connVars, results, pending, held, connHeld, unread, verdict, crashed>>
  BY FatesSettled DEF SessionLost, IInv, TypeOK, NoDirty
<1>2. TypeOK' /\ PendingOwns' /\ HandlesAgree' /\ OnlyCurrentOpen' /\ UnreadOwner'
  BY <1>1 DEF connVars, IInv, TypeOK, PendingOwns, HandlesAgree, OnlyCurrentOpen,
     UnreadOwner, Live
<1>3. WorkHasOwner' /\ NoDangling' /\ SessionReleased'
  BY <1>1 DEF connVars, IInv, WorkHasOwner, NoDangling, SessionReleased, Live, InQuery
<1>4. QED BY <1>2, <1>3 DEF IInv

-----------------------------------------------------------------------------
(* What a step may do to uncommitted work *)

(* No work is lost by the step, and inside a transaction none becomes       *)
(* durable, except by a DDL statement that does a unit of its own.          *)
Gentle(wk, x) ==
    /\ \A w \in Work : wk[w] = "dirty" => x[w] # "lost"
    /\ transacting => \A w \in Work : wk[w] = "dirty" /\ x[w] = "durable" =>
                        \E v \in Work : wk[v] = "unused" /\ x[v] = "durable"

(* Discarding makes nothing durable. *)
LEMMA DiscardedNotDurable ==
    ASSUME NEW wk \in Fates
    PROVE  \A w \in Work : wk[w] = "dirty" => Discarded(wk)[w] # "durable"
BY DEF Fates, Discarded

(* Running a statement is gentle. *)
LEMMA ExecutedGentle ==
    ASSUME NEW s \in Statements, NEW wk \in Fates, NEW x \in Executed(s, wk)
    PROVE  Gentle(wk, x)
<1>1. s.effect \in {"read", "write", "ddl"}
  BY StatementsAssumption DEF Statement
<1>2. CASE s.effect = "read"
  BY <1>2 DEF Executed, Gentle
<1>3. CASE s.effect = "write"
  BY <1>3 DEF Executed, Fates, Gentle
<1>4. CASE s.effect = "ddl"
  <2>1. PICK v \in Work : wk[v] = "unused" /\ x = [Committed(wk) EXCEPT ![v] = "durable"]
    BY <1>4 DEF Executed
  <2>2. Committed(wk) \in Fates /\ \A w \in Work : wk[w] = "dirty" => Committed(wk)[w] # "lost"
    BY DEF Committed, Fates
  <2>3. x[v] = "durable" /\ \A w \in Work : w # v => x[w] = Committed(wk)[w]
    BY <2>1, <2>2 DEF Fates
  <2>4. QED BY <2>1, <2>2, <2>3 DEF Gentle
<1>5. QED BY <1>1, <1>2, <1>3, <1>4

(* autocommit() is gentle: it does nothing inside a transaction. *)
LEMMA AutoCommittedGentle ==
    ASSUME NEW wk \in Fates, NEW onWire
    PROVE  /\ Gentle(wk, AutoCommitted(onWire, wk))
           /\ transacting => AutoCommitted(onWire, wk) = wk
           /\ \A w \in Work : wk[w] = "dirty" => AutoCommitted(onWire, wk)[w] # "lost"
BY DEF AutoCommitted, Committed, Fates, Gentle

(* Leaving work alone is gentle. *)
LEMMA UnchangedGentle == Gentle(work, work)
BY DEF Gentle

(* Constructors are gentle, successful or not. *)
LEMMA ConstructionGentle ==
    ASSUME IInv, Construction
    PROVE  Gentle(work, work')
<1>1. work \in Fates
  BY DEF IInv, TypeOK
<1>2. CASE WarningUnwinds \/ CancelNothing \/ Prepare
  BY <1>2, UnchangedGentle DEF WarningUnwinds, CancelNothing, Prepare
<1>3. CASE CancelPrevious
  BY <1>1, <1>3, UnchangedGentle, AutoCommittedGentle DEF CancelPrevious, Close
<1>4. CASE QueryFails
  BY <1>1, <1>4, UnchangedGentle, AutoCommittedGentle DEF QueryFails
<1>5. CASE PrepareAndExecute
  <2>1. pending.stmt \in Statements
    BY <1>5 DEF IInv, TypeOK, PrepareAndExecute, InQuery, Call
  <2>2. QED BY <1>1, <1>5, <2>1, ExecutedGentle DEF PrepareAndExecute
<1>6. CASE ExecSimple
  <2>1. pending.stmt \in Statements
    BY <1>6 DEF IInv, TypeOK, ExecSimple, InQuery, Call
  <2> DEFINE before == IF pending.immediate THEN work ELSE AutoCommitted(unread, work)
  <2>2. PICK wk \in Executed(pending.stmt, before) : work' = AutoCommitted(NULL, wk)
    BY <1>6 DEF ExecSimple, Exec
  <2>3. before \in Fates /\ Gentle(work, before)
    BY <1>1, AutoCommittedFates, AutoCommittedGentle, UnchangedGentle
  <2>4. wk \in Fates /\ Gentle(before, wk)
    BY <2>1, <2>2, <2>3, ExecutedFates, ExecutedGentle
  <2>5. CASE transacting
    BY <1>1, <2>2, <2>4, <2>5, AutoCommittedGentle
  <2>6. CASE ~transacting
    <3>1. \A w \in Work : before[w] = "dirty" => wk[w] # "lost"
      BY <2>4 DEF Gentle
    <3>2. \A w \in Work : wk[w] = "dirty" => work'[w] # "lost"
      BY <2>2, <2>4, AutoCommittedGentle
    <3>3. \A w \in Work : wk[w] # "dirty" => work'[w] = wk[w]
      BY <2>2, <2>4 DEF AutoCommitted, Committed, Fates
    <3>4. \A w \in Work : work[w] = "dirty" => before[w] \in {"dirty", "durable"}
      BY <1>1, <2>6 DEF AutoCommitted, Committed, Fates
    <3>5. \A w \in Work : before[w] = "durable" => wk[w] # "lost"
      <4>1. pending.stmt.effect \in {"read", "write", "ddl"}
        BY <2>1, StatementsAssumption DEF Statement
      <4>2. CASE pending.stmt.effect = "read"
        BY <2>2, <4>2 DEF Executed
      <4>3. CASE pending.stmt.effect = "write"
        BY <2>2, <2>3, <4>3 DEF Executed, Fates
      <4>4. CASE pending.stmt.effect = "ddl"
        BY <2>2, <2>3, <4>4 DEF Executed, Fates, Committed
      <4>5. QED BY <4>1, <4>2, <4>3, <4>4
    <3>6. QED BY <2>6, <3>1, <3>2, <3>3, <3>4, <3>5 DEF Gentle
  <2>7. QED BY <2>5, <2>6
<1>7. QED BY <1>2, <1>3, <1>4, <1>5, <1>6 DEF Construction

(* Binding and fetching are gentle, where they fail too. *)
LEMMA UseGentle ==
    ASSUME IInv, NEW r \in Results, UseResult(r), ~ClearResult(r)
    PROVE  Gentle(work, work')
<1>1. work \in Fates
  BY DEF IInv, TypeOK
<1>2. results[r].impl = "prep" => results[r].stmt \in Statements
  BY DEF IInv, HandlesAgree
<1>3. CASE \E s \in Statements, immediate \in BOOLEAN : SendQuery(r, s, immediate)
  BY <1>3, UnchangedGentle DEF SendQuery
<1>4. CASE BindCancelled(r) \/ DropResult(r)
  BY <1>4, UnchangedGentle DEF BindCancelled, DropResult
<1>5. CASE \E k \in 0..MaxBind : BindRows(r, k) \/ BindExecute(r, k)
  <2>1. PICK k \in 0..MaxBind : BindRows(r, k) \/ BindExecute(r, k)
    BY <1>5
  <2>2. CASE BindRows(r, k)
    BY <2>2, UnchangedGentle DEF BindRows
  <2>3. CASE BindExecute(r, k)
    BY <1>1, <1>2, <2>3, UnchangedGentle, ExecutedGentle DEF BindExecute, Bindable
  <2>4. QED BY <2>1, <2>2, <2>3
<1>6. CASE \E k \in 0..MaxBind, ranSome \in BOOLEAN : BindFails(r, k, ranSome)
  BY <1>1, <1>2, <1>6, UnchangedGentle, ExecutedGentle DEF BindFails, Bindable
<1>7. CASE FetchSome(r)
  BY <1>1, <1>2, <1>7, ExecutedGentle DEF FetchSome, Fetchable
<1>8. CASE FetchAll(r)
  BY <1>1, <1>2, <1>8, UnchangedGentle, ExecutedGentle DEF FetchAll, Fetchable
<1>9. CASE \E ranSome \in BOOLEAN : FetchFails(r, ranSome)
  BY <1>1, <1>2, <1>9, UnchangedGentle, ExecutedGentle DEF FetchFails, Fetchable
<1>10. QED
  BY <1>3, <1>4, <1>5, <1>6, <1>7, <1>8, <1>9 DEF UseResult

(* Destroying a result is gentle too; when it ends the session, only the    *)
(* work of an open transaction is lost.                                     *)
LEMMA DestroyGentle ==
    ASSUME IInv, NEW r \in Results, r \in Live, Destroy(r)
    PROVE  /\ transacting \/ Gentle(work, work')
           /\ \A w \in Work : transacting /\ work[w] = "dirty" => work'[w] # "durable"
<1> DEFINE prep == results[r].impl = "prep"
           wk == IF prep THEN AutoCommitted(Flushed(r), work) ELSE work
           last == ~conRef /\ Live = {r} /\ pending = NULL
<1>1. work \in Fates /\ wk \in Fates
  BY AutoCommittedFates DEF IInv, TypeOK
<1>2. transacting => wk = work
  BY <1>1, AutoCommittedGentle
<1>3. Gentle(work, wk)
  BY <1>1, AutoCommittedGentle, UnchangedGentle DEF IInv, TypeOK
<1>4. CASE ~last
  <2>1. work' = wk
    BY <1>4 DEF Destroy
  <2>2. QED BY <1>2, <1>3, <2>1
<1>5. CASE last
  <2>1. work' = IF pConn = "open" THEN Discarded(wk) ELSE wk
    BY <1>5 DEF Destroy, CloseConnection
  <2>2. CASE transacting
    BY <1>1, <1>2, <2>1, <2>2, DiscardedNotDurable
  <2>3. CASE ~transacting
    <3>1. \A w \in Work : wk[w] # "dirty"
      <4>1. CASE NoDirty
        BY <1>1, <4>1, AutoCommittedFates DEF NoDirty, IInv, TypeOK
      <4>2. CASE ~NoDirty
        <5>1. /\ alive /\ pConn = "open"
              /\ pCurrentResult # NULL /\ results[pCurrentResult].open
          BY <2>3, <4>2 DEF IInv, WorkHasOwner
        <5>2. pCurrentResult \in Results /\ results[pCurrentResult].impl = "prep"
          BY <5>1 DEF IInv, TypeOK, HandlesAgree
        <5>3. pCurrentResult = r /\ prep
          BY <1>5, <5>2 DEF Live
        <5>4. Flushed(r) = NULL
          BY <5>1, <5>3 DEF IInv, TypeOK, OnlyCurrentOpen, UnreadOwner, Flushed
        <5>5. QED BY <1>1, <2>3, <5>1, <5>3, <5>4, AutoCommittedFates DEF InSync, IInv, TypeOK
      <4>3. QED BY <4>1, <4>2
    <3>2. work' = wk
      BY <1>1, <2>1, <3>1 DEF Discarded, Fates
    <3>3. QED BY <1>3, <2>3, <3>2
  <2>4. QED BY <2>2, <2>3
<1>6. QED BY <1>4, <1>5

-----------------------------------------------------------------------------
(* The theorems *)

(* Every step preserves the invariant. *)
THEOREM StepIInv == IInv /\ [Next]_vars => IInv'
<1> SUFFICES ASSUME IInv, [Next]_vars PROVE IInv'
  OBVIOUS
<1>1. ASSUME NEW r \in Results, UseResult(r)
      PROVE  IInv'
  BY <1>1, SendQueryIInv, BindCancelledIInv, BindRowsIInv, BindExecuteIInv,
     BindFailsIInv, FetchSomeIInv, FetchAllIInv, FetchFailsIInv, ClearResultIInv,
     DropResultIInv DEF UseResult
<1>2. CASE \E r \in Results : FinalizeResult(r)
  BY <1>2, FinalizeResultIInv
<1>3. CASE Construction
  BY <1>3, WarningUnwindsIInv, CancelPreviousIInv, CancelNothingIInv, QueryFailsIInv,
     PrepareIInv, PrepareAndExecuteIInv, ExecSimpleIInv DEF Construction
<1>4. CASE Begin \/ Commit \/ Rollback
  BY <1>4, BeginIInv, EndIInv
<1>5. CASE Disconnect \/ DropConnection \/ FinalizeConnection \/ SessionLost
  BY <1>5, DisconnectIInv, DropConnectionIInv, FinalizeConnectionIInv, SessionLostIInv
<1>6. CASE UNCHANGED vars
  BY <1>6, StutterIInv
<1>7. QED
  BY <1>1, <1>2, <1>3, <1>4, <1>5, <1>6 DEF Next

(* The invariant holds in every reachable state. *)
THEOREM Invariance == Spec => []IInv
BY InitIInv, StepIInv, PTL DEF Spec

(* Type correctness. *)
THEOREM TypeCorrect == Spec => []TypeOK
<1>1. IInv => TypeOK
  BY DEF IInv
<1>2. QED BY <1>1, Invariance, PTL

(* The raw pointer to the current result never dangles. *)
THEOREM CurrentNeverDangles == Spec => []NoDangling
<1>1. IInv => NoDangling
  BY DEF IInv
<1>2. QED BY <1>1, Invariance, PTL

(* One open statement at most, the current one. *)
THEOREM OneOpenStatement == Spec => []OnlyCurrentOpen
<1>1. IInv => OnlyCurrentOpen
  BY DEF IInv
<1>2. QED BY <1>1, Invariance, PTL

(* Outside transactions and without a result in use all work is committed.  *)
THEOREM QuiescenceCommits == Spec => []QuiescentCommitted
<1>1. IInv => QuiescentCommitted
  BY DEF IInv, TypeOK, WorkHasOwner, HandlesAgree, QuiescentCommitted, Live
<1>2. QED BY <1>1, Invariance, PTL

(* No reference left means no session left. *)
THEOREM ReleaseCloses == Spec => []SessionReleased
<1>1. IInv => SessionReleased
  BY DEF IInv
<1>2. QED BY <1>1, Invariance, PTL

(* Ending a transaction with no result in use decides all of its work. *)
THEOREM EndingDecides == Spec => TransactionEnds
<1>1. IInv /\ [Next]_vars =>
        [transacting /\ ~transacting' /\ pCurrentResult = NULL => NoDirty']_vars
  <2> SUFFICES ASSUME IInv, [Next]_vars, transacting, ~transacting', pCurrentResult = NULL
               PROVE  NoDirty'
    OBVIOUS
  <2>1. Commit \/ Rollback
    <3>1. ASSUME NEW r \in Results, UseResult(r)
          PROVE  transacting' = transacting
      <4>1. (\E s \in Statements, immediate \in BOOLEAN : SendQuery(r, s, immediate))
              => transacting' = transacting
        BY DEF SendQuery
      <4>2. BindCancelled(r) \/ (\E k \in 0..MaxBind : BindRows(r, k) \/ BindExecute(r, k))
              => transacting' = transacting
        BY DEF BindCancelled, BindRows, BindExecute, connVars
      <4>3. (\E k \in 0..MaxBind, ranSome \in BOOLEAN : BindFails(r, k, ranSome))
              => transacting' = transacting
        BY DEF BindFails, connVars
      <4>4. FetchSome(r) \/ FetchAll(r) \/ (\E ranSome \in BOOLEAN : FetchFails(r, ranSome))
              => transacting' = transacting
        BY DEF FetchSome, FetchAll, FetchFails, connVars
      <4>5. ClearResult(r) \/ DropResult(r) => transacting' = transacting
        BY DEF ClearResult, Destroy, DropResult, connVars
      <4>6. QED BY <3>1, <4>1, <4>2, <4>3, <4>4, <4>5 DEF UseResult
    <3>2. (\E r \in Results : FinalizeResult(r)) => transacting' = transacting
      BY DEF FinalizeResult, Destroy
    <3>3. Construction => transacting' = transacting
      BY DEF Construction, WarningUnwinds, CancelPrevious, CancelNothing, QueryFails,
         Prepare, PrepareAndExecute, ExecSimple, Construct, connVars
    <3>4. Disconnect \/ DropConnection \/ FinalizeConnection \/ SessionLost
            => transacting' = transacting
      BY DEF Disconnect, DropConnection, FinalizeConnection, SessionLost, connVars
    <3>5. Begin => transacting' = TRUE
      BY DEF Begin
    <3>6. UNCHANGED vars => transacting' = transacting
      BY DEF vars, connVars
    <3>7. QED BY <3>1, <3>2, <3>3, <3>4, <3>5, <3>6 DEF Next
  <2>2. unread = NULL
    BY NothingUnread
  <2>3. QED BY <2>1, <2>2, EndDecides
<1>2. QED BY <1>1, Invariance, PTL DEF Spec, TransactionEnds

(* Nothing that happens inside a transaction -- clearing, cancelling or      *)
(* collecting results, failing statements -- commits its work, but DDL.     *)
THEOREM TransactionsArePrivate == Spec => TransactionPrivate
<1>1. IInv /\ [Next]_vars =>
        [transacting /\ transacting' =>
         \A w \in Work : work[w] = "dirty" /\ work'[w] = "durable" =>
           \E v \in Work : work[v] = "unused" /\ work'[v] = "durable"]_vars
  <2> SUFFICES ASSUME IInv, Next, transacting, transacting',
                      NEW w \in Work, work[w] = "dirty", work'[w] = "durable"
               PROVE  \E v \in Work : work[v] = "unused" /\ work'[v] = "durable"
    BY DEF Gentle
  <2>1. work \in Fates
    BY DEF IInv, TypeOK
  <2>2. CASE Gentle(work, work')
    BY <2>2 DEF Gentle
  <2>3. CASE \E r \in Results : ClearResult(r) \/ FinalizeResult(r)
    BY <2>3, DestroyGentle DEF IInv, HandlesAgree, ClearResult, FinalizeResult
  <2>4. CASE \E r \in Results : UseResult(r) /\ ~ClearResult(r)
    BY <2>2, <2>4, UseGentle
  <2>5. CASE Construction
    BY <2>2, <2>5, ConstructionGentle
  <2>6. CASE Begin \/ Commit \/ Rollback
    BY <2>6 DEF Begin, Commit, Rollback
  <2>7. CASE Disconnect \/ FinalizeConnection
    BY <2>1, <2>7, DiscardedNotDurable DEF Disconnect, FinalizeConnection, CloseConnection
  <2>8. CASE DropConnection
    BY <2>8 DEF DropConnection
  <2>9. CASE SessionLost
    BY <2>1, <2>9, DiscardedNotDurable DEF SessionLost
  <2>10. QED
    BY <2>3, <2>4, <2>5, <2>6, <2>7, <2>8, <2>9 DEF Next
<1>2. QED BY <1>1, Invariance, PTL DEF Spec, TransactionPrivate

(* Work is lost only inside a transaction, with the session, or when the    *)
(* program disconnects with a result in use: the order in which the          *)
(* collector destroys objects never loses any.                              *)
THEOREM LossIsExplained == Spec => LossExplained
<1>1. IInv /\ [Next]_vars =>
        [(\E w \in Work : work[w] = "dirty" /\ work'[w] = "lost") =>
         \/ transacting
         \/ alive /\ ~alive' /\ pConn' = "open"
         \/ ConnReachable /\ pCurrentResult \in Live /\ pConn' = "null"]_vars
  <2> SUFFICES ASSUME IInv, Next, ~transacting,
                      NEW w \in Work, work[w] = "dirty", work'[w] = "lost"
               PROVE  \/ alive /\ ~alive' /\ pConn' = "open"
                      \/ ConnReachable /\ pCurrentResult \in Live /\ pConn' = "null"
    OBVIOUS
  <2>1. /\ work \in Fates
        /\ alive /\ pConn = "open"
        /\ pCurrentResult \in Results /\ results[pCurrentResult].open
    BY DEF IInv, TypeOK, WorkHasOwner, NoDirty
  <2>2. pCurrentResult \in Live
    BY <2>1 DEF IInv, HandlesAgree, Live
  <2>3. ~Gentle(work, work')
    BY DEF Gentle
  <2>4. CASE \E r \in Results : ClearResult(r) \/ FinalizeResult(r)
    BY <2>3, <2>4, DestroyGentle DEF IInv, HandlesAgree, ClearResult, FinalizeResult
  <2>5. CASE \E r \in Results : UseResult(r) /\ ~ClearResult(r)
    BY <2>3, <2>5, UseGentle
  <2>6. CASE Construction
    BY <2>3, <2>6, ConstructionGentle
  <2>7. CASE Begin \/ Commit \/ Rollback \/ DropConnection
    BY <2>7 DEF Begin, Commit, Rollback, DropConnection
  <2>8. CASE Disconnect
    BY <2>2, <2>8 DEF Disconnect, CanCall, CloseConnection
  <2>9. CASE FinalizeConnection
    BY <2>2, <2>9 DEF FinalizeConnection
  <2>10. CASE SessionLost
    BY <2>1, <2>10 DEF SessionLost, connVars
  <2>11. QED
    BY <2>4, <2>5, <2>6, <2>7, <2>8, <2>9, <2>10 DEF Next
<1>2. QED BY <1>1, Invariance, PTL DEF Spec, LossExplained

(* Rows on the wire belong to an open statement. *)
THEOREM WireHasOwner == Spec => []UnreadOwner
<1>1. IInv => UnreadOwner
  BY DEF IInv
<1>2. QED BY <1>1, Invariance, PTL

-----------------------------------------------------------------------------
(* What finalizers do *)

(* The program has no handle by which to reach the connection. *)
Forgotten == ~ConnReachable /\ pending = NULL
Finalizer == FinalizeConnection \/ \E r \in Results : FinalizeResult(r)

(* As long as the session is open there is an object to finalize. *)
ForgottenMayClose ==
    Forgotten /\ alive =>
        crashed = "no" /\ (conRef \/ \E r \in Live : r \notin held)

(* It stays forgotten, no object comes up, and each finalizer takes one away. *)
ForgottenShrinks ==
    [][Forgotten =>
         /\ Forgotten' /\ Live' \subseteq Live /\ (conRef' => conRef)
         /\ Finalizer => Live' # Live \/ (conRef /\ ~conRef')]_vars

(* A program that has followed a null pointer still had a handle. *)
CrashedInUse == crashed # "no" => held # {} \/ pending # NULL

(* Nothing runs after that, and nothing else leads there. *)
LEMMA CrashedInUseStep == IInv /\ CrashedInUse /\ [Next]_vars => CrashedInUse'
<1> SUFFICES ASSUME IInv, CrashedInUse, [Next]_vars PROVE CrashedInUse'
  OBVIOUS
<1>1. CASE UNCHANGED vars
  BY <1>1 DEF CrashedInUse, vars
<1>2. ASSUME NEW r \in Results, UseResult(r)
      PROVE  crashed = "no" /\ (crashed' = crashed \/ held' # {})
  <2>1. ASSUME NEW s \in Statements, NEW immediate \in BOOLEAN, SendQuery(r, s, immediate)
        PROVE  crashed = "no" /\ crashed' = crashed
    BY <2>1 DEF SendQuery, CanCall, Ready
  <2>2. BindCancelled(r) => crashed = "no" /\ held' # {}
    BY DEF BindCancelled, Ready
  <2>3. ASSUME NEW k \in 0..MaxBind, BindRows(r, k) \/ BindExecute(r, k)
        PROVE  crashed = "no" /\ crashed' = crashed
    BY <2>3 DEF BindRows, BindExecute, Bindable, Ready
  <2>4. ASSUME NEW k \in 0..MaxBind, NEW ranSome \in BOOLEAN, BindFails(r, k, ranSome)
        PROVE  crashed = "no" /\ crashed' = crashed
    BY <2>4 DEF BindFails, Bindable, Ready
  <2>5. FetchSome(r) \/ FetchAll(r) => crashed = "no" /\ crashed' = crashed
    BY DEF FetchSome, FetchAll, Fetchable, Ready
  <2>6. ASSUME NEW ranSome \in BOOLEAN, FetchFails(r, ranSome)
        PROVE  crashed = "no" /\ crashed' = crashed
    BY <2>6 DEF FetchFails, Fetchable, Ready
  <2>7. ClearResult(r) \/ DropResult(r) => crashed = "no" /\ crashed' = crashed
    BY DEF ClearResult, Destroy, DropResult, Ready
  <2>8. QED BY <1>2, <2>1, <2>2, <2>3, <2>4, <2>5, <2>6, <2>7 DEF UseResult
<1>3. ASSUME NEW r \in Results, FinalizeResult(r)
      PROVE  crashed = "no" /\ crashed' = crashed
  BY <1>3 DEF FinalizeResult, Destroy
<1>4. ASSUME Construction
      PROVE  crashed = "no" /\ (crashed' = crashed \/ pending' # NULL)
  <2>1. WarningUnwinds \/ CancelPrevious \/ QueryFails => crashed = "no" /\ crashed' = crashed
    BY DEF WarningUnwinds, CancelPrevious, InWarning, QueryFails, InQuery
  <2>2. CancelNothing => crashed = "no" /\ pending' # NULL
    BY DEF CancelNothing, InWarning
  <2>3. Prepare \/ PrepareAndExecute \/ ExecSimple => crashed = "no" /\ crashed' = crashed
    BY DEF Prepare, PrepareAndExecute, ExecSimple, InQuery, Construct
  <2>4. QED BY <1>4, <2>1, <2>2, <2>3 DEF Construction
<1>5. Begin \/ Commit \/ Rollback \/ Disconnect \/ DropConnection \/ FinalizeConnection \/ SessionLost
        => crashed = "no" /\ crashed' = crashed
  BY DEF Begin, Commit, Rollback, Disconnect, DropConnection, FinalizeConnection, SessionLost,
     CanCall, Ready
<1>6. QED BY <1>1, <1>2, <1>3, <1>4, <1>5 DEF Next, CrashedInUse

(* A connection that the program has forgotten, and whose session is open,   *)
(* has a handle or a result whose finalizer may run now.                     *)
THEOREM ForgottenCanClose == Spec => []ForgottenMayClose
<1>1. Init => CrashedInUse
  BY DEF Init, CrashedInUse
<1>2. IInv /\ CrashedInUse => ForgottenMayClose
  <2> SUFFICES ASSUME IInv, CrashedInUse, Forgotten, alive
               PROVE  crashed = "no" /\ (conRef \/ \E r \in Live : r \notin held)
    BY DEF ForgottenMayClose
  <2>1. held = {} /\ pending = NULL
    BY DEF Forgotten, ConnReachable
  <2>2. conRef \/ Live # {}
    BY <2>1 DEF IInv, SessionReleased
  <2>3. QED BY <2>1, <2>2 DEF CrashedInUse
<1>3. QED BY <1>1, <1>2, CrashedInUseStep, Invariance, PTL DEF Spec

(* Nothing revives a forgotten connection, and every finalizer that runs      *)
(* leaves fewer objects: after as many as there are, its session is closed.  *)
THEOREM FinalizersShrink == Spec => ForgottenShrinks
<1>1. ASSUME IInv, Next, Forgotten
      PROVE  /\ Forgotten' /\ Live' \subseteq Live /\ (conRef' => conRef)
             /\ Finalizer => Live' # Live \/ (conRef /\ ~conRef')
  <2>0. held = {} /\ ~connHeld /\ pending = NULL
    BY <1>1 DEF Forgotten, ConnReachable
  <2>1. Finalizer \/ SessionLost
    BY <1>1, <2>0 DEF Next, UseResult, Construction, SendQuery, BindCancelled, BindRows, BindExecute,
       Bindable, BindFails, FetchSome, FetchAll, FetchFails, Fetchable, ClearResult, DropResult,
       WarningUnwinds, CancelPrevious, CancelNothing, InWarning, InQuery, QueryFails, Prepare,
       PrepareAndExecute, ExecSimple, Begin, Commit, Rollback, Disconnect, DropConnection,
       CanCall, ConnReachable, Finalizer
  <2>2. CASE FinalizeConnection
    <3>1. conRef /\ ~conRef' /\ UNCHANGED <<results, held, connHeld, pending>>
      BY <2>2 DEF FinalizeConnection
    <3>2. QED BY <2>0, <3>1 DEF Forgotten, ConnReachable, Live
  <2>3. ASSUME NEW r \in Results, FinalizeResult(r)
        PROVE  /\ Forgotten' /\ Live' \subseteq Live /\ (conRef' => conRef)
               /\ Live' # Live
    <3>1. /\ r \in Live /\ UNCHANGED <<held, connHeld, pending, conRef>>
          /\ results' = [results EXCEPT ![r] = Freed]
      BY <2>3 DEF FinalizeResult, Destroy
    <3>2. r \notin Live' /\ Live' \subseteq Live
      BY <1>1, <3>1 DEF Live, Freed, IInv, TypeOK
    <3>3. QED BY <2>0, <3>1, <3>2 DEF Forgotten, ConnReachable
  <2>4. CASE SessionLost /\ ~Finalizer
    <3>1. UNCHANGED <<results, held, connHeld, pending, conRef>>
      BY <2>4 DEF SessionLost, connVars
    <3>2. QED BY <2>0, <2>4, <3>1 DEF Forgotten, ConnReachable, Live
  <2>5. QED BY <2>1, <2>2, <2>3, <2>4 DEF Finalizer
<1>2. IInv /\ [Next]_vars =>
        [Forgotten =>
           /\ Forgotten' /\ Live' \subseteq Live /\ (conRef' => conRef)
           /\ Finalizer => Live' # Live \/ (conRef /\ ~conRef')]_vars
  BY <1>1
<1>3. QED BY <1>2, Invariance, PTL DEF Spec, ForgottenShrinks

=============================================================================
