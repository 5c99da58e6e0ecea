----------------------------- MODULE TableWrite -----------------------------
(***************************************************************************)
(* One call of dbWriteTable() or dbAppendTable(): the statements it sends,  *)
(* the transaction it opens, and what is left behind when one of them       *)
(* fails.                                                                   *)
(*                                                                          *)
(* The table name may denote a permanent table, a temporary table of the    *)
(* session, or both (the temporary one hides the other).  DDL on permanent  *)
(* tables commits implicitly.  Between two statements other sessions may    *)
(* create, fill and drop the permanent table, unless the open transaction   *)
(* has used it (metadata lock).  Every statement is sent by dbExecute() or  *)
(* dbGetQuery(), which clear their result: module Connection says that this *)
(* commits outside a transaction.                                           *)
(***************************************************************************)
EXTENDS Integers, FiniteSets

CONSTANTS
    Calls,    \* the calls programs make: a subset of Call
    N,        \* number of rows of the data, when it has any
    Faults,   \* may a statement fail on the server?
    Peers     \* are there other sessions?

Call == [fun : {"write",    \* dbWriteTable() of a data frame
                "file",     \* dbWriteTable() of a file
                "append"},  \* dbAppendTable()
         temporary : BOOLEAN, overwrite : BOOLEAN, append : BOOLEAN,
         load : BOOLEAN,    \* load_data_local_infile of the connection
         safe : BOOLEAN,    \* argument of dbAppendTable()
         repeatable : BOOLEAN, \* isolation: reads in a transaction are repeatable
         n : {0, N}]        \* rows of the data

ASSUME CallAssumption == N \in Nat \ {0} /\ Calls \subseteq Call
ASSUME FlagAssumption == Faults \in BOOLEAN /\ Peers \in BOOLEAN

VARIABLES
    call,         \* the call the program makes
    pc,           \* the next statement of the call; "idle", "done"
    found,
    own,          \* the call has opened the transaction (need_transaction)
    before,       \* count_before
    out,          \* number of rows the server has added, as the call knows it
    transacting,  \* DbConnection::transacting_
    db,           \* what the session sees of the server, see Database
    clash,        \* rows of the data whose key is taken in a keyed table
    created,      \* history: the table the call has created, or "none"
    outcome,      \* "none", "ok", "error"
    userEnd       \* "none", or how the user has ended the own transaction

vars == <<call, pc, found, own, before, out, transacting, db, clash, created,
          outcome, userEnd>>

-----------------------------------------------------------------------------
(* The server (external) *)

Tables == {"perm", "temp"}
Data(n) == 1..n

(* rows: the rows of the data; others: "old" was there before the call,      *)
(* "theirs" came with a table that another session has created, "peer" was  *)
(* added by another session; uncommitted: the rows of the open transaction; *)
(* user: the fate of what the user has done in it before; locked: it has    *)
(* used the permanent table.                                                *)
Database == [shape : [Tables -> {"none", "plain", "keyed"}],
             rows : [Tables -> SUBSET Data(N)],
             others : [Tables -> SUBSET {"old", "theirs", "peer"}],
             uncommitted : [Tables -> SUBSET Data(N)],
             user : {"none", "pending", "durable", "undone"},
             locked : BOOLEAN]

Nothing == [t \in Tables |-> {}]

Named(d) == IF d.shape["temp"] # "none" THEN "temp" ELSE "perm"
Exists(d) == d.shape[Named(d)] # "none"

Committed(d) ==
    [d EXCEPT !.uncommitted = Nothing, !.locked = FALSE,
              !.user = IF @ = "pending" THEN "durable" ELSE @]

RolledBack(d) ==
    [d EXCEPT !.rows = [t \in Tables |-> @[t] \ d.uncommitted[t]],
              !.uncommitted = Nothing, !.locked = FALSE,
              !.user = IF @ = "pending" THEN "undone" ELSE @]

(* What a COMMIT may leave: when it is refused the server rolls back, and    *)
(* DbConnection does not look at the result of mysql_commit().              *)
Commits(d) == {Committed(d)} \cup (IF Faults THEN {RolledBack(d)} ELSE {})

(* Variant: autocommit() does not ask is_transacting(). *)
AutocommitsAlways(d) == Commits(d)

(* DbConnection::autocommit() when the result of a statement is cleared. *)
Autocommits(d) == IF transacting THEN {d} ELSE Commits(d)

(* DDL commits first, unless it says TEMPORARY. *)
BeforeDDL(temporary, d) == IF temporary THEN d ELSE Committed(d)

Dropped(d, t) == [d EXCEPT !.shape[t] = "none", !.rows[t] = {},
                           !.others[t] = {}, !.uncommitted[t] = {}]
Created(d, t) == [d EXCEPT !.shape[t] = "plain"]

Touched(d) == [d EXCEPT !.locked = @ \/ Named(d) = "perm"]

Inserted(d, rs) ==
    LET t == Named(d) IN
    [Touched(d) EXCEPT !.rows[t] = @ \cup rs, !.uncommitted[t] = @ \cup rs]

Clashing(d) == IF d.shape[Named(d)] = "keyed" THEN clash \cap Data(call.n) ELSE {}

-----------------------------------------------------------------------------
(* Ends of the call *)

(* An error unwinds: on.exit() rolls back the transaction of the call; the  *)
(* statement that failed leaves d.                                          *)
StopWith(d) ==
    /\ pc' = "done"
    /\ outcome' = "error"
    /\ db' \in IF own THEN {RolledBack(d)} ELSE Autocommits(d)
    /\ transacting' = (transacting /\ ~own)

Return ==
    /\ pc' = "done"
    /\ outcome' = "ok"

Goto(step) == pc' = step /\ UNCHANGED outcome

(* db_append_table() counts: dbWriteTable() of a data frame always asks for it. *)
Safe == call.fun = "write" \/ (call.fun = "append" /\ call.safe)

(* The step that follows the creation of the table. *)
Fill == CASE call.fun = "file" -> "load"
          [] call.fun # "file" /\ call.n = 0 -> "commit"
          [] OTHER -> IF call.load THEN "count" ELSE "insert"

-----------------------------------------------------------------------------
(* The user: may open a transaction, work in it, make the call, and end it. *)

UserBegin ==
    /\ pc = "idle"
    /\ ~transacting
    /\ transacting' = TRUE
    /\ UNCHANGED <<call, pc, found, own, before, out, db, clash, created, outcome,
                   userEnd>>

UserWork ==
    /\ pc = "idle"
    /\ transacting
    /\ db.user = "none"
    /\ db' = [db EXCEPT !.user = "pending"]
    /\ UNCHANGED <<call, pc, found, own, before, out, transacting, clash, created,
                   outcome, userEnd>>

UserEnds(how) ==
    /\ pc = "done"
    /\ transacting
    /\ transacting' = FALSE
    /\ userEnd' = how
    /\ db' \in IF how = "rollback" THEN {RolledBack(db)} ELSE Commits(db)
    /\ UNCHANGED <<call, pc, found, own, before, out, clash, created, outcome>>

-----------------------------------------------------------------------------
(* dbWriteTable() *)

(* Variant: dbWriteTable() does not open a transaction. *)
BeginWriteWithout ==
    /\ pc = "idle"
    /\ call.fun \in {"write", "file"}
    /\ ~(call.overwrite /\ call.append)
    /\ pc' = IF call.fun = "write" /\ call.temporary THEN "remove" ELSE "exists"
    /\ UNCHANGED <<call, own, before, transacting, found, out, db, clash, created,
                   outcome, userEnd>>

(* overwrite and append together are refused; a data frame is written in a  *)
(* transaction.  dbExistsTable() is not asked about a temporary table.      *)
BeginWrite ==
    /\ pc = "idle"
    /\ call.fun \in {"write", "file"}
    /\ ~(call.overwrite /\ call.append)
    /\ own' = (call.fun = "write" /\ ~transacting)
    /\ transacting' = (transacting \/ own')
    /\ pc' = IF call.fun = "write" /\ call.temporary THEN "remove" ELSE "exists"
    /\ UNCHANGED <<call, found, before, out, db, clash, created, outcome, userEnd>>

RefuseArguments ==
    /\ pc = "idle"
    /\ call.fun \in {"write", "file"}
    /\ call.overwrite /\ call.append
    /\ StopWith(db)
    /\ UNCHANGED <<call, found, own, before, out, clash, created, userEnd>>

(* dbExistsTable() selects from the name, and takes any error for FALSE.    *)
AskExists ==
    /\ pc = "exists"
    /\ found' \in {Exists(db)} \cup (IF Faults THEN {FALSE} ELSE {})
    /\ LET refused == \/ found' /\ ~call.overwrite /\ ~call.append
                      \/ call.fun = "file" /\ ~found' /\ call.append
       IN \E d \in Autocommits(IF found' THEN Touched(db) ELSE db) :
            IF refused THEN StopWith(d)
            ELSE db' = d /\ Goto("remove") /\ UNCHANGED transacting
    /\ UNCHANGED <<call, own, before, out, clash, created, userEnd>>

(* A data frame's table is dropped IF EXISTS, and as TEMPORARY if that is    *)
(* what is written; a file's, if it was found, never as TEMPORARY.          *)
DropsTemporary == call.fun = "write" /\ call.temporary
Removes == call.overwrite /\ (call.fun = "file" => found)

(* Variant: dbRemoveTable() is not told that the table is temporary. *)
RemoveAnyTable ==
    LET d == Committed(db) IN
    /\ pc = "remove"
    /\ Removes
    /\ db' \in Autocommits(IF Exists(d) THEN Dropped(d, Named(d)) ELSE d)
    /\ Goto("create")
    /\ UNCHANGED <<call, found, own, before, out, transacting, clash, created, userEnd>>

Remove ==
    LET d == BeforeDDL(DropsTemporary, db)
        t == IF DropsTemporary THEN "temp" ELSE Named(d)
    IN
    /\ pc = "remove"
    /\ Removes
    /\ IF call.fun = "file" /\ d.shape[t] = "none"
       THEN StopWith(d)
       ELSE /\ db' \in Autocommits(Dropped(d, t))
            /\ Goto("create")
            /\ UNCHANGED transacting
    /\ UNCHANGED <<call, found, own, before, out, clash, created, userEnd>>

RemoveNothing ==
    /\ pc = "remove"
    /\ ~Removes
    /\ Goto("create")
    /\ UNCHANGED <<call, found, own, before, out, transacting, db, clash, created,
                   userEnd>>

Creates == (call.fun = "write" /\ call.temporary) \/ ~found \/ call.overwrite

(* Variant: CREATE TABLE IF NOT EXISTS. *)
CreateIfMissing ==
    LET t == IF call.temporary THEN "temp" ELSE "perm"
        d == BeforeDDL(call.temporary, db)
    IN
    /\ pc = "create"
    /\ Creates
    /\ db' \in Autocommits(IF d.shape[t] = "none" THEN Created(d, t) ELSE d)
    /\ created' = t
    /\ Goto(Fill)
    /\ UNCHANGED <<call, found, own, before, out, transacting, clash, userEnd>>

Create ==
    LET t == IF call.temporary THEN "temp" ELSE "perm"
        d == BeforeDDL(call.temporary, db)
    IN
    /\ pc = "create"
    /\ Creates
    /\ IF d.shape[t] # "none"
       THEN StopWith(d) /\ UNCHANGED created
       ELSE /\ db' \in Autocommits(Created(d, t))
            /\ created' = t
            /\ Goto(Fill)
            /\ UNCHANGED transacting
    /\ UNCHANGED <<call, found, own, before, out, clash, userEnd>>

CreateNothing ==
    /\ pc = "create"
    /\ ~Creates
    /\ Goto(Fill)
    /\ UNCHANGED <<call, found, own, before, out, transacting, db, clash, created,
                   userEnd>>

-----------------------------------------------------------------------------
(* Adding the rows *)

(* dbAppendTable(): with LOAD DATA it opens a transaction, unless it is told *)
(* not to; inside another one that is an error.                             *)
BeginAppend ==
    LET begins == call.load /\ call.safe IN
    /\ pc = "idle"
    /\ call.fun = "append"
    /\ IF begins /\ transacting
       THEN StopWith(db) /\ UNCHANGED own
       ELSE /\ own' = begins
            /\ transacting' = (transacting \/ begins)
            /\ pc' = CASE begins -> "count"
                       [] call.load /\ ~begins -> "load"
                       [] OTHER -> "insert"
            /\ UNCHANGED <<db, outcome>>
    /\ UNCHANGED <<call, found, before, out, clash, created, userEnd>>

(* An INSERT bound to all rows (MariaResultPrep::bind): it runs row by row  *)
(* and stops at the first that is refused.                                  *)
Insert ==
    LET bad == Clashing(db)
        first == IF bad = {} THEN Data(call.n)
                 ELSE {k \in Data(call.n) : \A b \in bad : k < b}
    IN
    /\ pc = "insert"
    /\ CASE ~Exists(db) -> StopWith(db) /\ UNCHANGED out
         [] Exists(db) /\ bad # {} -> StopWith(Inserted(db, first)) /\ UNCHANGED out
         [] OTHER -> /\ db' \in Autocommits(Inserted(db, first))
                     /\ out' = call.n
                     /\ Goto("commit")
                     /\ UNCHANGED transacting
    /\ UNCHANGED <<call, found, own, before, clash, created, userEnd>>

Counted(d) ==
    LET t == Named(d) IN Cardinality(d.rows[t]) + Cardinality(d.others[t])

(* SELECT COUNT of the rows that are there. *)
CountBefore ==
    /\ pc = "count"
    /\ IF ~Exists(db)
       THEN StopWith(db) /\ UNCHANGED before
       ELSE /\ db' \in Autocommits(Touched(db))
            /\ before' = Counted(db)
            /\ Goto("load")
            /\ UNCHANGED transacting
    /\ UNCHANGED <<call, found, own, out, clash, created, userEnd>>

(* LOAD DATA LOCAL skips rows that are refused; some servers do not say how *)
(* many were added.                                                         *)
LoadData ==
    LET rs == Data(call.n) \ Clashing(db) IN
    /\ pc = "load"
    /\ IF ~Exists(db)
       THEN StopWith(db) /\ UNCHANGED out
       ELSE /\ db' \in Autocommits(Inserted(db, rs))
            /\ out' \in {0, Cardinality(rs)}
            /\ IF ~Safe THEN Return
               ELSE Goto(IF out' = 0 THEN "recount" ELSE "check")
            /\ UNCHANGED transacting
    /\ UNCHANGED <<call, found, own, before, clash, created, userEnd>>

(* A repeatable read shows nothing new but what the transaction has done. *)
CountedAgain ==
    IF call.repeatable THEN before + Cardinality(db.uncommitted[Named(db)]) ELSE Counted(db)

(* Variant: all rows of the table are taken for new ones. *)
CountAfterOnly ==
    /\ pc = "recount"
    /\ db' \in Autocommits(Touched(db))
    /\ out' = CountedAgain
    /\ Goto("check")
    /\ UNCHANGED <<call, found, own, before, transacting, clash, created, userEnd>>

(* When the server says 0, the rows are counted again; outside a repeatable *)
(* read, those that other sessions have added meanwhile with them.          *)
CountAfter ==
    /\ pc = "recount"
    /\ db' \in Autocommits(Touched(db))
    /\ out' = CountedAgain - before
    /\ Goto("check")
    /\ UNCHANGED <<call, found, own, before, transacting, clash, created, userEnd>>

(* Variant: only a load that has added nothing is an error. *)
CheckNothingAdded ==
    /\ pc = "check"
    /\ IF own /\ out = 0 /\ call.n > 0
       THEN StopWith(db)
       ELSE Goto("commit") /\ UNCHANGED <<db, transacting>>
    /\ UNCHANGED <<call, found, own, before, out, clash, created, userEnd>>

(* The rows are counted; inside a transaction of the user it is only a      *)
(* warning when some are missing.                                           *)
Check ==
    /\ pc = "check"
    /\ IF own /\ out < call.n
       THEN StopWith(db)
       ELSE Goto("commit") /\ UNCHANGED <<db, transacting>>
    /\ UNCHANGED <<call, found, own, before, out, clash, created, userEnd>>

(* Variant: the transaction is committed whoever has opened it. *)
FinishAlways ==
    /\ pc = "commit"
    /\ db' \in Commits(db)
    /\ transacting' = FALSE
    /\ Return
    /\ UNCHANGED <<call, found, own, before, out, clash, created, userEnd>>

(* dbCommit() of the call's own transaction: that it has failed goes unsaid. *)
Finish ==
    /\ pc = "commit"
    /\ db' \in IF own THEN Commits(db) ELSE {db}
    /\ transacting' = (transacting /\ ~own)
    /\ Return
    /\ UNCHANGED <<call, found, own, before, out, clash, created, userEnd>>

-----------------------------------------------------------------------------
(* Failures, other sessions *)

(* DROP or CREATE is refused (it has committed all the same), the columns   *)
(* of the new table cannot be made up (field.types, read.table), an INSERT  *)
(* fails after some rows, a LOAD DATA as a whole, or a count.               *)
StatementFails ==
    /\ Faults
    /\ \/ pc = "remove" /\ Removes /\ StopWith(BeforeDDL(DropsTemporary, db))
       \/ pc = "create" /\ Creates /\ StopWith(BeforeDDL(call.temporary, db))
       \/ pc = "create" /\ Creates /\ StopWith(db)
       \/ /\ pc = "insert"
          /\ Exists(db)
          /\ \E k \in 0..call.n :
               /\ Data(k) \cap Clashing(db) = {}
               /\ StopWith(Inserted(db, Data(k)))
       \/ pc \in {"count", "load", "recount"} /\ StopWith(db)
    /\ UNCHANGED <<call, found, own, before, out, clash, created, userEnd>>

PeerCreates(shape) ==
    /\ Peers
    /\ db.shape["perm"] = "none"
    /\ db' = [db EXCEPT !.shape["perm"] = shape, !.others["perm"] = {"theirs"}]
    /\ UNCHANGED <<call, pc, found, own, before, out, transacting, clash, created,
                   outcome, userEnd>>

PeerInserts ==
    /\ Peers
    /\ db.shape["perm"] # "none"
    /\ db' = [db EXCEPT !.others["perm"] = @ \cup {"peer"}]
    /\ UNCHANGED <<call, pc, found, own, before, out, transacting, clash, created,
                   outcome, userEnd>>

PeerDrops ==
    /\ Peers
    /\ db.shape["perm"] # "none"
    /\ ~db.locked
    /\ db' = Dropped(db, "perm")
    /\ created' = IF created = "perm" THEN "none" ELSE created
    /\ UNCHANGED <<call, pc, found, own, before, out, transacting, clash, outcome,
                   userEnd>>

-----------------------------------------------------------------------------
Init ==
    /\ call \in Calls
    /\ pc = "idle"
    /\ found = FALSE
    /\ own = FALSE
    /\ before = 0
    /\ out = 0
    /\ transacting = FALSE
    /\ \E shape \in [Tables -> {"none", "plain", "keyed"}] :
         db = [shape |-> shape,
               rows |-> Nothing,
               others |-> [t \in Tables |-> IF shape[t] = "none" THEN {} ELSE {"old"}],
               uncommitted |-> Nothing, user |-> "none", locked |-> FALSE]
    /\ clash \in SUBSET Data(N)
    /\ created = "none"
    /\ outcome = "none"
    /\ userEnd = "none"

User ==
    \/ UserBegin
    \/ UserWork
    \/ \E how \in {"commit", "rollback"} : UserEnds(how)

Begin == BeginWrite \/ RefuseArguments \/ BeginAppend

Statement ==
    \/ AskExists
    \/ Remove \/ RemoveNothing
    \/ Create \/ CreateNothing
    \/ Insert \/ CountBefore \/ LoadData \/ CountAfter
    \/ Check \/ Finish
    \/ StatementFails

Peer ==
    \/ \E shape \in {"plain", "keyed"} : PeerCreates(shape)
    \/ PeerInserts
    \/ PeerDrops

Next == User \/ Begin \/ Statement \/ Peer

Spec == Init /\ [][Next]_vars

-----------------------------------------------------------------------------
(* Properties *)

(* Every variable has its type; only the call's own rows are uncommitted,   *)
(* and they are among the rows of a table that exists; the number of rows   *)
(* added is in range, if reads are repeatable.                              *)
TypeOK ==
    /\ call \in Calls
    /\ pc \in {"idle", "exists", "remove", "create", "insert", "count", "load",
               "recount", "check", "commit", "done"}
    /\ {found, own, transacting} \subseteq BOOLEAN
    /\ before \in Nat
    /\ out \in Int /\ (call.repeatable => out \in 0..N)
    /\ db \in Database
    /\ \A t \in Tables : /\ db.uncommitted[t] \subseteq db.rows[t]
                         /\ db.shape[t] = "none" => db.rows[t] = {} /\ db.others[t] = {}
    /\ clash \subseteq Data(N)
    /\ created \in Tables \cup {"none"}
    /\ outcome \in {"none", "ok", "error"}
    /\ userEnd \in {"none", "commit", "rollback"}

(* dbWriteTable() of a data frame outside a transaction, and the safe       *)
(* dbAppendTable(), are all or nothing as far as rows go: when they fail,   *)
(* none of the data is left in any table, whatever DDL has committed in     *)
(* between and wherever the error came from.                                *)
NoHalfWrite ==
    /\ outcome = "error"
    /\ \/ call.fun = "write" /\ userEnd = "none" /\ ~transacting
       \/ call.fun = "append" /\ call.load /\ call.safe
    => \A t \in Tables : db.rows[t] = {}

(* ... and when they succeed, every row of the data is in the table that    *)
(* the name denotes when COMMIT is sent, even if other sessions were at     *)
(* work, rows were skipped or the server has not counted them.  Nobody asks *)
(* whether that COMMIT went well: success may mean that all rows are lost,  *)
(* but never a part of them.  (Reads have to be repeatable: the rows of     *)
(* others would be counted as the call's.)                                  *)
SuccessIsWhole ==
    [][pc # "done" /\ pc' = "done" /\ outcome' = "ok" /\ own /\ call.repeatable =>
         /\ Data(call.n) \subseteq db.rows[Named(db)]
         /\ \/ Data(call.n) \subseteq db'.rows[Named(db')] \ db'.uncommitted[Named(db')]
            \/ Faults /\ \A t \in Tables : db'.rows[t] = {}]_vars

(* The check of dbExistsTable() may be stale or wrong when the table is      *)
(* created; a table that the call has created still never holds the rows of *)
(* a table that was there before.                                           *)
CreatedIsNew ==
    created # "none" => db.others[created] \cap {"old", "theirs"} = {}

(* Writing a temporary data frame leaves a permanent table of that name     *)
(* alone.                                                                   *)
TemporaryLeavesPermanent ==
    [][call.fun = "write" /\ call.temporary /\ pc \notin {"idle", "done"} /\ pc' # pc =>
         /\ db'.shape["perm"] = db.shape["perm"]
         /\ db'.rows["perm"] = db.rows["perm"]
         /\ db'.others["perm"] = db.others["perm"]]_vars

(* A call inside a transaction of the user neither ends the transaction nor *)
(* commits what the user has done in it, unless it drops or creates a       *)
(* permanent table.                                                         *)
UserTransactionKept ==
    /\ pc = "done"
    /\ userEnd = "none"
    /\ db.user = "durable"
    => call.fun # "append" /\ ~(call.fun = "write" /\ call.temporary)
       /\ (call.overwrite \/ ~found)

(* dbRollback() by the user takes back the rows of a call made in the       *)
(* user's transaction, however the call ended and whatever it has created.  *)
UserRollbackTakesBack ==
    userEnd = "rollback" => \A t \in Tables : db.rows[t] = {}

=============================================================================
