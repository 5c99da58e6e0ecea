------------------------------ MODULE Reconnect ------------------------------
(***************************************************************************)
(* Work done through a connection whose session the server may end, with   *)
(* and without dbConnect(reconnect = TRUE).  With it, the client library   *)
(* opens another session by itself when a command finds the old one gone,  *)
(* unless it knows of an open transaction.  Nothing tells DbConnection.    *)
(*                                                                          *)
(* Module Connect has the session and its settings, this one the work done *)
(* in it, in units; a statement and the clearing of its result are apart,  *)
(* since the session may go away between them.                             *)
(***************************************************************************)
EXTENDS Connect

CONSTANTS
    Work,         \* units of work, each done at most once (bounds the statements)
    Reconnects    \* values of reconnect that programs pass

ASSUME WorkAssumption == Reconnects \subseteq BOOLEAN /\ NULL \notin Work

VARIABLES
    reconnect,    \* MYSQL_OPT_RECONNECT
    transacting,  \* DbConnection::transacting_
    result,       \* the unit whose result has not been cleared, or NULL
    in_trans,     \* client library: the last status said SERVER_STATUS_IN_TRANS
    fate,         \* what the server has made of every unit
    deed,         \* history: was it done alone or in a transaction, how ended?
    reopened,     \* history: since dbConnect() has returned the connection, the
                  \* client has opened a session for it by itself
    adrift,       \* history: units done while that is so
    bereft,       \* history: units not committed when their session was lost
    interrupted   \* history: a session was lost during transaction(s): the
                  \* current one ("now"), an earlier one ("before"), or "never"

history == <<reopened, adrift, bereft, interrupted>>
workVars == <<transacting, result, in_trans, fate, deed, history>>
vars == <<connectVars, reconnect, workVars>>

Committed(f) == [w \in Work |-> IF f[w] = "dirty" THEN "durable" ELSE f[w]]
Discarded(f) == [w \in Work |-> IF f[w] = "dirty" THEN "lost" ELSE f[w]]

Current == {w \in Work : deed[w] = "open"}

(* The transaction is over for the program. *)
Settled(how) == [w \in Work |-> IF deed[w] = "open" THEN how ELSE deed[w]]

-----------------------------------------------------------------------------
(* The client library and the server (external) *)

(* The session ends, and what it has not committed is undone.  The client   *)
(* finds out at the next command.                                           *)
LoseSession ==
    /\ SessionLost
    /\ fate' = Discarded(fate)
    /\ bereft' = bereft \cup {w \in Work : fate[w] = "dirty"}
    /\ interrupted' = IF transacting THEN "now" ELSE interrupted
    /\ UNCHANGED <<reconnect, transacting, result, in_trans, deed, reopened, adrift>>

(* The first half of a command that finds the session gone: a new session,  *)
(* with the settings of the server.                                         *)
Reopen ==
    /\ step \in {"guarded", "zoned", "checked", "ready"}
    /\ session = NULL
    /\ reconnect /\ ~in_trans
    /\ \E tz \in DefaultZones : session' = [autocommit |-> TRUE, time_zone |-> tz]
    /\ reopened' = (reopened \/ step = "ready")
    /\ UNCHANGED <<step, args, conn, warned, orphan, reconnect, transacting, result,
                   in_trans, fate, deed, adrift, bereft, interrupted>>

(* A command on a lost session fails, and the client may forget about the   *)
(* transaction then ("allow reconnect next time").                          *)
Forgets == in_trans' \in (IF session = NULL THEN {in_trans, FALSE} ELSE {in_trans})

(* COMMIT or ROLLBACK, of which DbConnection does not ask whether it has    *)
(* gone well.                                                               *)
EndOnServer(after) ==
    IF session = NULL
    THEN Forgets /\ UNCHANGED fate
    ELSE in_trans' = FALSE /\ fate' = after

-----------------------------------------------------------------------------
(* The program *)

Connected == step = "ready"

(* dbSendStatement() of a statement that writes; without autocommit it      *)
(* begins a transaction on the server.                                      *)
Execute(w) ==
    /\ Connected /\ session # NULL
    /\ result = NULL /\ fate[w] = "unused"
    /\ result' = w
    /\ fate' = [fate EXCEPT ![w] = IF session.autocommit THEN "durable" ELSE "dirty"]
    /\ in_trans' = ~session.autocommit
    /\ deed' = [deed EXCEPT ![w] = IF transacting THEN "open" ELSE "alone"]
    /\ adrift' = IF reopened THEN adrift \cup {w} ELSE adrift
    /\ UNCHANGED <<connectVars, reconnect, transacting, reopened, bereft, interrupted>>

(* The session is gone: an error, after which the client may reconnect.     *)
ExecuteFails ==
    /\ Connected /\ session = NULL
    /\ Forgets
    /\ UNCHANGED <<connectVars, reconnect, transacting, result, fate, deed, history>>

(* Mutant: autocommit() does not ask is_transacting(). *)
ClearCommitsAlways ==
    /\ Connected /\ result # NULL
    /\ result' = NULL
    /\ EndOnServer(Committed(fate))
    /\ UNCHANGED <<connectVars, reconnect, transacting, deed, history>>

(* Mutant: autocommit() ends the transaction of the program, too. *)
ClearEndsTransaction ==
    /\ Connected /\ result # NULL
    /\ result' = NULL
    /\ transacting' = FALSE
    /\ EndOnServer(Committed(fate))
    /\ UNCHANGED <<connectVars, reconnect, deed, history>>

(* dbClearResult(): close() closes the statement and calls autocommit().    *)
Clear ==
    /\ Connected /\ result # NULL
    /\ result' = NULL
    /\ IF transacting THEN Forgets /\ UNCHANGED fate ELSE EndOnServer(Committed(fate))
    /\ UNCHANGED <<connectVars, reconnect, transacting, deed, history>>

(* dbBegin() sends nothing. *)
Begin ==
    /\ Connected /\ ~transacting
    /\ transacting' = TRUE
    /\ interrupted' = IF interrupted = "now" THEN "before" ELSE interrupted
    /\ UNCHANGED <<connectVars, reconnect, result, in_trans, fate, deed, reopened, adrift,
                   bereft>>

Commit ==
    /\ Connected /\ transacting
    /\ transacting' = FALSE
    /\ EndOnServer(Committed(fate))
    /\ deed' = Settled("commit")
    /\ UNCHANGED <<connectVars, reconnect, result, history>>

(* Mutant: dbRollback() only takes the flag back. *)
RollbackFlagOnly ==
    /\ Connected /\ transacting
    /\ transacting' = FALSE
    /\ deed' = Settled("rollback")
    /\ UNCHANGED <<connectVars, reconnect, result, in_trans, fate, history>>

Rollback ==
    /\ Connected /\ transacting
    /\ transacting' = FALSE
    /\ EndOnServer(Discarded(fate))
    /\ deed' = Settled("rollback")
    /\ UNCHANGED <<connectVars, reconnect, result, history>>

(* dbDisconnect(); another dbConnect() makes another DbConnection. *)
Close ==
    /\ Disconnect
    /\ transacting' = FALSE /\ in_trans' = FALSE /\ result' = NULL
    /\ fate' = Discarded(fate)
    /\ deed' = Settled("gone")
    /\ reopened' = FALSE
    /\ UNCHANGED <<reconnect, adrift, bereft, interrupted>>

-----------------------------------------------------------------------------
Init ==
    /\ ConnectInit
    /\ reconnect \in Reconnects
    /\ transacting = FALSE /\ result = NULL /\ in_trans = FALSE
    /\ fate = [w \in Work |-> "unused"] /\ deed = [w \in Work |-> "none"]
    /\ reopened = FALSE /\ adrift = {} /\ bereft = {} /\ interrupted = "never"

Next ==
    \/ Connecting /\ UNCHANGED <<reconnect, workVars>>
    \/ LoseSession \/ Reopen
    \/ \E w \in Work : Execute(w)
    \/ ExecuteFails \/ Clear
    \/ Begin \/ Commit \/ Rollback \/ Close

Spec == Init /\ [][Next]_vars

-----------------------------------------------------------------------------
(* Properties *)

(* Every variable has its type; a unit that was done in a transaction is     *)
(* settled when the program ends it.                                        *)
TypeOK ==
    /\ ConnectTypeOK
    /\ reconnect \in Reconnects
    /\ {transacting, in_trans, reopened} \subseteq BOOLEAN
    /\ result \in Work \cup {NULL}
    /\ fate \in [Work -> {"unused", "dirty", "durable", "lost"}]
    /\ deed \in [Work -> {"none", "alone", "open", "commit", "rollback", "gone"}]
    /\ adrift \subseteq Work /\ bereft \subseteq Work
    /\ interrupted \in {"never", "now", "before"}
    /\ Current # {} => transacting

(* dbRollback() undoes its transaction and dbCommit() keeps it, whenever     *)
(* sessions are lost and reopened, with two exceptions.  What was done after *)
(* the client had reopened the session by itself stays, rolled back or not;  *)
(* and what a lost session had not committed is gone, even if dbCommit()     *)
(* returned.                                                                *)
EndingsExplained ==
    \A w \in Work :
      /\ deed[w] = "rollback" /\ fate[w] # "lost" => reconnect /\ w \in adrift
      /\ deed[w] = "commit" /\ fate[w] # "durable" => w \in bereft

(* All units of a transaction share one fate when the program ends it,      *)
(* whatever sessions were lost; with reconnect = TRUE, unless the session   *)
(* was lost in that very transaction.                                       *)
EndIsAtomic ==
    [][transacting /\ ~transacting' /\ ~(reconnect /\ interrupted = "now") =>
         \A v, w \in Current : fate'[v] = fate'[w]]_vars

=============================================================================
