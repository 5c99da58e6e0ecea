---------------------------- MODULE MCConnection ----------------------------
(* Small instances of Connection for TLC. *)
EXTENDS Connection, TLC

(* SELECT without parameters, INSERT with and without them, INSERT ..       *)
(* RETURNING, CALL sent by dbSendQuery() and by dbSendStatement(), CREATE.  *)
Stmt(e, rows, meta, params, isStatement) ==
    [effect |-> e, rows |-> rows, meta |-> meta, params |-> params,
     isStatement |-> isStatement]

Select    == Stmt("read", TRUE, TRUE, FALSE, FALSE)
Insert    == Stmt("write", FALSE, FALSE, FALSE, TRUE)
InsertP   == Stmt("write", FALSE, FALSE, TRUE, TRUE)
Returning == Stmt("write", TRUE, TRUE, TRUE, FALSE)
CallQuery == Stmt("write", TRUE, FALSE, TRUE, FALSE)
CallStmt  == Stmt("write", TRUE, FALSE, FALSE, TRUE)
Create    == Stmt("ddl", FALSE, FALSE, FALSE, TRUE)

AllStatements == {Select, Insert, InsertP, Returning, CallQuery,
                  CallStmt, Create}
FewStatements == {Select, InsertP}
PlainStatements == {Select, Insert}

Symmetry == Permutations(Results) \cup Permutations(Work)

=============================================================================
