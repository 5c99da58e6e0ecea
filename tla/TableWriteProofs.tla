-------------------------- MODULE TableWriteProofs --------------------------
(***************************************************************************)
(* One call of dbWriteTable() or dbAppendTable(), for all calls, numbers of *)
(* rows and keys that clash, with failures and other sessions.              *)
(***************************************************************************)
EXTENDS TableWrite, FiniteSetTheorems, TLAPS

(* A database in which only rows of the call are uncommitted. *)
Sound(d) ==
    /\ d \in Database
    /\ \A t \in Tables : /\ d.uncommitted[t] \subseteq d.rows[t]
                         /\ d.shape[t] = "none" => d.rows[t] = {} /\ d.others[t] = {}

Running == pc \notin {"idle", "done"}
WritesTemporary == call.fun = "write" /\ call.temporary
Written == pc \in {"recount", "check", "commit"}

(* Before the call has added rows there are none; in a transaction all of   *)
(* them can be taken back.                                                  *)
Tentative ==
    /\ pc \notin {"recount", "check", "commit", "done"} => \A t \in Tables : db.rows[t] = {}
    /\ transacting => \A t \in Tables : db.rows[t] \subseteq db.uncommitted[t]

(* Whose transaction it is. *)
Ownership ==
    /\ pc = "idle" => ~own /\ userEnd = "none"
    /\ pc # "done" => outcome = "none" /\ userEnd = "none"
    /\ own => call.fun = "write" \/ (call.fun = "append" /\ call.load /\ call.safe)
    /\ own /\ pc # "done" => transacting
    /\ Running /\ call.fun = "write" => transacting
    /\ Running /\ call.fun = "append" =>
         /\ pc \in {"count", "load", "insert", "recount", "check", "commit"}
         /\ call.load /\ call.safe => own

Creation ==
    created # "none" =>
      /\ pc \in {"insert", "count", "load", "recount", "check", "commit", "done"}
      /\ db.shape[created] # "none"

UserWorkKept ==
    /\ db.user = "pending" => transacting /\ ~own
    /\ db.user = "durable" /\ userEnd = "none" =>
         /\ pc \notin {"idle", "exists"}
         /\ call.fun # "append" /\ ~WritesTemporary
         /\ call.overwrite \/ ~found

PermanentAlone ==
    WritesTemporary =>
      /\ pc # "exists"
      /\ pc \in {"insert", "count", "load", "recount", "check", "commit"} =>
           db.shape["temp"] # "none"
      /\ db.rows["perm"] = {}

(* What the call has added is in a table that nobody can drop, and it is     *)
(* counted right if reads are repeatable.                                   *)
Held ==
    own /\ Written /\ (pc # "commit" \/ call.n > 0) =>
      /\ Named(db) = "perm" => db.locked
      /\ pc # "commit" => db.rows[Named(db)] \subseteq Data(call.n)
      /\ pc = "check" /\ call.repeatable => out = Cardinality(db.rows[Named(db)])
      /\ pc = "commit" /\ call.repeatable => Data(call.n) \subseteq db.rows[Named(db)]

IInv ==
    /\ TypeOK
    /\ Tentative
    /\ Ownership
    /\ NoHalfWrite
    /\ Creation
    /\ CreatedIsNew
    /\ UserWorkKept
    /\ UserRollbackTakesBack
    /\ PermanentAlone
    /\ Held

-----------------------------------------------------------------------------
(* What the operators on the database do. *)

LEMMA NamedIsTable == \A d : Named(d) \in Tables
BY DEF Named, Tables

LEMMA SoundParts ==
  ASSUME NEW d, Sound(d)
  PROVE  /\ d = [shape |-> d.shape, rows |-> d.rows, others |-> d.others,
                 uncommitted |-> d.uncommitted, user |-> d.user, locked |-> d.locked]
         /\ d.shape \in [Tables -> {"none", "plain", "keyed"}]
         /\ d.rows \in [Tables -> SUBSET Data(N)]
         /\ d.others \in [Tables -> SUBSET {"old", "theirs", "peer"}]
         /\ d.uncommitted \in [Tables -> SUBSET Data(N)]
         /\ d.user \in {"none", "pending", "durable", "undone"}
         /\ d.locked \in BOOLEAN
BY DEF Sound, Database

LEMMA CommittedIs ==
  ASSUME NEW d, Sound(d)
  PROVE  LET e == Committed(d) IN
         /\ Sound(e)
         /\ e.shape = d.shape /\ e.rows = d.rows /\ e.others = d.others
         /\ \A t \in Tables : e.uncommitted[t] = {}
         /\ e.user = IF d.user = "pending" THEN "durable" ELSE d.user
         /\ ~e.locked
<1> DEFINE e == Committed(d)
<1>1. Nothing \in [Tables -> SUBSET Data(N)] /\ \A t \in Tables : Nothing[t] = {}
  BY DEF Nothing
<1>2. d \in Database
  BY DEF Sound
<1>3. e \in Database
  BY <1>1, <1>2 DEF Database, Committed
<1>4. /\ e.shape = d.shape /\ e.rows = d.rows /\ e.others = d.others
      /\ e.uncommitted = Nothing
      /\ e.user = IF d.user = "pending" THEN "durable" ELSE d.user
      /\ ~e.locked
  BY <1>2 DEF Database, Committed
<1>5. QED BY <1>1, <1>3, <1>4 DEF Sound

LEMMA RolledBackIs ==
  ASSUME NEW d, Sound(d)
  PROVE  LET e == RolledBack(d) IN
         /\ Sound(e)
         /\ e.shape = d.shape /\ e.others = d.others
         /\ \A t \in Tables : e.rows[t] = d.rows[t] \ d.uncommitted[t]
         /\ \A t \in Tables : e.uncommitted[t] = {}
         /\ e.user = IF d.user = "pending" THEN "undone" ELSE d.user
         /\ ~e.locked
<1> DEFINE e == RolledBack(d)
           rows == [t \in Tables |-> d.rows[t] \ d.uncommitted[t]]
<1>1. Nothing \in [Tables -> SUBSET Data(N)] /\ \A t \in Tables : Nothing[t] = {}
  BY DEF Nothing
<1>2. d \in Database
  BY DEF Sound
<1>3. rows \in [Tables -> SUBSET Data(N)]
  BY SoundParts
<1>4. /\ e.shape = d.shape /\ e.others = d.others /\ e.rows = rows
      /\ e.uncommitted = Nothing
      /\ e.user = IF d.user = "pending" THEN "undone" ELSE d.user
      /\ ~e.locked
  BY <1>2 DEF Database, RolledBack
<1>5. e \in Database
  <2>1. e = [d EXCEPT !.rows = rows, !.uncommitted = Nothing, !.locked = FALSE,
                      !.user = IF @ = "pending" THEN "undone" ELSE @]
    BY <1>2 DEF Database, RolledBack
  <2> HIDE DEF e, rows
  <2>2. QED BY <1>1, <1>2, <1>3, <2>1 DEF Database
<1>6. QED BY <1>1, <1>4, <1>5 DEF Sound

LEMMA DroppedIs ==
  ASSUME NEW d, Sound(d), NEW t \in Tables
  PROVE  LET e == Dropped(d, t) IN
         /\ Sound(e)
         /\ e.shape[t] = "none" /\ e.rows[t] = {} /\ e.others[t] = {} /\ e.uncommitted[t] = {}
         /\ \A u \in Tables \ {t} : e.shape[u] = d.shape[u]
         /\ \A u \in Tables \ {t} : e.rows[u] = d.rows[u]
         /\ \A u \in Tables \ {t} : e.others[u] = d.others[u]
         /\ \A u \in Tables \ {t} : e.uncommitted[u] = d.uncommitted[u]
         /\ e.user = d.user /\ e.locked = d.locked
<1> DEFINE e == Dropped(d, t)
<1>1. d \in Database
  BY DEF Sound
<1>2. e \in Database
  BY <1>1 DEF Database, Dropped
<1>3. /\ e.shape = [d.shape EXCEPT ![t] = "none"] /\ e.rows = [d.rows EXCEPT ![t] = {}]
      /\ e.others = [d.others EXCEPT ![t] = {}]
      /\ e.uncommitted = [d.uncommitted EXCEPT ![t] = {}]
      /\ e.user = d.user /\ e.locked = d.locked
  BY <1>1 DEF Database, Dropped
<1>4. QED BY <1>2, <1>3, SoundParts DEF Sound

LEMMA CreatedIs ==
  ASSUME NEW d, Sound(d), NEW t \in Tables
  PROVE  LET e == Created(d, t) IN
         /\ Sound(e)
         /\ e.shape[t] = "plain"
         /\ \A u \in Tables \ {t} : e.shape[u] = d.shape[u]
         /\ e.rows = d.rows /\ e.others = d.others /\ e.uncommitted = d.uncommitted
         /\ e.user = d.user /\ e.locked = d.locked
<1> DEFINE e == Created(d, t)
<1>1. e = [shape |-> [d.shape EXCEPT ![t] = "plain"], rows |-> d.rows, others |-> d.others,
           uncommitted |-> d.uncommitted, user |-> d.user, locked |-> d.locked]
  BY SoundParts DEF Created
<1>2. e \in Database
  BY <1>1, SoundParts DEF Database
<1>3. QED BY <1>1, <1>2, SoundParts DEF Sound

LEMMA TouchedIs ==
  ASSUME NEW d, Sound(d)
  PROVE  LET e == Touched(d) IN
         /\ Sound(e)
         /\ e.shape = d.shape /\ e.rows = d.rows /\ e.others = d.others
         /\ e.uncommitted = d.uncommitted /\ e.user = d.user
         /\ Named(d) = "perm" => e.locked
<1> DEFINE e == Touched(d)
<1>1. d \in Database
  BY DEF Sound
<1>2. e \in Database
  <2>1. CASE Named(d) = "perm"
    BY <1>1, <2>1 DEF Database, Touched
  <2>2. CASE Named(d) # "perm"
    BY <1>1, <2>2 DEF Database, Touched
  <2>3. QED BY <2>1, <2>2
<1>3. /\ e.shape = d.shape /\ e.rows = d.rows /\ e.others = d.others
      /\ e.uncommitted = d.uncommitted /\ e.user = d.user
      /\ Named(d) = "perm" => e.locked
  BY <1>1 DEF Database, Touched
<1>4. QED BY <1>2, <1>3 DEF Sound

LEMMA InsertedIs ==
  ASSUME NEW d, Sound(d), Exists(d), NEW rs \in SUBSET Data(N)
  PROVE  LET e == Inserted(d, rs)
             t == Named(d)
         IN
         /\ Sound(e)
         /\ e.shape = d.shape /\ e.others = d.others
         /\ e.rows[t] = d.rows[t] \cup rs /\ e.uncommitted[t] = d.uncommitted[t] \cup rs
         /\ \A u \in Tables \ {t} : /\ e.rows[u] = d.rows[u]
                                    /\ e.uncommitted[u] = d.uncommitted[u]
         /\ e.user = d.user
         /\ t = "perm" => e.locked
<1> DEFINE e == Inserted(d, rs)
           t == Named(d)
           h == Touched(d)
<1>1. t \in Tables /\ d.shape[t] # "none"
  BY NamedIsTable DEF Exists
<1>2. /\ Sound(h)
      /\ h.shape = d.shape /\ h.rows = d.rows /\ h.others = d.others
      /\ h.uncommitted = d.uncommitted /\ h.user = d.user /\ (t = "perm" => h.locked)
  BY TouchedIs
<1> HIDE DEF t, h
<1>3. h \in Database
  BY <1>2 DEF Sound
<1>4. e = [h EXCEPT !.rows[t] = @ \cup rs, !.uncommitted[t] = @ \cup rs]
  BY DEF Inserted, t, h
<1> HIDE DEF e
<1>5. e \in Database
  BY <1>1, <1>3, <1>4 DEF Database
<1>6. /\ e.shape = h.shape /\ e.rows = [h.rows EXCEPT ![t] = @ \cup rs]
      /\ e.others = h.others /\ e.uncommitted = [h.uncommitted EXCEPT ![t] = @ \cup rs]
      /\ e.user = h.user /\ e.locked = h.locked
  BY <1>1, <1>3, <1>4 DEF Database
<1>7. Sound(e)
  BY <1>1, <1>2, <1>5, <1>6, SoundParts DEF Sound
<1>8. QED BY <1>1, <1>2, <1>6, <1>7, SoundParts DEF t, e

(* A COMMIT that is refused leaves a part of the rows, the uncommitted ones   *)
(* gone.                                                                    *)
LEMMA CommitsIs ==
  ASSUME NEW d, Sound(d), NEW e \in Commits(d)
  PROVE  /\ Sound(e)
         /\ e.shape = d.shape /\ e.others = d.others
         /\ \A t \in Tables : e.rows[t] \subseteq d.rows[t]
         /\ d.user # "pending" => e.user = d.user
         /\ e.user # "pending"
<1>1. CASE e = Committed(d)
  BY <1>1, CommittedIs
<1>2. CASE e = RolledBack(d)
  BY <1>2, RolledBackIs
<1>3. QED BY <1>1, <1>2 DEF Commits

LEMMA AutocommitsIs ==
  ASSUME NEW d, Sound(d), NEW e \in Autocommits(d)
  PROVE  /\ Sound(e)
         /\ e.shape = d.shape /\ e.others = d.others
         /\ \A t \in Tables : e.rows[t] \subseteq d.rows[t]
         /\ transacting => e = d
         /\ ~transacting /\ d.user # "pending" => e.user = d.user
<1>1. CASE transacting
  BY <1>1 DEF Autocommits
<1>2. CASE ~transacting
  BY <1>2, CommitsIs DEF Autocommits
<1>3. QED BY <1>1, <1>2

-----------------------------------------------------------------------------
(* Ends of the call *)

LEMMA TypesOfState == TypeOK => Sound(db) /\ call \in Call
BY CallAssumption DEF TypeOK, Sound

(* An error ends the call well if what the failing statement has left can    *)
(* be taken back.                                                            *)
LEMMA StopStep ==
  ASSUME IInv, pc # "done", NEW d, Sound(d), StopWith(d),
         UNCHANGED <<call, own, before, out, clash, created, userEnd>>,
         found' \in BOOLEAN, found' = found \/ pc = "exists",
         transacting => \A t \in Tables : d.rows[t] \subseteq d.uncommitted[t],
         ~transacting /\ call.fun = "write" => d = db,
         pc = "idle" => d = db,
         created # "none" => d.shape = db.shape /\ d.others = db.others,
         d.user = db.user \/ /\ d.user = "durable" /\ pc # "exists"
                             /\ call.fun # "append" /\ ~WritesTemporary
                             /\ call.overwrite \/ ~found,
         WritesTemporary => d.rows["perm"] = {}
  PROVE  IInv'
<1>1. Sound(db) /\ "perm" \in Tables
  BY TypesOfState DEF IInv, Tables
<1>2. pc' = "done" /\ outcome' = "error"
  BY DEF StopWith
<1>3. own => transacting
  BY DEF IInv, Ownership
<1>4. db.user = "pending" => transacting /\ ~own
  BY DEF IInv, UserWorkKept
<1>5. /\ Sound(db') /\ db'.shape = d.shape /\ db'.others = d.others
      /\ own => \A t \in Tables : db'.rows[t] = {}
      /\ ~own => /\ \A t \in Tables : db'.rows[t] \subseteq d.rows[t]
                 /\ transacting' = transacting
      /\ own => ~transacting'
      /\ ~own /\ transacting => db' = d
      /\ d.user # "pending" => db'.user = d.user
      /\ d.user = "pending" => ~own
  <2>1. CASE own
    <3>1. db' = RolledBack(d) /\ ~transacting'
      BY <2>1 DEF StopWith
    <3>2. \A t \in Tables : d.rows[t] \subseteq d.uncommitted[t]
      BY <2>1, <1>3
    <3>3. d.user # "pending"
      BY <2>1, <1>4
    <3>4. QED BY <2>1, <3>1, <3>2, <3>3, RolledBackIs
  <2>2. CASE ~own
    <3>1. db' \in Autocommits(d) /\ (transacting' <=> transacting)
      BY <2>2 DEF StopWith
    <3>2. transacting' \in BOOLEAN /\ transacting \in BOOLEAN
      BY <2>2 DEF StopWith, IInv, TypeOK
    <3>3. d.user = "pending" => transacting
      BY <1>4
    <3>4. QED BY <2>2, <3>1, <3>2, <3>3, AutocommitsIs
  <2>3. QED BY <2>1, <2>2
<1>6. TypeOK'
  <2>1. transacting' \in BOOLEAN
    BY DEF StopWith
  <2>2. QED BY <1>2, <1>5, <2>1 DEF IInv, TypeOK, Sound
<1>7. Tentative'
  BY <1>2, <1>5 DEF Tentative
<1>8. Ownership'
  BY <1>2 DEF IInv, Ownership, Running
<1>9. NoHalfWrite'
  <2>1. CASE own
    BY <2>1, <1>5 DEF NoHalfWrite
  <2>2. CASE ~own /\ call.fun = "write"
    <3>1. ~transacting => pc = "idle"
      BY <2>2 DEF IInv, Ownership, Running
    <3>2. ~transacting => \A t \in Tables : db'.rows[t] = {}
      BY <2>2, <3>1, <1>5 DEF IInv, Tentative
    <3>3. QED BY <2>2, <3>2, <1>5 DEF NoHalfWrite
  <2>3. CASE ~own /\ call.fun = "append" /\ call.load /\ call.safe
    <3>1. pc = "idle"
      BY <2>3 DEF IInv, Ownership, Running
    <3>2. \A t \in Tables : db'.rows[t] = {}
      BY <2>3, <3>1, <1>5 DEF IInv, Tentative
    <3>3. QED BY <3>2 DEF NoHalfWrite
  <2>4. CASE call.fun # "write" /\ ~(call.fun = "append" /\ call.load /\ call.safe)
    BY <2>4 DEF NoHalfWrite
  <2>5. QED BY <2>1, <2>2, <2>3, <2>4
<1>10. Creation' /\ CreatedIsNew'
  BY <1>2, <1>5 DEF IInv, Creation, CreatedIsNew
<1>11. UserWorkKept'
  BY <1>2, <1>4, <1>5 DEF IInv, UserWorkKept, WritesTemporary
<1>12. UserRollbackTakesBack'
  BY DEF IInv, Ownership, UserRollbackTakesBack
<1>13. PermanentAlone'
  BY <1>1, <1>2, <1>5 DEF PermanentAlone, WritesTemporary
<1>14. Held'
  BY <1>2 DEF Held, Written
<1>15. QED
  BY <1>6, <1>7, <1>8, <1>9, <1>10, <1>11, <1>12, <1>13, <1>14 DEF IInv
-----------------------------------------------------------------------------
(* The user *)

LEMMA UserBeginStep == IInv /\ UserBegin => IInv'
<1> SUFFICES ASSUME IInv, UserBegin PROVE IInv'
  OBVIOUS
<1> USE DEF UserBegin
<1>1. TypeOK' /\ Creation' /\ CreatedIsNew'
  BY DEF IInv, TypeOK, Creation, CreatedIsNew
<1>2. Tentative' /\ Ownership'
  BY TypesOfState DEF IInv, Tentative, Ownership, Running, Sound
<1>3. NoHalfWrite' /\ UserRollbackTakesBack'
  BY DEF IInv, Ownership, NoHalfWrite, UserRollbackTakesBack
<1>4. UserWorkKept'
  BY DEF IInv, Ownership, UserWorkKept, WritesTemporary
<1>5. PermanentAlone' /\ Held'
  BY DEF IInv, PermanentAlone, WritesTemporary, Held, Written
<1>6. QED BY <1>1, <1>2, <1>3, <1>4, <1>5 DEF IInv

LEMMA UserWorkStep == IInv /\ UserWork => IInv'
<1> SUFFICES ASSUME IInv, UserWork PROVE IInv'
  OBVIOUS
<1> USE DEF UserWork
<1>1. db \in Database
  BY DEF IInv, TypeOK
<1>2. /\ db' \in Database
      /\ db'.shape = db.shape /\ db'.rows = db.rows /\ db'.others = db.others
      /\ db'.uncommitted = db.uncommitted /\ db'.user = "pending"
      /\ db'.locked = db.locked
  BY <1>1 DEF Database
<1>3. TypeOK' /\ Creation' /\ CreatedIsNew'
  BY <1>2 DEF IInv, TypeOK, Creation, CreatedIsNew
<1>4. Tentative' /\ Ownership'
  BY <1>2 DEF IInv, Tentative, Ownership, Running
<1>5. NoHalfWrite' /\ UserRollbackTakesBack'
  BY <1>2 DEF IInv, Ownership, NoHalfWrite, UserRollbackTakesBack
<1>6. UserWorkKept'
  BY <1>2 DEF IInv, Ownership, UserWorkKept, WritesTemporary
<1>7. PermanentAlone' /\ Held'
  BY <1>2 DEF IInv, PermanentAlone, WritesTemporary, Held, Written
<1>8. QED BY <1>3, <1>4, <1>5, <1>6, <1>7 DEF IInv

(* dbRollback() finds all rows of the call in the transaction. *)
LEMMA UserEndsStep ==
  ASSUME IInv, NEW how \in {"commit", "rollback"}, UserEnds(how)
  PROVE  IInv'
<1> USE DEF UserEnds
<1>1. Sound(db) /\ "perm" \in Tables
  BY TypesOfState DEF IInv, Tables
<1>2. /\ Sound(db') /\ db'.shape = db.shape /\ db'.others = db.others
      /\ \A t \in Tables : db'.rows[t] \subseteq db.rows[t]
      /\ how = "rollback" => \A t \in Tables : db'.rows[t] = {}
      /\ db'.user # "pending"
  <2>1. CASE how = "rollback"
    BY <1>1, <2>1, RolledBackIs DEF IInv, Tentative
  <2>2. CASE how = "commit"
    BY <1>1, <2>2, CommitsIs
  <2>3. QED BY <2>1, <2>2
<1>3. TypeOK' /\ Creation' /\ CreatedIsNew'
  BY <1>2 DEF IInv, TypeOK, Sound, Creation, CreatedIsNew
<1>4. Tentative' /\ Ownership'
  BY DEF IInv, Tentative, Ownership, Running
<1>5. NoHalfWrite'
  BY <1>2 DEF IInv, NoHalfWrite
<1>6. UserRollbackTakesBack'
  BY <1>2 DEF UserRollbackTakesBack
<1>7. UserWorkKept'
  BY <1>2 DEF IInv, UserWorkKept
<1>8. PermanentAlone'
  BY <1>1, <1>2 DEF IInv, PermanentAlone, WritesTemporary
<1>9. Held'
  BY DEF Held, Written
<1>10. QED BY <1>3, <1>4, <1>5, <1>6, <1>7, <1>8, <1>9 DEF IInv

-----------------------------------------------------------------------------
(* dbWriteTable() *)

LEMMA BeginWriteStep == IInv /\ BeginWrite => IInv'
<1> SUFFICES ASSUME IInv, BeginWrite PROVE IInv'
  OBVIOUS
<1> USE DEF BeginWrite
<1>1. own' \in BOOLEAN /\ transacting' \in BOOLEAN
  BY DEF Exists
<1>2. /\ own' => call.fun = "write"
      /\ own' => ~transacting /\ transacting'
      /\ call.fun = "write" => transacting'
      /\ transacting => transacting'
      /\ call.fun # "append"
      /\ pc' \in {"remove", "exists"}
      /\ WritesTemporary => pc' # "exists"
  BY DEF WritesTemporary
<1>3. TypeOK'
  BY <1>1, <1>2 DEF IInv, TypeOK
<1>4. Tentative' /\ Ownership'
  BY <1>2, TypesOfState DEF IInv, Tentative, Ownership, Running, Sound
<1>5. NoHalfWrite' /\ UserRollbackTakesBack' /\ Creation' /\ CreatedIsNew'
  BY <1>2 DEF IInv, Ownership, NoHalfWrite, UserRollbackTakesBack, Creation, CreatedIsNew
<1>6. UserWorkKept'
  BY <1>2 DEF IInv, Ownership, UserWorkKept, WritesTemporary
<1>7. PermanentAlone' /\ Held'
  BY <1>2 DEF IInv, PermanentAlone, WritesTemporary, Held, Written
<1>8. QED BY <1>3, <1>4, <1>5, <1>6, <1>7 DEF IInv

LEMMA RefuseArgumentsStep == IInv /\ RefuseArguments => IInv'
<1> SUFFICES ASSUME IInv, RefuseArguments PROVE IInv'
  OBVIOUS
<1>1. found' = found /\ found \in BOOLEAN
  BY DEF RefuseArguments, IInv, TypeOK
<1>2. /\ pc = "idle" /\ StopWith(db)
      /\ UNCHANGED <<call, own, before, out, clash, created, userEnd>>
  BY DEF RefuseArguments
<1>3. Sound(db)
  BY TypesOfState DEF IInv
<1>4. /\ transacting => \A t \in Tables : db.rows[t] \subseteq db.uncommitted[t]
      /\ WritesTemporary => db.rows["perm"] = {}
  BY DEF IInv, Tentative, PermanentAlone
<1>5. QED BY <1>1, <1>2, <1>3, <1>4, StopStep

LEMMA AskExistsStep == IInv /\ AskExists => IInv'
<1> SUFFICES ASSUME IInv, AskExists PROVE IInv'
  OBVIOUS
<1> DEFINE touched == IF found' THEN Touched(db) ELSE db
           refused == \/ found' /\ ~call.overwrite /\ ~call.append
                      \/ call.fun = "file" /\ ~found' /\ call.append
<1>1. /\ pc = "exists"
      /\ found' \in BOOLEAN
      /\ UNCHANGED <<call, own, before, out, clash, created, userEnd>>
  BY DEF AskExists, Exists
<1>2. PICK d \in Autocommits(touched) :
        IF refused THEN StopWith(d) ELSE db' = d /\ Goto("remove") /\ UNCHANGED transacting
  BY DEF AskExists
<1>3. Sound(db) /\ "perm" \in Tables
  BY TypesOfState DEF IInv, Tables
<1>4. /\ Sound(d) /\ d.shape = db.shape /\ d.others = db.others /\ d.user = db.user
      /\ \A t \in Tables : d.rows[t] \subseteq db.rows[t]
      /\ transacting => d.uncommitted = db.uncommitted
  <2>1. /\ Sound(touched) /\ touched.shape = db.shape /\ touched.rows = db.rows
        /\ touched.others = db.others /\ touched.uncommitted = db.uncommitted
        /\ touched.user = db.user
    BY <1>3, TouchedIs
  <2>2. db.user = "pending" => transacting
    BY DEF IInv, UserWorkKept
  <2> HIDE DEF touched
  <2>3. QED BY <2>1, <2>2, AutocommitsIs
<1> HIDE DEF touched
<1>5. \A t \in Tables : d.rows[t] = {}
  BY <1>1, <1>4 DEF IInv, Tentative
<1>6. created = "none" /\ ~WritesTemporary
  BY <1>1 DEF IInv, Creation, PermanentAlone
<1>7. CASE refused
  <2>1. transacting \/ call.fun # "write"
    BY <1>1 DEF IInv, Ownership, Running
  <2>2. StopWith(d)
    BY <1>2, <1>7
  <2> HIDE DEF refused
  <2>3. QED BY <1>1, <1>4, <1>5, <1>6, <2>1, <2>2, StopStep
<1>8. CASE ~refused
  <2>1. /\ db' = d /\ pc' = "remove" /\ outcome' = outcome /\ transacting' = transacting
    BY <1>2, <1>8 DEF Goto
  <2> HIDE DEF refused
  <2>2. TypeOK'
    BY <1>1, <1>4, <2>1 DEF IInv, TypeOK, Sound
  <2>3. Tentative' /\ Ownership'
    BY <1>1, <1>4, <1>5, <2>1 DEF IInv, Tentative, Ownership, Running
  <2>4. NoHalfWrite' /\ UserRollbackTakesBack' /\ Creation' /\ CreatedIsNew'
    BY <1>1, <1>6, <2>1 DEF IInv, Ownership, NoHalfWrite, UserRollbackTakesBack, Creation,
       CreatedIsNew
  <2>5. UserWorkKept'
    BY <1>1, <1>4, <2>1 DEF IInv, Ownership, UserWorkKept, WritesTemporary
  <2>6. PermanentAlone' /\ Held'
    BY <1>1, <1>6, <2>1 DEF IInv, PermanentAlone, WritesTemporary, Held, Written
  <2>7. QED BY <2>2, <2>3, <2>4, <2>5, <2>6 DEF IInv
<1>9. QED BY <1>7, <1>8
(* DROP TABLE: there were no rows, and the user's work is only committed by a *)
(* call that replaces a permanent table.                                     *)
LEMMA RemoveStep == IInv /\ Remove => IInv'
<1> SUFFICES ASSUME IInv, Remove PROVE IInv'
  OBVIOUS
<1> DEFINE d == BeforeDDL(DropsTemporary, db)
           t == IF DropsTemporary THEN "temp" ELSE Named(d)
<1>1. /\ pc = "remove" /\ Removes
      /\ IF call.fun = "file" /\ d.shape[t] = "none"
         THEN StopWith(d)
         ELSE db' \in Autocommits(Dropped(d, t)) /\ Goto("create") /\ UNCHANGED transacting
      /\ UNCHANGED <<call, found, own, before, out, clash, created, userEnd>>
  BY DEF Remove
<1>2. Sound(db) /\ "perm" \in Tables /\ t \in Tables /\ found \in BOOLEAN
  BY TypesOfState, NamedIsTable DEF IInv, TypeOK, Tables
<1>3. db.user = "pending" => transacting
  BY DEF IInv, UserWorkKept
<1>4. /\ Sound(d) /\ d.shape = db.shape /\ d.rows = db.rows /\ d.others = db.others
      /\ d.user \in {db.user, "durable"} /\ (d.user # db.user => db.user = "pending")
      /\ WritesTemporary => d.user = db.user
  <2>1. CASE DropsTemporary
    BY <1>2, <2>1 DEF BeforeDDL
  <2>2. CASE ~DropsTemporary
    <3>1. d = Committed(db)
      BY <2>2 DEF BeforeDDL
    <3>2. ~WritesTemporary
      BY <2>2 DEF DropsTemporary, WritesTemporary
    <3> HIDE DEF d
    <3>3. QED BY <1>2, <3>1, <3>2, CommittedIs
  <2>3. QED BY <2>1, <2>2
<1> HIDE DEF d, t
<1>5. \A u \in Tables : d.rows[u] = {}
  BY <1>1, <1>4 DEF IInv, Tentative
<1>6. created = "none" /\ call.overwrite /\ call.fun # "append"
  BY <1>1 DEF IInv, Creation, Ownership, Running, Removes
<1>7. CASE call.fun = "file" /\ d.shape[t] = "none"
  <2>1. StopWith(d)
    BY <1>1, <1>7
  <2>2. d.user # db.user => d.user = "durable" /\ ~WritesTemporary
    BY <1>4
  <2>3. QED BY <1>1, <1>2, <1>4, <1>5, <1>6, <1>7, <2>1, <2>2, StopStep
<1>8. CASE ~(call.fun = "file" /\ d.shape[t] = "none")
  <2>1. /\ db' \in Autocommits(Dropped(d, t)) /\ pc' = "create" /\ outcome' = outcome
        /\ transacting' = transacting
    BY <1>1, <1>8 DEF Goto
  <2>2. /\ Sound(Dropped(d, t)) /\ Dropped(d, t).user = d.user
        /\ \A u \in Tables : Dropped(d, t).rows[u] = {}
    <3>1. \A u \in Tables \ {t} : Dropped(d, t).rows[u] = d.rows[u]
      BY <1>2, <1>4, DroppedIs
    <3>2. /\ Sound(Dropped(d, t)) /\ Dropped(d, t).user = d.user
          /\ Dropped(d, t).rows[t] = {}
      BY <1>2, <1>4, DroppedIs
    <3>3. QED BY <1>5, <3>1, <3>2
  <2>3. /\ Sound(db') /\ \A u \in Tables : db'.rows[u] = {}
        /\ db'.user = d.user
    BY <1>3, <1>4, <2>1, <2>2, AutocommitsIs
  <2>4. TypeOK'
    BY <1>1, <2>1, <2>3 DEF IInv, TypeOK, Sound
  <2>5. Tentative' /\ Ownership'
    BY <1>1, <2>1, <2>3 DEF IInv, Tentative, Ownership, Running
  <2>6. NoHalfWrite' /\ UserRollbackTakesBack' /\ Creation' /\ CreatedIsNew'
    BY <1>1, <1>6, <2>1 DEF IInv, Ownership, NoHalfWrite, UserRollbackTakesBack, Creation,
       CreatedIsNew
  <2>7. UserWorkKept'
    BY <1>1, <1>4, <1>6, <2>1, <2>3 DEF IInv, Ownership, UserWorkKept, WritesTemporary
  <2>8. PermanentAlone' /\ Held'
    BY <1>1, <1>2, <2>1, <2>3 DEF IInv, PermanentAlone, WritesTemporary, Held, Written
  <2>9. QED BY <2>4, <2>5, <2>6, <2>7, <2>8 DEF IInv
<1>9. QED BY <1>7, <1>8
LEMMA RemoveNothingStep == IInv /\ RemoveNothing => IInv'
<1> SUFFICES ASSUME IInv, RemoveNothing PROVE IInv'
  OBVIOUS
<1> USE DEF RemoveNothing, Goto
<1>1. TypeOK' /\ Creation' /\ CreatedIsNew'
  BY DEF IInv, TypeOK, Creation, CreatedIsNew
<1>2. Tentative' /\ Ownership'
  BY DEF IInv, Tentative, Ownership, Running
<1>3. NoHalfWrite' /\ UserRollbackTakesBack'
  BY DEF IInv, Ownership, NoHalfWrite, UserRollbackTakesBack
<1>4. UserWorkKept' /\ PermanentAlone' /\ Held'
  BY DEF IInv, UserWorkKept, PermanentAlone, WritesTemporary, Held, Written
<1>5. QED BY <1>1, <1>2, <1>3, <1>4 DEF IInv

LEMMA FillIs ==
  ASSUME TypeOK
  PROVE  Fill \in {"count", "load", "insert", "commit"} /\ (Fill = "commit" => call.n = 0)
BY DEF Fill

(* CREATE TABLE: what it creates was not there. *)
LEMMA CreateStep == IInv /\ Create => IInv'
<1> SUFFICES ASSUME IInv, Create PROVE IInv'
  OBVIOUS
<1> DEFINE d == BeforeDDL(call.temporary, db)
           t == IF call.temporary THEN "temp" ELSE "perm"
<1>1. /\ pc = "create" /\ Creates
      /\ IF d.shape[t] # "none"
         THEN StopWith(d) /\ UNCHANGED created
         ELSE /\ db' \in Autocommits(Created(d, t)) /\ created' = t
              /\ Goto(Fill) /\ UNCHANGED transacting
      /\ UNCHANGED <<call, found, own, before, out, clash, userEnd>>
  BY DEF Create
<1>2. /\ Sound(db) /\ "perm" \in Tables /\ t \in Tables
      /\ found \in BOOLEAN
  BY TypesOfState DEF IInv, TypeOK, Tables
<1>3. db.user = "pending" => transacting
  BY DEF IInv, UserWorkKept
<1>4. /\ Sound(d) /\ d.shape = db.shape /\ d.rows = db.rows /\ d.others = db.others
      /\ d.user \in {db.user, "durable"} /\ (d.user # db.user => db.user = "pending")
      /\ WritesTemporary => d.user = db.user /\ t = "temp"
  <2>1. CASE call.temporary
    BY <1>2, <2>1 DEF BeforeDDL
  <2>2. CASE ~call.temporary
    <3>1. d = Committed(db)
      BY <2>2 DEF BeforeDDL
    <3>2. ~WritesTemporary
      BY <2>2 DEF WritesTemporary
    <3> HIDE DEF d
    <3>3. QED BY <1>2, <3>1, <3>2, CommittedIs
  <2>3. QED BY <2>1, <2>2
<1> HIDE DEF d, t
<1>5. \A u \in Tables : d.rows[u] = {}
  BY <1>1, <1>4 DEF IInv, Tentative
<1>6. created = "none" /\ call.fun # "append"
  BY <1>1 DEF IInv, Creation, Ownership, Running
<1>7. WritesTemporary \/ call.overwrite \/ ~found
  BY <1>1 DEF Creates, WritesTemporary
<1>8. CASE d.shape[t] # "none"
  <2>1. StopWith(d) /\ created' = created
    BY <1>1, <1>8
  <2>2. d.user # db.user => d.user = "durable" /\ ~WritesTemporary
    BY <1>4
  <2>3. call.fun = "write" => transacting
    BY <1>1 DEF IInv, Ownership, Running
  <2>4. QED BY <1>1, <1>2, <1>4, <1>5, <1>6, <1>7, <2>1, <2>2, <2>3, StopStep
<1>9. CASE d.shape[t] = "none"
  <2>1. /\ db' \in Autocommits(Created(d, t)) /\ pc' = Fill /\ outcome' = outcome
        /\ transacting' = transacting /\ created' = t
    BY <1>1, <1>9 DEF Goto
  <2>2. pc' \in {"count", "load", "insert", "commit"} /\ (pc' = "commit" => call.n = 0)
    BY <2>1, FillIs DEF IInv
  <2>3. /\ Sound(Created(d, t)) /\ Created(d, t).user = d.user
        /\ Created(d, t).rows = d.rows /\ Created(d, t).others = d.others
        /\ Created(d, t).shape[t] = "plain"
    BY <1>2, <1>4, CreatedIs
  <2>4. /\ Sound(db') /\ \A u \in Tables : db'.rows[u] = {}
        /\ db'.user = d.user /\ db'.shape[t] = "plain" /\ db'.others = d.others
    BY <1>3, <1>4, <1>5, <2>1, <2>3, AutocommitsIs
  <2>5. TypeOK'
    BY <1>1, <1>2, <2>1, <2>2, <2>4 DEF IInv, TypeOK, Sound
  <2>6. Tentative' /\ Ownership'
    BY <1>1, <1>6, <2>1, <2>2, <2>4 DEF IInv, Tentative, Ownership, Running
  <2>7. NoHalfWrite' /\ UserRollbackTakesBack'
    BY <1>1, <2>1 DEF IInv, Ownership, NoHalfWrite, UserRollbackTakesBack
  <2>8. Creation' /\ CreatedIsNew'
    BY <1>2, <1>4, <1>9, <2>1, <2>2, <2>4 DEF Creation, CreatedIsNew, Sound
  <2>9. UserWorkKept'
    BY <1>1, <1>4, <1>6, <1>7, <2>1, <2>2, <2>4
       DEF IInv, Ownership, UserWorkKept, WritesTemporary
  <2>10. PermanentAlone' /\ Held'
    BY <1>1, <1>2, <1>4, <2>1, <2>2, <2>4 DEF PermanentAlone, WritesTemporary, Held, Written
  <2>11. QED BY <2>5, <2>6, <2>7, <2>8, <2>9, <2>10 DEF IInv
<1>10. QED BY <1>8, <1>9

LEMMA CreateNothingStep == IInv /\ CreateNothing => IInv'
<1> SUFFICES ASSUME IInv, CreateNothing PROVE IInv'
  OBVIOUS
<1> USE DEF CreateNothing, Goto
<1>1. pc' \in {"count", "load", "insert", "commit"} /\ (pc' = "commit" => call.n = 0)
  BY FillIs DEF IInv
<1>2. ~WritesTemporary /\ call.fun # "append"
  BY DEF Creates, WritesTemporary, IInv, Ownership, Running
<1>3. TypeOK' /\ Creation' /\ CreatedIsNew'
  BY <1>1 DEF IInv, TypeOK, Creation, CreatedIsNew
<1>4. Tentative' /\ Ownership'
  BY <1>1, <1>2 DEF IInv, Tentative, Ownership, Running
<1>5. NoHalfWrite' /\ UserRollbackTakesBack'
  BY <1>1 DEF IInv, Ownership, NoHalfWrite, UserRollbackTakesBack
<1>6. UserWorkKept' /\ PermanentAlone' /\ Held'
  BY <1>1, <1>2 DEF IInv, UserWorkKept, PermanentAlone, WritesTemporary, Held, Written
<1>7. QED BY <1>3, <1>4, <1>5, <1>6 DEF IInv
-----------------------------------------------------------------------------
(* Adding the rows *)

LEMMA BeginAppendStep == IInv /\ BeginAppend => IInv'
<1> SUFFICES ASSUME IInv, BeginAppend PROVE IInv'
  OBVIOUS
<1> DEFINE begins == call.load /\ call.safe
<1>1. /\ pc = "idle" /\ call.fun = "append"
      /\ IF begins /\ transacting
         THEN StopWith(db) /\ UNCHANGED own
         ELSE /\ own' = begins
              /\ transacting' = (transacting \/ begins)
              /\ pc' = CASE begins -> "count"
                         [] call.load /\ ~begins -> "load"
                         [] OTHER -> "insert"
              /\ UNCHANGED <<db, outcome>>
      /\ UNCHANGED <<call, found, before, out, clash, created, userEnd>>
      /\ found \in BOOLEAN
  BY DEF BeginAppend, Exists, IInv, TypeOK
<1>2. Sound(db) /\ ~WritesTemporary
  BY <1>1, TypesOfState DEF IInv, WritesTemporary
<1>3. CASE begins /\ transacting
  <2>1. StopWith(db) /\ own' = own
    BY <1>1, <1>3
  <2>2. transacting => \A t \in Tables : db.rows[t] \subseteq db.uncommitted[t]
    BY DEF IInv, Tentative
  <2>3. QED BY <1>1, <1>2, <2>1, <2>2, StopStep
<1>4. CASE ~(begins /\ transacting)
  <2>1. /\ own' \in BOOLEAN /\ transacting' \in BOOLEAN
        /\ own' <=> begins
        /\ transacting' <=> transacting \/ begins
        /\ own' => ~transacting
        /\ pc' \in {"count", "load", "insert"} /\ db' = db /\ outcome' = outcome
    BY <1>1, <1>4
  <2>2. TypeOK' /\ Creation' /\ CreatedIsNew'
    BY <1>1, <2>1 DEF IInv, TypeOK, Creation, CreatedIsNew
  <2>3. Tentative' /\ Ownership'
    BY <1>1, <1>2, <2>1 DEF IInv, Tentative, Ownership, Running, Sound
  <2>4. NoHalfWrite' /\ UserRollbackTakesBack'
    BY <1>1, <2>1 DEF IInv, Ownership, NoHalfWrite, UserRollbackTakesBack
  <2>5. UserWorkKept' /\ PermanentAlone' /\ Held'
    BY <1>1, <1>2, <2>1 DEF IInv, UserWorkKept, PermanentAlone, WritesTemporary, Held, Written
  <2>6. QED BY <2>2, <2>3, <2>4, <2>5 DEF IInv
<1>5. QED BY <1>3, <1>4

(* The rows added in one statement are uncommitted, in the table the name    *)
(* denotes.                                                                  *)
LEMMA AddedIs ==
  ASSUME IInv, pc \in {"insert", "load"}, Exists(db), NEW rs \in SUBSET Data(N)
  PROVE  LET e == Inserted(db, rs)
             t == Named(db)
         IN
         /\ Sound(e)
         /\ e.shape = db.shape /\ e.others = db.others /\ e.user = db.user
         /\ Named(e) = t /\ t \in Tables
         /\ e.rows[t] = rs
         /\ \A u \in Tables : e.rows[u] \subseteq e.uncommitted[u]
         /\ t = "perm" => e.locked
         /\ WritesTemporary => e.rows["perm"] = {}
<1> DEFINE e == Inserted(db, rs)
           t == Named(db)
<1>1. Sound(db) /\ t \in Tables /\ "perm" \in Tables
  BY TypesOfState, NamedIsTable DEF IInv, Tables
<1>2. \A u \in Tables : db.rows[u] = {}
  BY DEF IInv, Tentative
<1>3. /\ Sound(e)
      /\ e.shape = db.shape /\ e.others = db.others /\ e.user = db.user
      /\ e.rows[t] = db.rows[t] \cup rs /\ e.uncommitted[t] = db.uncommitted[t] \cup rs
      /\ t = "perm" => e.locked
  BY <1>1, InsertedIs
<1>4. \A u \in Tables \ {t} : e.rows[u] = db.rows[u] /\ e.uncommitted[u] = db.uncommitted[u]
  BY <1>1, InsertedIs
<1>5. Named(e) = t
  BY <1>3 DEF Named
<1>6. WritesTemporary => t = "temp"
  BY DEF IInv, PermanentAlone, Named
<1> HIDE DEF e, t
<1>7. e.rows[t] = rs /\ e.uncommitted[t] = db.uncommitted[t] \cup rs
  BY <1>1, <1>2, <1>3
<1>8. \A u \in Tables : e.rows[u] \subseteq e.uncommitted[u]
  BY <1>1, <1>2, <1>4, <1>7
<1>9. WritesTemporary => e.rows["perm"] = {}
  BY <1>1, <1>2, <1>4, <1>6
<1>10. QED BY <1>1, <1>3, <1>5, <1>7, <1>8, <1>9 DEF e, t

LEMMA DataIs ==
  ASSUME TypeOK
  PROVE  /\ call.n \in 0..N /\ call.n <= N /\ N \in Nat
         /\ Data(call.n) \subseteq Data(N)
         /\ \A k \in 0..call.n : Data(k) \subseteq Data(N)
BY TypesOfState, CallAssumption DEF Call, Data

(* An error of a statement that has added rows. *)
LEMMA StopAfterAdding ==
  ASSUME IInv, pc \in {"insert", "load"}, Exists(db), NEW rs \in SUBSET Data(N),
         StopWith(Inserted(db, rs)),
         UNCHANGED <<call, found, own, before, out, clash, created, userEnd>>
  PROVE  IInv'
<1> DEFINE d == Inserted(db, rs)
<1>1. /\ Sound(d) /\ d.shape = db.shape /\ d.others = db.others /\ d.user = db.user
      /\ \A u \in Tables : d.rows[u] \subseteq d.uncommitted[u]
      /\ WritesTemporary => d.rows["perm"] = {}
  BY AddedIs
<1>2. call.fun = "write" => transacting
  BY DEF IInv, Ownership, Running
<1>3. found' \in BOOLEAN /\ found' = found
  BY DEF IInv, TypeOK
<1> HIDE DEF d
<1>4. StopWith(d)
  BY DEF d
<1>5. QED BY <1>1, <1>2, <1>3, <1>4, StopStep

(* An error of a statement that has done nothing. *)
LEMMA StopAfterNothing ==
  ASSUME IInv, pc # "done", StopWith(db),
         UNCHANGED <<call, found, own, before, out, clash, created, userEnd>>
  PROVE  IInv'
<1>1. Sound(db) /\ found' \in BOOLEAN /\ found' = found
  BY TypesOfState DEF IInv, TypeOK
<1>2. transacting => \A t \in Tables : db.rows[t] \subseteq db.uncommitted[t]
  BY DEF IInv, Tentative
<1>3. WritesTemporary => db.rows["perm"] = {}
  BY DEF IInv, PermanentAlone
<1>4. QED BY <1>1, <1>2, <1>3, StopStep

LEMMA InsertStep == IInv /\ Insert => IInv'
<1> SUFFICES ASSUME IInv, Insert PROVE IInv'
  OBVIOUS
<1> DEFINE bad == Clashing(db)
           first == IF bad = {} THEN Data(call.n)
                    ELSE {k \in Data(call.n) : \A b \in bad : k < b}
<1>1. /\ pc = "insert"
      /\ UNCHANGED <<call, found, own, before, clash, created, userEnd>>
  BY DEF Insert
<1>2. first \in SUBSET Data(N)
  BY DataIs DEF IInv
<1>3. CASE ~Exists(db)
  BY <1>1, <1>3, StopAfterNothing DEF Insert
<1>4. CASE Exists(db) /\ bad # {}
  <2>1. StopWith(Inserted(db, first)) /\ out' = out
    BY <1>4 DEF Insert
  <2> HIDE DEF first, bad
  <2>2. QED BY <1>1, <1>2, <1>4, <2>1, StopAfterAdding
<1>5. CASE Exists(db) /\ bad = {}
  <2> DEFINE e == Inserted(db, Data(call.n))
             t == Named(db)
  <2>1. /\ db' \in Autocommits(e)
        /\ out' = call.n /\ pc' = "commit" /\ outcome' = outcome
        /\ transacting' = transacting
    BY <1>5 DEF Insert, Goto
  <2>2. Data(call.n) \in SUBSET Data(N) /\ call.n \in 0..N /\ "perm" \in Tables
    BY DataIs DEF IInv, Tables
  <2>3. /\ Sound(e)
        /\ e.shape = db.shape /\ e.others = db.others /\ e.user = db.user
        /\ Named(e) = t /\ t \in Tables
        /\ e.rows[t] = Data(call.n)
        /\ \A u \in Tables : e.rows[u] \subseteq e.uncommitted[u]
        /\ t = "perm" => e.locked
        /\ WritesTemporary => e.rows["perm"] = {}
    BY <1>1, <1>5, <2>2, AddedIs
  <2> HIDE DEF e, t
  <2>4. db.user = "pending" => transacting
    BY DEF IInv, UserWorkKept
  <2>5. /\ Sound(db')
        /\ db'.shape = db.shape /\ db'.others = db.others /\ db'.user = db.user
        /\ \A u \in Tables : db'.rows[u] \subseteq e.rows[u]
        /\ transacting => db' = e
    BY <2>1, <2>3, <2>4, AutocommitsIs
  <2>6. TypeOK'
    BY <1>1, <2>1, <2>2, <2>5 DEF IInv, TypeOK, Sound
  <2>7. Tentative' /\ Ownership'
    BY <1>1, <2>1, <2>3, <2>5 DEF IInv, Tentative, Ownership, Running
  <2>8. NoHalfWrite' /\ UserRollbackTakesBack'
    BY <1>1, <2>1 DEF IInv, Ownership, NoHalfWrite, UserRollbackTakesBack
  <2>9. Creation' /\ CreatedIsNew'
    BY <1>1, <2>1, <2>5 DEF IInv, Creation, CreatedIsNew
  <2>10. UserWorkKept'
    BY <1>1, <2>1, <2>5 DEF IInv, Ownership, UserWorkKept, WritesTemporary
  <2>11. PermanentAlone'
    BY <1>1, <2>1, <2>2, <2>3, <2>5 DEF IInv, PermanentAlone, WritesTemporary
  <2>12. Held'
    <3>1. own => transacting
      BY <1>1 DEF IInv, Ownership
    <3>2. QED BY <1>1, <2>1, <2>3, <2>5, <3>1 DEF Held, Written
  <2>13. QED BY <2>6, <2>7, <2>8, <2>9, <2>10, <2>11, <2>12 DEF IInv
<1>6. QED BY <1>3, <1>4, <1>5
LEMMA CardinalityOfData ==
  ASSUME NEW n \in Nat
  PROVE  /\ IsFiniteSet(Data(n)) /\ Cardinality(Data(n)) = n
         /\ \A rs \in SUBSET Data(n) : /\ Cardinality(rs) \in 0..n
                                       /\ Cardinality(rs) = n => rs = Data(n)
<1>1. IsFiniteSet(Data(n)) /\ Cardinality(Data(n)) = n
  BY FS_Interval DEF Data
<1>2. ASSUME NEW rs \in SUBSET Data(n)
      PROVE  Cardinality(rs) \in 0..n /\ (Cardinality(rs) = n => rs = Data(n))
  <2>1. IsFiniteSet(rs) /\ Cardinality(rs) <= n /\ (Cardinality(rs) = n => rs = Data(n))
    BY <1>1, FS_Subset
  <2>2. Cardinality(rs) \in Nat
    BY <2>1, FS_CardinalityType
  <2>3. QED BY <2>1, <2>2
<1>3. QED BY <1>1, <1>2

LEMMA CardinalityOfRows ==
  ASSUME NEW d, Sound(d), NEW t \in Tables
  PROVE  /\ Cardinality(d.rows[t]) \in Nat /\ Cardinality(d.others[t]) \in Nat
         /\ Cardinality(d.uncommitted[t]) \in 0..N
<1>1. N \in Nat
  BY CallAssumption
<1>2. /\ d.rows[t] \in SUBSET Data(N) /\ d.uncommitted[t] \in SUBSET Data(N)
      /\ d.others[t] \in SUBSET {"old", "theirs", "peer"}
  BY SoundParts
<1>3. IsFiniteSet({"old", "theirs", "peer"})
  <2>1. IsFiniteSet({"old"})
    BY FS_Singleton
  <2>2. IsFiniteSet({"old"} \cup {"theirs"})
    BY <2>1, FS_AddElement
  <2>3. IsFiniteSet(({"old"} \cup {"theirs"}) \cup {"peer"})
    BY <2>2, FS_AddElement
  <2>4. {"old", "theirs", "peer"} = ({"old"} \cup {"theirs"}) \cup {"peer"}
    OBVIOUS
  <2>5. QED BY <2>3, <2>4
<1>4. Cardinality(d.others[t]) \in Nat
  BY <1>2, <1>3, FS_Subset, FS_CardinalityType
<1>5. /\ Cardinality(d.rows[t]) \in 0..N /\ Cardinality(d.uncommitted[t]) \in 0..N
  BY <1>1, <1>2, CardinalityOfData
<1>6. QED BY <1>4, <1>5

LEMMA CountedIs ==
  ASSUME NEW d, Sound(d)
  PROVE  Counted(d) \in Nat
BY CardinalityOfRows, NamedIsTable DEF Counted

(* The rows are counted before there are any of the call's. *)
LEMMA CountBeforeStep == IInv /\ CountBefore => IInv'
<1> SUFFICES ASSUME IInv, CountBefore PROVE IInv'
  OBVIOUS
<1>1. /\ pc = "count"
      /\ UNCHANGED <<call, found, own, out, clash, created, userEnd>>
  BY DEF CountBefore
<1>2. Sound(db)
  BY TypesOfState DEF IInv
<1>3. CASE ~Exists(db)
  BY <1>1, <1>3, StopAfterNothing DEF CountBefore
<1>4. CASE Exists(db)
  <2>1. /\ db' \in Autocommits(Touched(db))
        /\ before' = Counted(db) /\ pc' = "load"
        /\ outcome' = outcome /\ transacting' = transacting
    BY <1>4 DEF CountBefore, Goto
  <2>2. /\ Sound(Touched(db)) /\ Touched(db).shape = db.shape
        /\ Touched(db).rows = db.rows /\ Touched(db).others = db.others
        /\ Touched(db).uncommitted = db.uncommitted /\ Touched(db).user = db.user
    BY <1>2, TouchedIs
  <2>3. db.user = "pending" => transacting
    BY DEF IInv, UserWorkKept
  <2>4. /\ Sound(db') /\ db'.shape = db.shape /\ db'.others = db.others
        /\ db'.user = db.user
        /\ \A t \in Tables : db'.rows[t] \subseteq db.rows[t]
        /\ transacting => db'.uncommitted = db.uncommitted
    BY <2>1, <2>2, <2>3, AutocommitsIs
  <2>5. before' \in Nat
    BY <1>2, <2>1, CountedIs
  <2>6. \A t \in Tables : db'.rows[t] = {}
    BY <1>1, <2>4 DEF IInv, Tentative
  <2>7. TypeOK'
    BY <1>1, <2>1, <2>4, <2>5 DEF IInv, TypeOK, Sound
  <2>8. Tentative' /\ Ownership'
    BY <1>1, <2>1, <2>6 DEF IInv, Tentative, Ownership, Running
  <2>9. NoHalfWrite' /\ UserRollbackTakesBack'
    BY <2>6 DEF NoHalfWrite, UserRollbackTakesBack
  <2>10. Creation' /\ CreatedIsNew'
    BY <1>1, <2>1, <2>4 DEF IInv, Creation, CreatedIsNew
  <2>11. UserWorkKept'
    BY <1>1, <2>1, <2>4 DEF IInv, Ownership, UserWorkKept, WritesTemporary
  <2>12. PermanentAlone' /\ Held'
    <3>1. "perm" \in Tables
      BY DEF Tables
    <3>2. QED
      BY <1>1, <2>1, <2>4, <2>6, <3>1 DEF IInv, PermanentAlone, WritesTemporary, Held, Written
  <2>13. QED BY <2>7, <2>8, <2>9, <2>10, <2>11, <2>12 DEF IInv
<1>5. QED BY <1>3, <1>4

(* LOAD DATA: the rows that were added are counted, by the server or later. *)
LEMMA LoadDataStep == IInv /\ LoadData => IInv'
<1> SUFFICES ASSUME IInv, LoadData PROVE IInv'
  OBVIOUS
<1> DEFINE rs == Data(call.n) \ Clashing(db)
<1>1. /\ pc = "load"
      /\ UNCHANGED <<call, found, own, before, clash, created, userEnd>>
  BY DEF LoadData
<1>2. rs \in SUBSET Data(N) /\ rs \subseteq Data(call.n) /\ call.n \in 0..N /\ N \in Nat
      /\ "perm" \in Tables
  BY DataIs DEF IInv, Tables
<1>3. CASE ~Exists(db)
  BY <1>1, <1>3, StopAfterNothing DEF LoadData
<1>4. CASE Exists(db)
  <2> DEFINE e == Inserted(db, rs)
             t == Named(db)
  <2>1. /\ db' \in Autocommits(e)
        /\ out' \in {0, Cardinality(rs)}
        /\ IF Safe THEN pc' = (IF out' = 0 THEN "recount" ELSE "check") /\ outcome' = outcome
           ELSE pc' = "done" /\ outcome' = "ok"
        /\ transacting' = transacting
    BY <1>4 DEF LoadData, Goto, Return
  <2> HIDE DEF rs
  <2>2. /\ Sound(e)
        /\ e.shape = db.shape /\ e.others = db.others /\ e.user = db.user
        /\ Named(e) = t /\ t \in Tables
        /\ e.rows[t] = rs
        /\ \A u \in Tables : e.rows[u] \subseteq e.uncommitted[u]
        /\ t = "perm" => e.locked
        /\ WritesTemporary => e.rows["perm"] = {}
    BY <1>1, <1>2, <1>4, AddedIs
  <2> HIDE DEF e, t
  <2>3. db.user = "pending" => transacting
    BY DEF IInv, UserWorkKept
  <2>4. /\ Sound(db')
        /\ db'.shape = db.shape /\ db'.others = db.others /\ db'.user = db.user
        /\ \A u \in Tables : db'.rows[u] \subseteq e.rows[u]
        /\ transacting => db' = e
    BY <2>1, <2>2, <2>3, AutocommitsIs
  <2>5. out' \in 0..N
    BY <1>2, <2>1, CardinalityOfData
  <2>6. /\ pc' \in {"recount", "check", "done"} /\ outcome' \in {"none", "ok"}
        /\ pc' # "done" => outcome' = "none"
        /\ pc' = "check" => out' = Cardinality(rs)
    BY <1>1, <2>1 DEF IInv, Ownership
  <2>7. pc' = "done" => ~own
    BY <1>1, <2>1 DEF IInv, Ownership, Safe
  <2>8. TypeOK'
    BY <1>1, <2>1, <2>4, <2>5, <2>6 DEF IInv, TypeOK, Sound
  <2>9. Tentative' /\ Ownership'
    BY <1>1, <2>1, <2>2, <2>4, <2>6, <2>7 DEF IInv, Tentative, Ownership, Running
  <2>10. NoHalfWrite' /\ UserRollbackTakesBack'
    BY <1>1, <2>6 DEF IInv, Ownership, NoHalfWrite, UserRollbackTakesBack
  <2>11. Creation' /\ CreatedIsNew'
    BY <1>1, <2>4, <2>6 DEF IInv, Creation, CreatedIsNew
  <2>12. UserWorkKept'
    BY <1>1, <2>1, <2>4, <2>6 DEF IInv, Ownership, UserWorkKept, WritesTemporary
  <2>13. PermanentAlone'
    BY <1>1, <1>2, <2>2, <2>4, <2>6 DEF IInv, PermanentAlone, WritesTemporary
  <2>14. Held'
    <3>1. own => transacting
      BY <1>1 DEF IInv, Ownership
    <3>2. QED BY <1>1, <1>2, <2>1, <2>2, <2>4, <2>6, <2>7, <3>1 DEF Held, Written
  <2>15. QED BY <2>8, <2>9, <2>10, <2>11, <2>12, <2>13, <2>14 DEF IInv
<1>5. QED BY <1>3, <1>4

(* A repeatable read finds exactly the rows that the call has added. *)
LEMMA CountAfterStep == IInv /\ CountAfter => IInv'
<1> SUFFICES ASSUME IInv, CountAfter PROVE IInv'
  OBVIOUS
<1> DEFINE t == Named(db)
<1>1. /\ pc = "recount" /\ pc' = "check" /\ outcome' = outcome
      /\ db' \in Autocommits(Touched(db)) /\ out' = CountedAgain - before
      /\ UNCHANGED <<call, found, own, before, transacting, clash, created, userEnd>>
  BY DEF CountAfter, Goto
<1>2. Sound(db) /\ t \in Tables /\ before \in Nat
  BY TypesOfState, NamedIsTable DEF IInv, TypeOK
<1>3. /\ Sound(Touched(db)) /\ Touched(db).shape = db.shape
      /\ Touched(db).rows = db.rows /\ Touched(db).others = db.others
      /\ Touched(db).uncommitted = db.uncommitted /\ Touched(db).user = db.user
      /\ t = "perm" => Touched(db).locked
  BY <1>2, TouchedIs
<1>4. db.user = "pending" => transacting
  BY DEF IInv, UserWorkKept
<1>5. /\ Sound(db') /\ db'.shape = db.shape /\ db'.others = db.others
      /\ db'.user = db.user
      /\ \A u \in Tables : db'.rows[u] \subseteq db.rows[u]
      /\ transacting => db' = Touched(db)
  BY <1>1, <1>3, <1>4, AutocommitsIs
<1>6. Named(db') = t
  BY <1>5 DEF Named
<1> HIDE DEF t
<1>7. /\ out' \in Int
      /\ call.repeatable => out' = Cardinality(db.uncommitted[t]) /\ out' \in 0..N
  <2>1. Cardinality(db.uncommitted[t]) \in 0..N /\ Counted(db) \in Nat /\ N \in Nat
    BY <1>2, CardinalityOfRows, CountedIs, CallAssumption
  <2>2. CASE call.repeatable
    <3>1. out' = (before + Cardinality(db.uncommitted[t])) - before
      BY <1>1, <2>2 DEF CountedAgain, t
    <3>2. QED BY <1>2, <2>1, <3>1
  <2>3. CASE ~call.repeatable
    <3>1. out' = Counted(db) - before
      BY <1>1, <2>3 DEF CountedAgain
    <3>2. QED BY <1>2, <2>1, <2>3, <3>1
  <2>4. QED BY <2>2, <2>3
<1>8. TypeOK'
  BY <1>1, <1>5, <1>7 DEF IInv, TypeOK, Sound
<1>9. Tentative' /\ Ownership'
  BY <1>1, <1>3, <1>5 DEF IInv, Tentative, Ownership, Running
<1>10. NoHalfWrite' /\ UserRollbackTakesBack'
  BY <1>1 DEF IInv, Ownership, NoHalfWrite, UserRollbackTakesBack
<1>11. Creation' /\ CreatedIsNew'
  BY <1>1, <1>5 DEF IInv, Creation, CreatedIsNew
<1>12. UserWorkKept'
  BY <1>1, <1>5 DEF IInv, Ownership, UserWorkKept, WritesTemporary
<1>13. PermanentAlone'
  <2>1. "perm" \in Tables
    BY DEF Tables
  <2>2. QED BY <1>1, <1>5, <2>1 DEF IInv, PermanentAlone, WritesTemporary
<1>14. Held'
  <2> SUFFICES ASSUME own
               PROVE  /\ t = "perm" => db'.locked
                      /\ db'.rows[t] \subseteq Data(call.n)
                      /\ call.repeatable => out' = Cardinality(db'.rows[t])
    BY <1>1, <1>6 DEF Held, Written
  <2>1. db' = Touched(db)
    BY <1>1, <1>5 DEF IInv, Ownership
  <2>2. db'.rows[t] = db.rows[t] /\ db.rows[t] \subseteq Data(call.n)
    BY <1>1, <1>3, <2>1 DEF IInv, Held, Written, t
  <2>3. db.rows[t] = db.uncommitted[t]
    BY <1>1, <1>2 DEF IInv, TypeOK, Tentative, Ownership
  <2>4. QED BY <1>3, <1>7, <2>1, <2>2, <2>3
<1>15. QED
  BY <1>8, <1>9, <1>10, <1>11, <1>12, <1>13, <1>14 DEF IInv

LEMMA CheckStep == IInv /\ Check => IInv'
<1> SUFFICES ASSUME IInv, Check PROVE IInv'
  OBVIOUS
<1> DEFINE short == own /\ out < call.n
<1>1. /\ pc = "check"
      /\ IF short THEN StopWith(db) ELSE Goto("commit") /\ UNCHANGED <<db, transacting>>
      /\ UNCHANGED <<call, found, own, before, out, clash, created, userEnd>>
  BY DEF Check
<1>2. CASE short
  <2>1. StopWith(db)
    BY <1>1, <1>2
  <2>2. QED BY <1>1, <2>1, StopAfterNothing
<1>3. CASE ~short
  <2>1. pc' = "commit" /\ outcome' = outcome /\ db' = db /\ transacting' = transacting
    BY <1>1, <1>3 DEF Goto
  <2>2. TypeOK' /\ Creation' /\ CreatedIsNew'
    BY <1>1, <2>1 DEF IInv, TypeOK, Creation, CreatedIsNew
  <2>3. Tentative' /\ Ownership'
    BY <1>1, <2>1 DEF IInv, Tentative, Ownership, Running
  <2>4. NoHalfWrite' /\ UserRollbackTakesBack'
    BY <1>1, <2>1 DEF IInv, Ownership, NoHalfWrite, UserRollbackTakesBack
  <2>5. UserWorkKept' /\ PermanentAlone'
    BY <1>1, <2>1 DEF IInv, UserWorkKept, PermanentAlone, WritesTemporary
  <2>6. Held'
    <3>1. own /\ call.repeatable => Data(call.n) \subseteq db.rows[Named(db)]
      <4> SUFFICES ASSUME own, call.repeatable PROVE Data(call.n) \subseteq db.rows[Named(db)]
        OBVIOUS
      <4>1. /\ db.rows[Named(db)] \in SUBSET Data(call.n)
            /\ out = Cardinality(db.rows[Named(db)])
        BY <1>1 DEF IInv, Held, Written
      <4>2. call.n \in Nat /\ out \in Int /\ ~(out < call.n)
        BY <1>3, DataIs DEF IInv, TypeOK
      <4>3. out \in 0..call.n
        BY <4>1, <4>2, CardinalityOfData
      <4>4. out = call.n
        BY <4>2, <4>3
      <4>5. QED BY <4>1, <4>2, <4>4, CardinalityOfData
    <3>2. own /\ Named(db) = "perm" => db.locked
      BY <1>1 DEF IInv, Held, Written
    <3>3. QED BY <1>1, <2>1, <3>1, <3>2 DEF Held
  <2>7. QED BY <2>2, <2>3, <2>4, <2>5, <2>6 DEF IInv
<1>4. QED BY <1>2, <1>3

LEMMA FinishStep == IInv /\ Finish => IInv'
<1> SUFFICES ASSUME IInv, Finish PROVE IInv'
  OBVIOUS
<1>1. /\ pc = "commit" /\ pc' = "done" /\ outcome' = "ok"
      /\ db' \in IF own THEN Commits(db) ELSE {db}
      /\ transacting' \in BOOLEAN
      /\ own => ~transacting'
      /\ ~own => transacting' = transacting
      /\ UNCHANGED <<call, found, own, before, out, clash, created, userEnd>>
  BY DEF Finish, Return, IInv, TypeOK
<1>2. Sound(db)
  BY TypesOfState DEF IInv
<1>3. own => db.user # "pending"
  BY DEF IInv, UserWorkKept
<1>4. /\ Sound(db') /\ db'.shape = db.shape /\ db'.others = db.others
      /\ \A t \in Tables : db'.rows[t] \subseteq db.rows[t]
      /\ db'.user = db.user
      /\ ~own => db' = db
  BY <1>1, <1>2, <1>3, CommitsIs
<1>5. TypeOK' /\ Creation' /\ CreatedIsNew'
  BY <1>1, <1>4 DEF IInv, TypeOK, Sound, Creation, CreatedIsNew
<1>6. Tentative' /\ Ownership'
  BY <1>1, <1>4 DEF IInv, Tentative, Ownership, Running
<1>7. NoHalfWrite' /\ UserRollbackTakesBack'
  BY <1>1 DEF IInv, Ownership, NoHalfWrite, UserRollbackTakesBack
<1>8. UserWorkKept'
  BY <1>1, <1>3, <1>4 DEF IInv, UserWorkKept, WritesTemporary
<1>9. PermanentAlone' /\ Held'
  <2>1. "perm" \in Tables
    BY DEF Tables
  <2>2. QED BY <1>1, <1>4, <2>1 DEF IInv, PermanentAlone, WritesTemporary, Held, Written
<1>10. QED BY <1>5, <1>6, <1>7, <1>8, <1>9 DEF IInv
-----------------------------------------------------------------------------
(* Failures, other sessions *)

(* The implicit commit of a DDL statement that fails commits the user's work *)
(* of a call that may do so, and none of the data.                           *)
LEMMA StopAfterDDL ==
  ASSUME IInv, pc \in {"remove", "create"}, NEW temporary \in BOOLEAN,
         StopWith(BeforeDDL(temporary, db)),
         WritesTemporary => temporary,
         WritesTemporary \/ call.overwrite \/ ~found,
         UNCHANGED <<call, found, own, before, out, clash, created, userEnd>>
  PROVE  IInv'
<1>1. CASE temporary
  <2>1. StopWith(db)
    BY <1>1 DEF BeforeDDL
  <2>2. QED BY <2>1, StopAfterNothing
<1>2. CASE ~temporary
  <2>1. StopWith(Committed(db))
    BY <1>2 DEF BeforeDDL
  <2>2. Sound(db)
    BY TypesOfState DEF IInv
  <2>3. /\ Sound(Committed(db)) /\ Committed(db).rows = db.rows
        /\ Committed(db).shape = db.shape /\ Committed(db).others = db.others
        /\ Committed(db).user = db.user \/ Committed(db).user = "durable"
    BY <2>2, CommittedIs
  <2>4. ~WritesTemporary /\ call.fun # "append" /\ (call.fun = "write" => transacting)
    BY <1>2 DEF IInv, Ownership, Running
  <2>5. /\ \A t \in Tables : db.rows[t] = {}
        /\ created = "none"
    BY DEF IInv, Tentative, Creation
  <2>6. found' \in BOOLEAN /\ found' = found
    BY DEF IInv, TypeOK
  <2>7. QED BY <2>1, <2>3, <2>4, <2>5, <2>6, StopStep
<1>3. QED BY <1>1, <1>2

LEMMA StatementFailsStep == IInv /\ StatementFails => IInv'
<1> SUFFICES ASSUME IInv, StatementFails PROVE IInv'
  OBVIOUS
<1>1. UNCHANGED <<call, found, own, before, out, clash, created, userEnd>>
  BY DEF StatementFails
<1>2. CASE pc = "remove" /\ Removes /\ StopWith(BeforeDDL(DropsTemporary, db))
  <2>1. WritesTemporary => DropsTemporary
    BY DEF WritesTemporary, DropsTemporary
  <2>2. call.overwrite
    BY <1>2 DEF Removes
  <2>3. CASE DropsTemporary
    <3>1. StopWith(db)
      BY <1>2, <2>3 DEF BeforeDDL
    <3>2. QED BY <1>1, <1>2, <3>1, StopAfterNothing
  <2>4. CASE ~DropsTemporary
    <3>1. StopWith(BeforeDDL(FALSE, db))
      BY <1>2, <2>4 DEF BeforeDDL
    <3>2. QED BY <1>1, <1>2, <2>1, <2>2, <2>4, <3>1, StopAfterDDL
  <2>5. QED BY <2>3, <2>4
<1>3. CASE pc = "create" /\ Creates /\ StopWith(BeforeDDL(call.temporary, db))
  <2>1. call.temporary \in BOOLEAN
    BY TypesOfState DEF IInv, Call
  <2>2. WritesTemporary => call.temporary
    BY DEF WritesTemporary
  <2>3. WritesTemporary \/ call.overwrite \/ ~found
    BY <1>3 DEF Creates, WritesTemporary
  <2>4. QED BY <1>1, <1>3, <2>1, <2>2, <2>3, StopAfterDDL
<1>4. CASE pc \in {"create", "count", "load", "recount"} /\ StopWith(db)
  BY <1>1, <1>4, StopAfterNothing
<1>5. CASE /\ pc = "insert" /\ Exists(db)
           /\ \E k \in 0..call.n : /\ Data(k) \cap Clashing(db) = {}
                                   /\ StopWith(Inserted(db, Data(k)))
  <2>1. PICK k \in 0..call.n : StopWith(Inserted(db, Data(k)))
    BY <1>5
  <2>2. Data(k) \in SUBSET Data(N)
    BY DataIs DEF IInv
  <2>3. QED BY <1>1, <1>5, <2>1, <2>2, StopAfterAdding
<1>6. QED BY <1>2, <1>3, <1>4, <1>5 DEF StatementFails

LEMMA PeerCreatesStep ==
  ASSUME IInv, NEW shape \in {"plain", "keyed"}, PeerCreates(shape)
  PROVE  IInv'
<1> USE DEF PeerCreates
<1>1. /\ Sound(db) /\ db \in Database /\ "perm" \in Tables /\ Tables = {"perm", "temp"}
  BY TypesOfState DEF IInv, Sound, Tables
<1>2. /\ db'.shape = [db.shape EXCEPT !["perm"] = shape]
      /\ db'.others = [db.others EXCEPT !["perm"] = {"theirs"}]
      /\ db'.rows = db.rows /\ db'.uncommitted = db.uncommitted
      /\ db'.user = db.user /\ db'.locked = db.locked
  BY <1>1 DEF Database
<1>3. db' \in Database
  BY <1>1 DEF Database
<1>4. /\ db'.shape["perm"] = shape /\ db'.shape["temp"] = db.shape["temp"]
      /\ db'.others["temp"] = db.others["temp"]
      /\ Named(db') = Named(db)
  BY <1>1, <1>2, SoundParts DEF Named
<1>5. TypeOK'
  BY <1>1, <1>2, <1>3, <1>4 DEF IInv, TypeOK
<1>6. Tentative' /\ Ownership'
  BY <1>2 DEF IInv, Tentative, Ownership, Running
<1>7. NoHalfWrite' /\ UserRollbackTakesBack'
  BY <1>2 DEF IInv, NoHalfWrite, UserRollbackTakesBack
<1>8. Creation' /\ CreatedIsNew'
  <2>1. created # "perm" /\ created \in Tables \cup {"none"}
    BY DEF IInv, TypeOK, Creation
  <2>2. created = "none" \/ created = "temp"
    BY <1>1, <2>1
  <2>3. QED BY <1>4, <2>2 DEF IInv, Creation, CreatedIsNew
<1>9. UserWorkKept'
  BY <1>2 DEF IInv, UserWorkKept, WritesTemporary
<1>10. PermanentAlone' /\ Held'
  BY <1>2, <1>4 DEF IInv, PermanentAlone, WritesTemporary, Held, Written
<1>11. QED BY <1>5, <1>6, <1>7, <1>8, <1>9, <1>10 DEF IInv

LEMMA PeerInsertsStep == IInv /\ PeerInserts => IInv'
<1> SUFFICES ASSUME IInv, PeerInserts PROVE IInv'
  OBVIOUS
<1> USE DEF PeerInserts
<1>1. Sound(db) /\ db \in Database /\ "perm" \in Tables
  BY TypesOfState DEF IInv, Sound, Tables
<1>2. /\ db'.others = [db.others EXCEPT !["perm"] = @ \cup {"peer"}]
      /\ db'.shape = db.shape
      /\ db'.rows = db.rows /\ db'.uncommitted = db.uncommitted
      /\ db'.user = db.user /\ db'.locked = db.locked
  BY <1>1 DEF Database
<1>3. db' \in Database
  BY <1>1 DEF Database
<1>4. /\ \A t \in Tables : db'.others[t] \subseteq db.others[t] \cup {"peer"}
      /\ \A t \in Tables : db.shape[t] = "none" => db'.others[t] = {}
      /\ Named(db') = Named(db)
  BY <1>1, <1>2, SoundParts DEF Sound, Named
<1>5. TypeOK'
  BY <1>1, <1>2, <1>3, <1>4 DEF IInv, TypeOK
<1>6. Tentative' /\ Ownership'
  BY <1>2 DEF IInv, Tentative, Ownership, Running
<1>7. NoHalfWrite' /\ UserRollbackTakesBack'
  BY <1>2 DEF IInv, NoHalfWrite, UserRollbackTakesBack
<1>8. Creation' /\ CreatedIsNew'
  BY <1>2, <1>4 DEF IInv, TypeOK, Creation, CreatedIsNew
<1>9. UserWorkKept'
  BY <1>2 DEF IInv, UserWorkKept, WritesTemporary
<1>10. PermanentAlone' /\ Held'
  BY <1>2, <1>4 DEF IInv, PermanentAlone, WritesTemporary, Held, Written
<1>11. QED BY <1>5, <1>6, <1>7, <1>8, <1>9, <1>10 DEF IInv

(* The metadata lock keeps the table that rows were added to. *)
LEMMA PeerDropsStep == IInv /\ PeerDrops => IInv'
<1> SUFFICES ASSUME IInv, PeerDrops PROVE IInv'
  OBVIOUS
<1> USE DEF PeerDrops
<1>1. Sound(db) /\ "perm" \in Tables /\ Tables = {"perm", "temp"}
  BY TypesOfState DEF IInv, Tables
<1>2. /\ Sound(db') /\ db'.rows["perm"] = {} /\ db'.uncommitted["perm"] = {}
      /\ db'.user = db.user /\ db'.locked = db.locked
  BY <1>1, DroppedIs
<1>3. "temp" \in Tables \ {"perm"}
  BY <1>1
<1>4. /\ db'.shape["temp"] = db.shape["temp"] /\ db'.rows["temp"] = db.rows["temp"]
      /\ db'.others["temp"] = db.others["temp"]
      /\ db'.uncommitted["temp"] = db.uncommitted["temp"]
      /\ Named(db') = Named(db)
  BY <1>1, <1>3, DroppedIs DEF Named
<1>5. TypeOK'
  BY <1>1, <1>2 DEF IInv, TypeOK, Sound
<1>6. Tentative' /\ Ownership'
  BY <1>1, <1>2, <1>4 DEF IInv, Tentative, Ownership, Running
<1>7. NoHalfWrite' /\ UserRollbackTakesBack'
  BY <1>1, <1>2, <1>4 DEF IInv, NoHalfWrite, UserRollbackTakesBack
<1>8. Creation' /\ CreatedIsNew'
  <2>1. created' = "none" \/ (created' = created /\ created = "temp")
    BY <1>1 DEF IInv, TypeOK
  <2>2. QED BY <1>4, <2>1 DEF IInv, Creation, CreatedIsNew
<1>9. UserWorkKept'
  BY <1>2 DEF IInv, UserWorkKept, WritesTemporary
<1>10. PermanentAlone' /\ Held'
  <2>1. PermanentAlone'
    BY <1>2, <1>4 DEF IInv, PermanentAlone, WritesTemporary
  <2>2. own /\ Written /\ (pc # "commit" \/ call.n > 0) => Named(db) = "temp"
    BY NamedIsTable, <1>1 DEF IInv, Held
  <2>3. QED BY <1>2, <1>4, <2>1, <2>2 DEF IInv, Held, Written
<1>11. QED BY <1>5, <1>6, <1>7, <1>8, <1>9, <1>10 DEF IInv

-----------------------------------------------------------------------------
LEMMA IInvInit == Init => IInv
<1> SUFFICES ASSUME Init PROVE IInv
  OBVIOUS
<1> USE DEF Init
<1>1. PICK shape \in [Tables -> {"none", "plain", "keyed"}] :
         db = [shape |-> shape, rows |-> Nothing,
               others |-> [t \in Tables |-> IF shape[t] = "none" THEN {} ELSE {"old"}],
               uncommitted |-> Nothing, user |-> "none", locked |-> FALSE]
  OBVIOUS
<1>2. Nothing \in [Tables -> SUBSET Data(N)] /\ \A t \in Tables : Nothing[t] = {}
  BY DEF Nothing
<1>3. db \in Database
  BY <1>1, <1>2 DEF Database
<1>4. TypeOK
  <2>1. \A t \in Tables : /\ db.uncommitted[t] \subseteq db.rows[t]
                          /\ db.shape[t] = "none" => db.rows[t] = {} /\ db.others[t] = {}
    BY <1>1, <1>2
  <2>2. /\ {found, own, transacting} \subseteq BOOLEAN
        /\ out \in 0..N /\ out \in Int /\ before \in Nat
    <3>1. found = FALSE /\ own = FALSE /\ transacting = FALSE /\ out = 0 /\ before = 0
      OBVIOUS
    <3> HIDE DEF Init
    <3>2. {found, own, transacting} \subseteq BOOLEAN
      BY <3>1
    <3>3. out \in 0..N /\ out \in Int /\ before \in Nat
      BY <3>1, CallAssumption
    <3>4. QED BY <3>2, <3>3
  <2>3. /\ call \in Calls /\ clash \subseteq Data(N)
        /\ pc \in {"idle", "exists", "remove", "create", "insert", "count", "load",
                   "recount", "check", "commit", "done"}
        /\ created \in Tables \cup {"none"}
        /\ outcome \in {"none", "ok", "error"}
        /\ userEnd \in {"none", "commit", "rollback"}
    OBVIOUS
  <2> HIDE DEF Init
  <2>4. QED BY <1>3, <2>1, <2>2, <2>3 DEF TypeOK
<1>5. /\ \A t \in Tables : db.rows[t] = {}
      /\ db.user = "none"
  BY <1>1, <1>2
<1>6. "perm" \in Tables
  BY DEF Tables
<1>7. QED
  BY <1>4, <1>5, <1>6 DEF IInv, Tentative, Ownership, Running, NoHalfWrite, Creation,
     CreatedIsNew, UserWorkKept, UserRollbackTakesBack, PermanentAlone, WritesTemporary, Held,
     Written

LEMMA IInvStep == IInv /\ [Next]_vars => IInv'
<1> SUFFICES ASSUME IInv, [Next]_vars PROVE IInv'
  OBVIOUS
<1>1. CASE UNCHANGED vars
  BY <1>1 DEF vars, IInv, TypeOK, Tentative, Ownership, Running, NoHalfWrite, Creation,
     CreatedIsNew, UserWorkKept, UserRollbackTakesBack, PermanentAlone, WritesTemporary, Held,
     Written
<1>2. CASE User
  BY <1>2, UserBeginStep, UserWorkStep, UserEndsStep DEF User
<1>3. CASE Begin
  BY <1>3, BeginWriteStep, RefuseArgumentsStep, BeginAppendStep DEF Begin
<1>4. CASE Statement
  BY <1>4, AskExistsStep, RemoveStep, RemoveNothingStep, CreateStep, CreateNothingStep,
     InsertStep, CountBeforeStep, LoadDataStep, CountAfterStep, CheckStep,
     FinishStep, StatementFailsStep DEF Statement
<1>5. CASE Peer
  BY <1>5, PeerCreatesStep, PeerInsertsStep, PeerDropsStep DEF Peer
<1>6. QED BY <1>1, <1>2, <1>3, <1>4, <1>5 DEF Next

THEOREM Invariance == Spec => []IInv
BY IInvInit, IInvStep, PTL DEF Spec

(* Every variable keeps its type, and only the call's rows are uncommitted. *)
THEOREM TypeCorrect == Spec => []TypeOK
<1>1. IInv => TypeOK
  BY DEF IInv
<1>2. QED BY <1>1, Invariance, PTL

(* dbWriteTable() and the safe dbAppendTable() leave no rows when they fail. *)
THEOREM WritesAreWhole == Spec => []NoHalfWrite
<1>1. IInv => NoHalfWrite
  BY DEF IInv
<1>2. QED BY <1>1, Invariance, PTL

(* What the call creates does not hold the rows of an older table. *)
THEOREM CreatesNewTables == Spec => []CreatedIsNew
<1>1. IInv => CreatedIsNew
  BY DEF IInv
<1>2. QED BY <1>1, Invariance, PTL

(* The user's transaction survives the call, DDL on permanent tables apart. *)
THEOREM KeepsUserTransaction == Spec => []UserTransactionKept
<1>1. IInv => UserTransactionKept
  BY DEF IInv, UserWorkKept, WritesTemporary, UserTransactionKept
<1>2. QED BY <1>1, Invariance, PTL

(* dbRollback() by the user takes back what the call has added. *)
THEOREM RollbackTakesBack == Spec => []UserRollbackTakesBack
<1>1. IInv => UserRollbackTakesBack
  BY DEF IInv
<1>2. QED BY <1>1, Invariance, PTL
-----------------------------------------------------------------------------
(* Steps *)

LEMMA StopIsError == \A d : StopWith(d) => pc' = "done" /\ outcome' = "error"
BY DEF StopWith

(* A transaction of the call ends well only when all rows are there, and     *)
(* its COMMIT keeps all of them or none.                                    *)
LEMMA SuccessStep ==
  ASSUME IInv, [Next]_vars, pc # "done", pc' = "done", outcome' = "ok", own, call.repeatable
  PROVE  /\ Data(call.n) \subseteq db.rows[Named(db)]
         /\ \/ Data(call.n) \subseteq db'.rows[Named(db')] \ db'.uncommitted[Named(db')]
            \/ Faults /\ \A t \in Tables : db'.rows[t] = {}
<1>1. Finish
  <2>1. CASE User \/ Begin \/ Peer \/ UNCHANGED vars
    BY <2>1, StopIsError DEF User, UserBegin, UserWork, UserEnds, Begin, BeginWrite,
       RefuseArguments, BeginAppend, Peer, PeerCreates, PeerInserts, PeerDrops, vars
  <2>2. CASE AskExists \/ Remove \/ RemoveNothing \/ CountBefore \/ CountAfter \/ Check
    BY <2>2, StopIsError DEF AskExists, Remove, RemoveNothing, CountBefore, CountAfter, Check,
       Goto
  <2>3. CASE Create \/ CreateNothing
    BY <2>3, StopIsError, FillIs DEF Create, CreateNothing, Goto, IInv
  <2>4. CASE Insert
    BY <2>4, StopIsError DEF Insert, Goto
  <2>5. CASE LoadData
    <3>1. Safe
      BY DEF IInv, Ownership, Safe
    <3>2. QED BY <2>5, <3>1, StopIsError DEF LoadData, Goto
  <2>6. CASE StatementFails
    BY <2>6, StopIsError DEF StatementFails
  <2>7. QED BY <2>1, <2>2, <2>3, <2>4, <2>5, <2>6 DEF Next, Statement
<1>2. pc = "commit" /\ db' \in Commits(db) /\ transacting
  BY <1>1 DEF Finish, IInv, Ownership
<1>3. Data(call.n) \subseteq db.rows[Named(db)]
  <2>1. CASE call.n > 0
    BY <1>2, <2>1 DEF IInv, Held, Written
  <2>2. CASE ~(call.n > 0)
    <3>1. call.n = 0
      BY <2>2, DataIs DEF IInv
    <3>2. Data(call.n) = {}
      BY <3>1 DEF Data
    <3>3. QED BY <3>2
  <2>3. QED BY <2>1, <2>2
<1>4. CASE db' = Committed(db)
  <2>1. /\ db'.shape = db.shape /\ db'.rows = db.rows
        /\ \A t \in Tables : db'.uncommitted[t] = {}
    BY <1>4, TypesOfState, CommittedIs DEF IInv
  <2>2. Named(db') = Named(db) /\ Named(db) \in Tables
    BY <2>1, NamedIsTable DEF Named
  <2>3. QED BY <1>3, <2>1, <2>2
<1>5. CASE Faults /\ db' = RolledBack(db)
  BY <1>2, <1>5, <1>3, TypesOfState, RolledBackIs DEF IInv, Tentative
<1>6. QED BY <1>2, <1>4, <1>5 DEF Commits

PermanentSame(d) ==
    d.shape["perm"] = db.shape["perm"] /\ d.others["perm"] = db.others["perm"]

LEMMA PermanentIsKept ==
  ASSUME IInv, NEW d, Sound(d), PermanentSame(d)
  PROVE  /\ \A e \in Autocommits(d) : PermanentSame(e)
         /\ StopWith(d) => PermanentSame(db')
<1>1. PermanentSame(RolledBack(d)) /\ \A e \in Autocommits(d) : PermanentSame(e)
  BY AutocommitsIs, RolledBackIs DEF PermanentSame
<1>2. QED BY <1>1 DEF StopWith

(* A call that writes a temporary table works on the temporary table only.  *)
LEMMA TemporaryStep ==
  ASSUME IInv, [Next]_vars, WritesTemporary, Running, pc' # pc
  PROVE  PermanentSame(db')
<1>1. /\ Sound(db) /\ PermanentSame(db) /\ Tables = {"perm", "temp"}
      /\ "temp" \in Tables /\ "perm" \in Tables \ {"temp"}
  BY TypesOfState DEF IInv, PermanentSame, Tables
<1>2. CASE User \/ Begin \/ Peer \/ UNCHANGED vars
  BY <1>2 DEF User, UserBegin, UserWork, UserEnds, Begin, BeginWrite, RefuseArguments,
     BeginAppend, Peer, PeerCreates, PeerInserts, PeerDrops, vars, Running
<1>3. CASE AskExists \/ CreateNothing
  BY <1>3 DEF AskExists, CreateNothing, Creates, IInv, PermanentAlone, WritesTemporary
<1>4. CASE Remove
  <2>1. BeforeDDL(DropsTemporary, db) = db /\ call.fun # "file" /\ DropsTemporary
    BY DEF BeforeDDL, DropsTemporary, WritesTemporary
  <2>2. db' \in Autocommits(Dropped(db, "temp"))
    BY <1>4, <2>1 DEF Remove
  <2>3. Sound(Dropped(db, "temp")) /\ PermanentSame(Dropped(db, "temp"))
    BY <1>1, DroppedIs DEF PermanentSame
  <2>4. QED BY <2>2, <2>3, PermanentIsKept
<1>5. CASE Create
  <2>1. BeforeDDL(call.temporary, db) = db /\ call.temporary
    BY DEF BeforeDDL, WritesTemporary
  <2>2. StopWith(db) \/ db' \in Autocommits(Created(db, "temp"))
    BY <1>5, <2>1 DEF Create
  <2>3. Sound(Created(db, "temp")) /\ PermanentSame(Created(db, "temp"))
    BY <1>1, CreatedIs DEF PermanentSame
  <2>4. QED BY <1>1, <2>2, <2>3, PermanentIsKept
<1>6. ASSUME Exists(db), NEW rs \in SUBSET Data(N)
      PROVE  Sound(Inserted(db, rs)) /\ PermanentSame(Inserted(db, rs))
  BY <1>1, <1>6, InsertedIs DEF PermanentSame
<1>7. CASE Insert
  <2> DEFINE bad == Clashing(db)
             first == IF bad = {} THEN Data(call.n)
                      ELSE {k \in Data(call.n) : \A b \in bad : k < b}
  <2>1. first \in SUBSET Data(N)
    BY DataIs DEF IInv
  <2>2. \/ StopWith(db)
        \/ Exists(db) /\ StopWith(Inserted(db, first))
        \/ Exists(db) /\ db' \in Autocommits(Inserted(db, first))
    BY <1>7 DEF Insert
  <2> HIDE DEF first
  <2>3. QED BY <1>1, <1>6, <2>1, <2>2, PermanentIsKept
<1>8. CASE LoadData
  <2> DEFINE rs == Data(call.n) \ Clashing(db)
  <2>1. rs \in SUBSET Data(N)
    BY DataIs DEF IInv
  <2>2. \/ StopWith(db)
        \/ Exists(db) /\ db' \in Autocommits(Inserted(db, rs))
    BY <1>8 DEF LoadData
  <2> HIDE DEF rs
  <2>3. QED BY <1>1, <1>6, <2>1, <2>2, PermanentIsKept
<1>9. CASE RemoveNothing \/ CountBefore \/ CountAfter \/ Check \/ Finish
  <2>1. StopWith(db) \/ db' = db \/ db' \in Commits(db) \/ db' \in Autocommits(Touched(db))
    BY <1>9 DEF RemoveNothing, CountBefore, CountAfter, Check, Finish
  <2>2. \A e \in Commits(db) : PermanentSame(e)
    BY <1>1, CommitsIs DEF PermanentSame
  <2>3. Sound(Touched(db)) /\ PermanentSame(Touched(db))
    BY <1>1, TouchedIs DEF PermanentSame
  <2>4. QED BY <1>1, <2>1, <2>2, <2>3, PermanentIsKept
<1>10. CASE StatementFails
  <2>1. BeforeDDL(DropsTemporary, db) = db /\ BeforeDDL(call.temporary, db) = db
    BY DEF BeforeDDL, DropsTemporary, WritesTemporary
  <2>2. \/ StopWith(db)
        \/ /\ Exists(db)
           /\ \E k \in 0..call.n : StopWith(Inserted(db, Data(k)))
    BY <1>10, <2>1 DEF StatementFails
  <2>3. CASE StopWith(db)
    BY <1>1, <2>3, PermanentIsKept
  <2>4. CASE Exists(db) /\ \E k \in 0..call.n : StopWith(Inserted(db, Data(k)))
    <3>1. PICK k \in 0..call.n : StopWith(Inserted(db, Data(k)))
      BY <2>4
    <3>2. Data(k) \in SUBSET Data(N)
      BY DataIs DEF IInv
    <3>3. QED BY <1>6, <2>4, <3>1, <3>2, PermanentIsKept
  <2>5. QED BY <2>2, <2>3, <2>4
<1>11. QED
  BY <1>2, <1>3, <1>4, <1>5, <1>7, <1>8, <1>9, <1>10 DEF Next, Statement

(* dbWriteTable() and the safe dbAppendTable() succeed with all rows of the  *)
(* data in the table that the name denotes, of which a COMMIT that fails    *)
(* unnoticed leaves none and any other all.                                 *)
THEOREM SuccessesAreWhole == Spec => SuccessIsWhole
<1>1. IInv /\ [Next]_vars =>
        [pc # "done" /\ pc' = "done" /\ outcome' = "ok" /\ own /\ call.repeatable =>
           /\ Data(call.n) \subseteq db.rows[Named(db)]
           /\ \/ Data(call.n) \subseteq db'.rows[Named(db')] \ db'.uncommitted[Named(db')]
              \/ Faults /\ \A t \in Tables : db'.rows[t] = {}]_vars
  BY SuccessStep
<1>2. QED BY <1>1, Invariance, PTL DEF Spec, SuccessIsWhole

(* Writing a temporary table leaves a permanent one of that name alone.     *)
THEOREM TemporaryIsApart == Spec => TemporaryLeavesPermanent
<1>1. IInv /\ IInv' /\ [Next]_vars =>
        [call.fun = "write" /\ call.temporary /\ pc \notin {"idle", "done"} /\ pc' # pc =>
           /\ db'.shape["perm"] = db.shape["perm"]
           /\ db'.rows["perm"] = db.rows["perm"]
           /\ db'.others["perm"] = db.others["perm"]]_vars
  <2> SUFFICES ASSUME IInv, IInv', [Next]_vars, WritesTemporary, Running, pc' # pc
               PROVE  PermanentSame(db') /\ db'.rows["perm"] = db.rows["perm"]
    BY DEF PermanentSame, WritesTemporary, Running
  <2>1. call' = call
    BY DEF Next, User, UserBegin, UserWork, UserEnds, Begin, BeginWrite, RefuseArguments,
       BeginAppend, Statement, AskExists, Remove, RemoveNothing, Create, CreateNothing, Insert,
       CountBefore, LoadData, CountAfter, Check, Finish, StatementFails, Peer, PeerCreates,
       PeerInserts, PeerDrops, vars
  <2>2. db.rows["perm"] = {} /\ db'.rows["perm"] = {}
    BY <2>1 DEF IInv, PermanentAlone, WritesTemporary
  <2>3. QED BY <2>2, TemporaryStep
<1>2. QED BY <1>1, Invariance, PTL DEF Spec, TemporaryLeavesPermanent

=============================================================================
