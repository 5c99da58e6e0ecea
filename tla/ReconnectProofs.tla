--------------------------- MODULE ReconnectProofs ---------------------------
(***************************************************************************)
(* What a program may rely on when sessions are lost, with and without     *)
(* reconnect = TRUE, for every number of units of work.                    *)
(***************************************************************************)
EXTENDS Reconnect, ConnectProofs, TLAPS

(* Work is done only through a connection that dbConnect() has returned.    *)
NothingBeforeReady ==
    step # "ready" => /\ ~transacting /\ result = NULL
                      /\ \A w \in Work : fate[w] # "dirty"

(* A connection waits for the collector only after a dbConnect() that failed. *)
OrphanFailed == orphan => step = "failed"

(* What is not committed lives in the session, which is not in autocommit.  *)
DirtyInSession ==
    \A w \in Work : fate[w] = "dirty" => session # NULL /\ session.autocommit = FALSE

UsedHasDeed == \A w \in Work : fate[w] = "unused" <=> deed[w] = "none"

(* Autocommit is what dbConnect() turns off last: it is off in the session    *)
(* with which the call returns, opened by itself or not.                     *)
AutocommitOff ==
    step = "ready" /\ session # NULL /\ ~reopened => session.autocommit = FALSE

OnlyIfAsked == reopened \/ adrift # {} => reconnect

(* Where the units of a transaction are, before and after its end.           *)
Fates ==
    \A w \in Work :
      /\ deed[w] = "open" => \/ fate[w] = "dirty"
                            \/ (fate[w] = "lost" /\ w \in bereft)
                            \/ (fate[w] = "durable" /\ w \in adrift)
      /\ deed[w] = "rollback" => fate[w] = "lost" \/ w \in adrift
      /\ deed[w] = "commit" => fate[w] = "durable" \/ w \in bereft

(* The units of the transaction are where the session has them; when it is  *)
(* gone, and with it the units, there will be no other.                     *)
OneSession ==
    transacting /\ ~(reconnect /\ interrupted = "now") =>
      \A w \in Work : deed[w] = "open" =>
        IF session = NULL THEN fate[w] = "lost" /\ ~reconnect
        ELSE fate[w] = IF session.autocommit THEN "durable" ELSE "dirty"

IInv ==
    /\ TypeOK
    /\ NothingBeforeReady
    /\ OrphanFailed
    /\ DirtyInSession
    /\ UsedHasDeed
    /\ AutocommitOff
    /\ OnlyIfAsked
    /\ Fates
    /\ OneSession

USE WorkAssumption

LEMMA IInvInit == Init => IInv
<1> SUFFICES ASSUME Init PROVE IInv
  OBVIOUS
<1>1. ConnectTypeOK
  BY ConnectTypeInit DEF Init
<1>2. TypeOK
  BY <1>1 DEF Init, TypeOK, Current
<1>3. QED
  BY <1>1, <1>2 DEF Init, IInv, NothingBeforeReady, OrphanFailed, DirtyInSession, UsedHasDeed,
     AutocommitOff, OnlyIfAsked, Fates, OneSession, ConnectInit

(* Steps of dbConnect(). *)
LEMMA ConnectingStep ==
  ASSUME IInv, Connecting, UNCHANGED <<reconnect, workVars>>
  PROVE  IInv'
<1> USE DEF workVars, history
<1>1. step # "ready" /\ (step' = "ready" => step = "checked")
  BY DEF Connecting, Create, CreateFails, Guard, FailUnguarded, SetZone, AskZone, CheckZones,
     TurnOffAutocommit, FailGuarded, Finalize, IInv, OrphanFailed
<1>2. ConnectTypeOK'
  BY ConnectTypeStep DEF IInv, TypeOK, ConnectNext
<1>3. AutocommitOff'
  <2>1. step' = "ready" => TurnOffAutocommit
    BY <1>1 DEF Connecting, Create, CreateFails, Guard, FailUnguarded, SetZone, AskZone,
       CheckZones, FailGuarded, Finalize, IInv, OrphanFailed
  <2>2. TurnOffAutocommit => session' \in Session /\ session'.autocommit = FALSE
    BY DEF TurnOffAutocommit, IInv, TypeOK, ConnectTypeOK, Session
  <2>3. QED BY <2>1, <2>2 DEF AutocommitOff
<1>4. OrphanFailed'
  BY DEF Connecting, Create, CreateFails, Guard, FailUnguarded, SetZone, AskZone, CheckZones,
     TurnOffAutocommit, FailGuarded, Finalize, IInv, OrphanFailed
<1>5. TypeOK'
  BY <1>2 DEF IInv, TypeOK, Current
<1>6. NothingBeforeReady' /\ DirtyInSession' /\ OneSession'
  BY <1>1 DEF IInv, NothingBeforeReady, DirtyInSession, OneSession
<1>7. QED
  BY <1>3, <1>4, <1>5, <1>6 DEF IInv, UsedHasDeed, OnlyIfAsked, Fates

(* The session goes away, and with it what it has not committed. *)
LEMMA LoseSessionStep ==
  ASSUME IInv, LoseSession
  PROVE  IInv'
<1> USE DEF LoseSession
<1>1. ConnectTypeOK'
  BY ConnectTypeStep DEF IInv, TypeOK, ConnectNext
<1>2. fate' \in [Work -> {"unused", "dirty", "durable", "lost"}]
  BY DEF IInv, TypeOK, Discarded
<1>3. TypeOK'
  BY <1>1, <1>2 DEF IInv, TypeOK, Current
<1>4. \A w \in Work : /\ fate'[w] = IF fate[w] = "dirty" THEN "lost" ELSE fate[w]
                      /\ w \in bereft' <=> w \in bereft \/ fate[w] = "dirty"
  BY DEF Discarded, IInv, TypeOK
<1>5. step' = step /\ orphan' = orphan /\ session' = NULL
  BY DEF SessionLost
<1>6. NothingBeforeReady' /\ OrphanFailed' /\ DirtyInSession' /\ UsedHasDeed'
  BY <1>4, <1>5 DEF IInv, NothingBeforeReady, OrphanFailed, DirtyInSession, UsedHasDeed
<1>7. AutocommitOff' /\ OnlyIfAsked' /\ Fates'
  BY <1>4, <1>5 DEF IInv, AutocommitOff, OnlyIfAsked, Fates
<1>8. OneSession'
  <2> SUFFICES ASSUME transacting, ~(reconnect /\ interrupted' = "now"), NEW w \in Work,
                      deed[w] = "open"
               PROVE  fate'[w] = "lost" /\ ~reconnect
    BY <1>5 DEF OneSession
  <2>1. ~reconnect
    OBVIOUS
  <2>2. adrift = {}
    BY <2>1 DEF IInv, OnlyIfAsked
  <2>3. QED BY <1>4, <2>1, <2>2 DEF IInv, Fates
<1>9. QED
  BY <1>3, <1>6, <1>7, <1>8 DEF IInv

(* The client library opens a session, of which nothing but reopened tells. *)
LEMMA ReopenStep ==
  ASSUME IInv, Reopen
  PROVE  IInv'
<1> USE DEF Reopen
<1>1. session' \in Session
  BY CreatedSession
<1>2. TypeOK'
  BY <1>1 DEF IInv, TypeOK, ConnectTypeOK, Current
<1>3. \A w \in Work : fate[w] # "dirty"
  BY DEF IInv, DirtyInSession
<1>4. OneSession'
  BY DEF IInv, OneSession
<1>5. reopened' <=> reopened \/ step = "ready"
  BY DEF IInv, TypeOK
<1>6. QED
  BY <1>2, <1>3, <1>4, <1>5 DEF IInv, NothingBeforeReady, OrphanFailed, DirtyInSession,
     UsedHasDeed, AutocommitOff, OnlyIfAsked, Fates

(* What stays with the connection when a step leaves it alone. *)
LEMMA ConnectionKept ==
  ASSUME IInv, UNCHANGED connectVars
  PROVE  /\ ConnectTypeOK'
         /\ step' = step /\ session' = session /\ orphan' = orphan
BY ConnectTypeStep DEF IInv, TypeOK, connectVars

(* A statement that writes. *)
LEMMA ExecuteStep ==
  ASSUME IInv, NEW x \in Work, Execute(x)
  PROVE  IInv'
<1> USE DEF Execute, Connected
<1>1. /\ ConnectTypeOK'
      /\ step' = step /\ session' = session /\ orphan' = orphan
  BY ConnectionKept
<1>2. session \in Session /\ session.autocommit \in BOOLEAN
  BY DEF IInv, TypeOK, ConnectTypeOK, Session
<1>3. \A w \in Work : /\ w # x => fate'[w] = fate[w] /\ deed'[w] = deed[w]
                      /\ fate'[x] = IF session.autocommit THEN "durable" ELSE "dirty"
                      /\ deed'[x] = IF transacting THEN "open" ELSE "alone"
  BY DEF IInv, TypeOK
<1>4. TypeOK'
  <2>1. fate' \in [Work -> {"unused", "dirty", "durable", "lost"}]
    BY DEF IInv, TypeOK
  <2>2. deed' \in [Work -> {"none", "alone", "open", "commit", "rollback", "gone"}]
    BY DEF IInv, TypeOK
  <2>3. Current' # {} => transacting'
    BY <1>3 DEF IInv, TypeOK, Current
  <2>4. in_trans' \in BOOLEAN
    BY <1>2
  <2>5. QED BY <1>1, <2>1, <2>2, <2>3, <2>4 DEF IInv, TypeOK
<1>5. NothingBeforeReady' /\ OrphanFailed' /\ DirtyInSession' /\ UsedHasDeed'
  BY <1>1, <1>2, <1>3 DEF IInv, NothingBeforeReady, OrphanFailed, DirtyInSession, UsedHasDeed
<1>6. AutocommitOff' /\ OnlyIfAsked' /\ Fates'
  <2>1. ~reopened => session.autocommit = FALSE
    BY DEF IInv, AutocommitOff
  <2>2. AutocommitOff' /\ OnlyIfAsked'
    BY <1>1 DEF IInv, AutocommitOff, OnlyIfAsked
  <2>3. Fates'
    <3>1. /\ reopened => x \in adrift'
          /\ \A w \in Work : w \in adrift => w \in adrift'
          /\ bereft' = bereft
      OBVIOUS
    <3>2. /\ deed'[x] \in {"open", "alone"}
          /\ fate'[x] = "dirty" \/ (fate'[x] = "durable" /\ x \in adrift')
      BY <1>2, <1>3, <2>1, <3>1
    <3>3. \A w \in Work : w # x => fate'[w] = fate[w] /\ deed'[w] = deed[w]
      BY <1>3
    <3>4. QED BY <3>1, <3>2, <3>3 DEF IInv, Fates
  <2>4. QED BY <2>2, <2>3
<1>7. OneSession'
  BY <1>1, <1>3 DEF IInv, OneSession
<1>8. QED
  BY <1>4, <1>5, <1>6, <1>7 DEF IInv

LEMMA ExecuteFailsStep ==
  ASSUME IInv, ExecuteFails
  PROVE  IInv'
<1> USE DEF ExecuteFails, Forgets, history
<1>1. /\ ConnectTypeOK'
      /\ step' = step /\ session' = session /\ orphan' = orphan
  BY ConnectionKept
<1>2. QED
  BY <1>1 DEF IInv, TypeOK, Current, NothingBeforeReady, OrphanFailed, DirtyInSession,
     UsedHasDeed, AutocommitOff, OnlyIfAsked, Fates, OneSession

(* COMMIT and ROLLBACK: where the units go that the session holds. *)
LEMMA EndFate ==
  ASSUME IInv, NEW after, NEW how \in {"durable", "lost"},
         after = [w \in Work |-> IF fate[w] = "dirty" THEN how ELSE fate[w]],
         EndOnServer(after)
  PROVE  /\ fate' \in [Work -> {"unused", "dirty", "durable", "lost"}]
         /\ in_trans' \in BOOLEAN
         /\ \A w \in Work : fate'[w] = IF fate[w] = "dirty" THEN how ELSE fate[w]
<1>1. session = NULL => \A w \in Work : fate[w] # "dirty"
  BY DEF IInv, DirtyInSession
<1>2. QED BY <1>1 DEF EndOnServer, Forgets, IInv, TypeOK

(* The result of a statement is cleared. *)
LEMMA ClearStep ==
  ASSUME IInv, Clear
  PROVE  IInv'
<1> USE DEF Clear, Connected, history
<1>1. /\ ConnectTypeOK'
      /\ step' = step /\ session' = session /\ orphan' = orphan
  BY ConnectionKept
<1>2. CASE transacting
  BY <1>1, <1>2 DEF Forgets, IInv, TypeOK, Current, NothingBeforeReady, OrphanFailed,
     DirtyInSession, UsedHasDeed, AutocommitOff, OnlyIfAsked, Fates, OneSession
<1>3. CASE ~transacting
  <2>1. /\ fate' \in [Work -> {"unused", "dirty", "durable", "lost"}]
        /\ in_trans' \in BOOLEAN
        /\ \A w \in Work : fate'[w] = IF fate[w] = "dirty" THEN "durable" ELSE fate[w]
    BY <1>3, EndFate DEF Committed
  <2>2. \A w \in Work : deed[w] # "open"
    BY <1>3 DEF IInv, TypeOK, Current
  <2>3. TypeOK'
    BY <1>1, <2>1 DEF IInv, TypeOK, Current
  <2>4. NothingBeforeReady' /\ OrphanFailed' /\ DirtyInSession' /\ UsedHasDeed'
    BY <1>1, <2>1 DEF IInv, NothingBeforeReady, OrphanFailed, DirtyInSession, UsedHasDeed
  <2>5. AutocommitOff' /\ OnlyIfAsked' /\ Fates' /\ OneSession'
    BY <1>1, <1>3, <2>1, <2>2 DEF IInv, AutocommitOff, OnlyIfAsked, Fates, OneSession
  <2>6. QED BY <2>3, <2>4, <2>5 DEF IInv
<1>4. QED BY <1>2, <1>3

LEMMA BeginStep ==
  ASSUME IInv, Begin
  PROVE  IInv'
<1> USE DEF Begin, Connected
<1>1. /\ ConnectTypeOK'
      /\ step' = step /\ session' = session /\ orphan' = orphan
  BY ConnectionKept
<1>2. \A w \in Work : deed[w] # "open"
  BY DEF IInv, TypeOK, Current
<1>3. TypeOK'
  BY <1>1 DEF IInv, TypeOK, Current
<1>4. QED
  BY <1>1, <1>2, <1>3 DEF IInv, NothingBeforeReady, OrphanFailed, DirtyInSession, UsedHasDeed,
     AutocommitOff, OnlyIfAsked, Fates, OneSession

(* No unit is open when the transaction has ended. *)
LEMMA SettledDeed ==
  ASSUME IInv, NEW how \in {"commit", "rollback", "gone"}, deed' = Settled(how)
  PROVE  /\ deed' \in [Work -> {"none", "alone", "open", "commit", "rollback", "gone"}]
         /\ \A w \in Work : deed'[w] = IF deed[w] = "open" THEN how ELSE deed[w]
BY DEF Settled, IInv, TypeOK

(* dbCommit() and dbRollback(). *)
LEMMA EndStep ==
  ASSUME IInv, Commit \/ Rollback
  PROVE  IInv'
<1>1. /\ ConnectTypeOK'
      /\ step' = step /\ session' = session /\ orphan' = orphan
  BY ConnectionKept DEF Commit, Rollback
<1>2. PICK h \in {"commit", "rollback"} :
        /\ deed' = Settled(h)
        /\ EndOnServer(IF h = "commit" THEN Committed(fate) ELSE Discarded(fate))
  BY DEF Commit, Rollback
<1>3. /\ fate' \in [Work -> {"unused", "dirty", "durable", "lost"}]
      /\ in_trans' \in BOOLEAN
      /\ \A w \in Work : fate'[w] = IF fate[w] = "dirty"
                                   THEN IF h = "commit" THEN "durable" ELSE "lost"
                                   ELSE fate[w]
  <2>1. CASE h = "commit"
    BY <1>2, <2>1, EndFate DEF Committed
  <2>2. CASE h = "rollback"
    BY <1>2, <2>2, EndFate DEF Discarded
  <2>3. QED BY <2>1, <2>2
<1>4. /\ deed' \in [Work -> {"none", "alone", "open", "commit", "rollback", "gone"}]
      /\ \A w \in Work : deed'[w] = IF deed[w] = "open" THEN h ELSE deed[w]
  BY <1>2, SettledDeed
<1>5. /\ transacting' = FALSE /\ step = "ready"
      /\ UNCHANGED <<reconnect, result, reopened, adrift, bereft, interrupted>>
  BY DEF Commit, Rollback, Connected, history
<1>6. TypeOK'
  BY <1>1, <1>3, <1>4, <1>5 DEF IInv, TypeOK, Current
<1>7. NothingBeforeReady' /\ OrphanFailed' /\ DirtyInSession' /\ UsedHasDeed' /\ OneSession'
  BY <1>1, <1>3, <1>4, <1>5
     DEF IInv, NothingBeforeReady, OrphanFailed, DirtyInSession, UsedHasDeed, OneSession
<1>8. AutocommitOff' /\ OnlyIfAsked' /\ Fates'
  BY <1>1, <1>3, <1>4, <1>5 DEF IInv, AutocommitOff, OnlyIfAsked, Fates
<1>9. QED
  BY <1>5, <1>6, <1>7, <1>8 DEF IInv

LEMMA CloseStep ==
  ASSUME IInv, Close
  PROVE  IInv'
<1> USE DEF Close
<1>1. ConnectTypeOK'
  BY ConnectTypeStep DEF IInv, TypeOK, ConnectNext
<1>2. step = "ready" /\ step' = "idle" /\ orphan' = orphan
  BY DEF Disconnect
<1>3. /\ fate' \in [Work -> {"unused", "dirty", "durable", "lost"}]
      /\ \A w \in Work : fate'[w] = IF fate[w] = "dirty" THEN "lost" ELSE fate[w]
  BY DEF Discarded, IInv, TypeOK
<1>4. /\ deed' \in [Work -> {"none", "alone", "open", "commit", "rollback", "gone"}]
      /\ \A w \in Work : deed'[w] = IF deed[w] = "open" THEN "gone" ELSE deed[w]
  BY SettledDeed
<1>5. TypeOK'
  BY <1>1, <1>3, <1>4 DEF IInv, TypeOK, Current
<1>6. QED
  BY <1>1, <1>2, <1>3, <1>4, <1>5 DEF IInv, NothingBeforeReady, OrphanFailed, DirtyInSession,
     UsedHasDeed, AutocommitOff, OnlyIfAsked, Fates, OneSession

LEMMA IInvStep == IInv /\ [Next]_vars => IInv'
<1> SUFFICES ASSUME IInv, [Next]_vars PROVE IInv'
  OBVIOUS
<1>1. CASE UNCHANGED vars
  <2>1. UNCHANGED connectVars
    BY <1>1 DEF vars
  <2>2. /\ ConnectTypeOK'
        /\ step' = step /\ session' = session /\ orphan' = orphan
    BY <2>1, ConnectionKept
  <2>3. QED
    BY <1>1, <2>2 DEF vars, workVars, history, IInv, TypeOK, Current, NothingBeforeReady,
       OrphanFailed, DirtyInSession, UsedHasDeed, AutocommitOff, OnlyIfAsked, Fates, OneSession
<1>2. QED
  BY <1>1, ConnectingStep, LoseSessionStep, ReopenStep, ExecuteStep, ExecuteFailsStep, ClearStep,
     BeginStep, EndStep, CloseStep DEF Next

THEOREM Invariance == Spec => []IInv
BY IInvInit, IInvStep, PTL DEF Spec

(* Every variable keeps its type, and every unit of a transaction is         *)
(* settled when the program ends it.                                        *)
THEOREM TypeCorrect == Spec => []TypeOK
<1>1. IInv => TypeOK
  BY DEF IInv
<1>2. QED BY <1>1, Invariance, PTL

(* A unit escapes dbRollback() only when it was done in a session that the   *)
(* client had opened by itself, and dbCommit() only when its session was     *)
(* lost before it was committed.                                            *)
THEOREM EndingsAreExplained == Spec => []EndingsExplained
<1>1. IInv => EndingsExplained
  <2> SUFFICES ASSUME IInv, NEW w \in Work
               PROVE  /\ deed[w] = "rollback" /\ fate[w] # "lost" => reconnect /\ w \in adrift
                      /\ deed[w] = "commit" /\ fate[w] # "durable" => w \in bereft
    BY DEF EndingsExplained
  <2>1. QED BY DEF IInv, OnlyIfAsked, Fates
<1>2. QED BY <1>1, Invariance, PTL

(* A transaction is all or nothing, but for a reconnecting client that has  *)
(* lost its session in the middle of it.                                    *)
THEOREM TransactionsAtomic == Spec => EndIsAtomic
<1> DEFINE Step == transacting /\ ~transacting' /\ ~(reconnect /\ interrupted = "now") =>
                     \A v, w \in Current : fate'[v] = fate'[w]
<1>1. IInv /\ [Next]_vars => [Step]_vars
  <2> SUFFICES ASSUME IInv, Next, transacting, ~transacting',
                      ~(reconnect /\ interrupted = "now"),
                      NEW v \in Current, NEW w \in Current
               PROVE  fate'[v] = fate'[w]
    OBVIOUS
  <2>1. v \in Work /\ w \in Work /\ fate[v] = fate[w]
    BY DEF Current, IInv, OneSession
  <2>2. CASE Commit
    BY <2>1, <2>2 DEF Commit, EndOnServer, Committed
  <2>3. CASE Rollback
    BY <2>1, <2>3 DEF Rollback, EndOnServer, Discarded
  <2>4. CASE Close
    BY <2>1, <2>4 DEF Close, Discarded
  <2>5. transacting' = transacting \/ Commit \/ Rollback \/ Close
    BY DEF Next, workVars, history, LoseSession, Reopen, Execute, ExecuteFails, Clear, Begin
  <2>6. QED BY <2>2, <2>3, <2>4, <2>5
<1>2. QED BY <1>1, Invariance, PTL DEF Spec, EndIsAtomic

=============================================================================
