---------------------------- MODULE ConnectProofs ----------------------------
(***************************************************************************)
(* What dbConnect() promises, for every set of arguments and time zones, by *)
(* an invariant that follows the call step by step.                         *)
(***************************************************************************)
EXTENDS Connect, TLAPS

(* What is known of the session at each step, as long as it lives: before   *)
(* the zone is settled conn holds the argument, then the zone of the        *)
(* session, then its name in R.                                             *)
ZonesAgree ==
    /\ step \in {"created", "guarded"} => conn.timezone = args.timezone
    /\ step = "zoned" /\ session # NULL => conn.timezone = session.time_zone
    /\ step \in {"checked", "ready"} /\ session # NULL =>
         conn.timezone = Normalised(session.time_zone)
    /\ step = "ready" /\ session # NULL => session.autocommit = FALSE

(* Between two calls there is a session only if an earlier call was         *)
(* interrupted and its handle waits for the collector.                      *)
SessionsOwned ==
    /\ step \in {"idle", "failed"} /\ session # NULL => orphan
    /\ orphan => step = "failed"

SessionShape == session # NULL => session \in Session
ConnShape == conn = [timezone |-> conn.timezone, timezone_out |-> conn.timezone_out]

ConnectInv == ZonesAgree /\ SessionsOwned /\ SessionShape /\ ConnShape

LEMMA ConnectInvInit == ConnectInit => ConnectInv
BY DEF ConnectInit, ConnectInv, ZonesAgree, SessionsOwned, SessionShape, ConnShape

LEMMA ConnectInvStep == ConnectInv /\ [ConnectNext]_connectVars => ConnectInv'
<1> SUFFICES ASSUME ConnectInv, [ConnectNext]_connectVars
             PROVE  ConnectInv'
  OBVIOUS
<1> USE DEF ConnectInv, ZonesAgree, SessionsOwned, SessionShape, ConnShape, Session
<1>1. ASSUME NEW a \in Arguments, Create(a) PROVE ConnectInv'
  BY <1>1, ZoneAssumption DEF Create
<1>2. ASSUME NEW a \in Arguments, CreateFails(a) PROVE ConnectInv'
  BY <1>2 DEF CreateFails
<1>3. CASE Guard
  BY <1>3 DEF Guard
<1>4. CASE FailUnguarded
  BY <1>4 DEF FailUnguarded
<1>5. CASE SetZone
  BY <1>5 DEF SetZone
<1>6. CASE AskZone
  BY <1>6 DEF AskZone
<1>7. CASE CheckZones
  BY <1>7 DEF CheckZones, check_tz
<1>8. CASE TurnOffAutocommit
  BY <1>8 DEF TurnOffAutocommit
<1>9. CASE FailGuarded
  BY <1>9 DEF FailGuarded
<1>10. CASE Finalize
  BY <1>10 DEF Finalize
<1>11. CASE SessionLost
  BY <1>11 DEF SessionLost
<1>12. CASE Disconnect
  BY <1>12 DEF Disconnect
<1>13. CASE UNCHANGED connectVars
  BY <1>13 DEF connectVars
<1>14. QED
  BY <1>1, <1>2, <1>3, <1>4, <1>5, <1>6, <1>7, <1>8, <1>9, <1>10, <1>11, <1>12, <1>13
     DEF ConnectNext, Connecting

THEOREM ConnectInvariance == ConnectSpec => []ConnectInv
BY ConnectInvInit, ConnectInvStep, PTL DEF ConnectSpec

(* The types of the connection, for every set of arguments and time zones.  *)
LEMMA ConnectTypeInit == ConnectInit => ConnectTypeOK
<1> SUFFICES ASSUME ConnectInit PROVE ConnectTypeOK
  OBVIOUS
<1>1. conn \in [timezone : Zones \cup {NULL}, timezone_out : Zones \cup {NULL}]
  BY DEF ConnectInit
<1>2. QED BY <1>1 DEF ConnectInit, ConnectTypeOK

LEMMA CreatedSession ==
  ASSUME NEW tz \in DefaultZones PROVE [autocommit |-> TRUE, time_zone |-> tz] \in Session
BY ZoneAssumption DEF Session

LEMMA ConnectTypeStep == ConnectTypeOK /\ [ConnectNext]_connectVars => ConnectTypeOK'
<1> SUFFICES ASSUME ConnectTypeOK, [ConnectNext]_connectVars
             PROVE  ConnectTypeOK'
  OBVIOUS
<1> USE DEF ConnectTypeOK
<1>1. ASSUME NEW a \in Arguments, Create(a) PROVE ConnectTypeOK'
  <2>1. session' \in Session
    BY <1>1, CreatedSession DEF Create
  <2>2. conn' \in [timezone : Zones \cup {NULL}, timezone_out : Zones \cup {NULL}]
    BY <1>1, ArgumentsAssumption DEF Create
  <2>3. QED BY <1>1, <2>1, <2>2 DEF Create
<1>2. ASSUME NEW a \in Arguments, CreateFails(a) PROVE ConnectTypeOK'
  BY <1>2 DEF CreateFails
<1>3. CASE Guard
  BY <1>3 DEF Guard
<1>4. CASE FailUnguarded
  BY <1>4 DEF FailUnguarded
<1>5. CASE SetZone
  BY <1>5 DEF SetZone, Session
<1>6. CASE AskZone
  BY <1>6 DEF AskZone, Session, Zones
<1>7. CASE CheckZones
  <2>1. \A tz \in Zones \cup {NULL} : check_tz(tz) \in Zones \cup {NULL}
    BY ZoneAssumption DEF check_tz, Normalised, Zones
  <2>2. args.timezone_out \in Zones \cup {NULL}
    BY ArgumentsAssumption
  <2>3. conn' \in [timezone : Zones \cup {NULL}, timezone_out : Zones \cup {NULL}]
    BY <1>7, <2>1, <2>2 DEF CheckZones
  <2>4. QED BY <1>7, <2>3 DEF CheckZones
<1>8. CASE TurnOffAutocommit
  BY <1>8 DEF TurnOffAutocommit, Session
<1>9. CASE FailGuarded
  BY <1>9 DEF FailGuarded
<1>10. CASE Finalize
  BY <1>10 DEF Finalize
<1>11. CASE SessionLost
  BY <1>11 DEF SessionLost
<1>12. CASE Disconnect
  BY <1>12 DEF Disconnect
<1>13. CASE UNCHANGED connectVars
  BY <1>13 DEF connectVars
<1>14. QED
  BY <1>1, <1>2, <1>3, <1>4, <1>5, <1>6, <1>7, <1>8, <1>9, <1>10, <1>11, <1>12, <1>13
     DEF ConnectNext, Connecting

=============================================================================
