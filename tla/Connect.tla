------------------------------ MODULE Connect -------------------------------
(***************************************************************************)
(* dbConnect() and the session it prepares.  The call is a sequence of     *)
(* round trips to the server: it opens a session, settles the time zone    *)
(* that the session and R are to agree on, and turns autocommit off.  Each *)
(* of them may fail, be interrupted, or be turned into an error by a       *)
(* warning handler; from the second one on, on.exit() closes the session.  *)
(***************************************************************************)
EXTENDS Naturals

CONSTANTS
    Arguments,     \* calls of dbConnect(): records of timezone, timezone_out, bigint
    ServerZones,   \* time zones the server accepts in SET time_zone
    RZones,        \* time zones R (lubridate) can interpret
    DefaultZones,  \* what @@time_zone may be in a session nobody has set
    NULL           \* R's NULL, and no session

ASSUME ZoneAssumption ==
    /\ DefaultZones \subseteq ServerZones
    /\ "+00:00" \in ServerZones /\ "UTC" \in RZones
    /\ NULL \notin ServerZones \cup RZones

Zones == ServerZones \cup RZones

ASSUME ArgumentsAssumption ==
    Arguments \subseteq
      [timezone : Zones \cup {NULL}, timezone_out : Zones \cup {NULL},
       bigint : {"integer64", "integer", "numeric", "character"}]

VARIABLES
    step,      \* how far the call has come
    args,      \* the arguments of the call
    conn,      \* the slots timezone and timezone_out (its locals before "ready")
    warned,    \* the arguments check_tz() has warned about
    session,   \* the server session, or NULL
    orphan     \* the session belongs to a handle that nobody can reach

connectVars == <<step, args, conn, warned, session, orphan>>

Session == [autocommit : BOOLEAN, time_zone : ServerZones]

ConnectTypeOK ==
    /\ step \in {"idle", "failed", "created", "guarded", "zoned", "checked", "ready"}
    /\ args \in Arguments
    /\ conn \in [timezone : Zones \cup {NULL}, timezone_out : Zones \cup {NULL}]
    /\ warned \subseteq {"timezone", "timezone_out"}
    /\ session \in Session \cup {NULL}
    /\ orphan \in BOOLEAN

-----------------------------------------------------------------------------
(* check_tz() *)

Normalised(tz) == IF tz = "+00:00" THEN "UTC" ELSE tz

(* force_tz() rejects the zone, and the handler gives a warning. *)
Suspect(tz) == Normalised(tz) \notin RZones

(* The assignment in the handler is local to the handler: check_tz()        *)
(* returns the zone it was asked about, known to R or not.                  *)
check_tz(tz) == Normalised(tz)

-----------------------------------------------------------------------------
(* The call *)

(* connection_create(): mysql_real_connect() gives a session with the       *)
(* server's defaults, or fails and leaves nothing.                          *)
Create(a) ==
    /\ step \in {"idle", "failed"} /\ ~orphan
    /\ step' = "created"
    /\ args' = a
    /\ \E tz \in DefaultZones : session' = [autocommit |-> TRUE, time_zone |-> tz]
    /\ conn' = [timezone |-> a.timezone, timezone_out |-> a.timezone_out]
    /\ warned' = {}
    /\ UNCHANGED orphan

CreateFails(a) ==
    /\ step \in {"idle", "failed"} /\ ~orphan
    /\ step' = "failed"
    /\ args' = a
    /\ UNCHANGED <<conn, warned, session, orphan>>

(* connection_info(), new(), on.exit(dbDisconnect(conn)). *)
Guard ==
    /\ step = "created"
    /\ step' = "guarded"
    /\ UNCHANGED <<args, conn, warned, session, orphan>>

(* An interrupt before on.exit(): the handle is left to the collector. *)
FailUnguarded ==
    /\ step = "created"
    /\ step' = "failed"
    /\ orphan' = TRUE
    /\ UNCHANGED <<args, conn, warned, session>>

(* Mutant: The session keeps the zone it had. *)
SetZoneInRAlone ==
    /\ step = "guarded" /\ session # NULL
    /\ args.timezone \in ServerZones
    /\ step' = "zoned"
    /\ UNCHANGED <<args, conn, warned, session, orphan>>

(* SET time_zone: the session uses the zone of the argument. *)
SetZone ==
    /\ step = "guarded" /\ session # NULL
    /\ args.timezone \in ServerZones
    /\ session' = [session EXCEPT !.time_zone = args.timezone]
    /\ step' = "zoned"
    /\ UNCHANGED <<args, conn, warned, orphan>>

(* timezone = NULL: R is to use the zone of the session. *)
AskZone ==
    /\ step = "guarded" /\ session # NULL
    /\ args.timezone = NULL
    /\ conn' = [conn EXCEPT !.timezone = session.time_zone]
    /\ step' = "zoned"
    /\ UNCHANGED <<args, warned, session, orphan>>

(* Mutant: The zone of the argument, not the one the server has given. *)
CheckZonesOfArguments ==
    /\ step = "zoned"
    /\ conn' = [timezone |-> check_tz(args.timezone), timezone_out |-> check_tz(args.timezone_out)]
    /\ warned' = {x \in {"timezone", "timezone_out"} : conn[x] # NULL /\ Suspect(conn[x])}
    /\ step' = "checked"
    /\ UNCHANGED <<args, session, orphan>>

(* Both zones are checked; timezone_out is timezone unless it is given. *)
CheckZones ==
    /\ step = "zoned"
    /\ LET tz == check_tz(conn.timezone)
           out == IF args.timezone_out = NULL THEN tz ELSE check_tz(args.timezone_out)
       IN  conn' = [timezone |-> tz, timezone_out |-> out]
    /\ warned' = {x \in {"timezone", "timezone_out"} : conn[x] # NULL /\ Suspect(conn[x])}
    /\ step' = "checked"
    /\ UNCHANGED <<args, session, orphan>>

(* SET autocommit = 0, on.exit(NULL): the program gets the connection. *)
TurnOffAutocommit ==
    /\ step = "checked" /\ session # NULL
    /\ session' = [session EXCEPT !.autocommit = FALSE]
    /\ step' = "ready"
    /\ UNCHANGED <<args, conn, warned, orphan>>

(* Mutant: on.exit() is given up after the session has a zone. *)
FailGuardedEarly ==
    /\ step \in {"guarded", "zoned", "checked"}
    /\ step' = "failed"
    /\ session' = IF step = "checked" THEN session ELSE NULL
    /\ UNCHANGED <<args, conn, warned, orphan>>

(* A statement is refused, the session is gone, the user interrupts, or a   *)
(* warning is turned into an error: on.exit() disconnects.                  *)
FailGuarded ==
    /\ step \in {"guarded", "zoned", "checked"}
    /\ step' = "failed"
    /\ session' = NULL
    /\ UNCHANGED <<args, conn, warned, orphan>>

-----------------------------------------------------------------------------
(* After the call *)

(* dbDisconnect(). *)
Disconnect ==
    /\ step = "ready"
    /\ step' = "idle"
    /\ session' = NULL
    /\ UNCHANGED <<args, conn, warned, orphan>>

(* The collector runs the finalizer of the unreachable handle. *)
Finalize ==
    /\ orphan
    /\ orphan' = FALSE
    /\ session' = NULL
    /\ UNCHANGED <<step, args, conn, warned>>

(* The server ends the session; the next statement will find out. *)
SessionLost ==
    /\ session # NULL
    /\ session' = NULL
    /\ UNCHANGED <<step, args, conn, warned, orphan>>

ConnectInit ==
    /\ step = "idle"
    /\ args \in Arguments
    /\ conn = [timezone |-> NULL, timezone_out |-> NULL]
    /\ warned = {}
    /\ session = NULL
    /\ orphan = FALSE

Connecting ==
    \/ \E a \in Arguments : Create(a) \/ CreateFails(a)
    \/ Guard \/ FailUnguarded
    \/ SetZone \/ AskZone \/ CheckZones \/ TurnOffAutocommit
    \/ FailGuarded \/ Finalize

ConnectNext == Connecting \/ SessionLost \/ Disconnect

ConnectSpec == ConnectInit /\ [][ConnectNext]_connectVars

-----------------------------------------------------------------------------
(* Properties *)

(* A connection the program has been given runs without autocommit, and R   *)
(* names the time zone of the session, "+00:00" as UTC.                     *)
ReadyIsConfigured ==
    step = "ready" /\ session # NULL =>
      /\ ~session.autocommit
      /\ conn.timezone = Normalised(session.time_zone)

(* A dbConnect() that failed leaves no session behind, but the one the      *)
(* collector is going to end.                                               *)
FailedLeavesNothing == step = "failed" /\ session # NULL => orphan

(* "Invalid time zone ... falling back to local time": after the warning R  *)
(* uses its local time zone, which is written "".                           *)
FallsBackToLocal ==
    step = "ready" =>
      /\ "timezone" \in warned => conn.timezone = ""
      /\ "timezone_out" \in warned => conn.timezone_out = ""

=============================================================================
