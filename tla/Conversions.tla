---------------------------- MODULE Conversions -----------------------------
(***************************************************************************)
(* What becomes of a value between R and the server: a column of values is *)
(* bound row by row into the buffers of a prepared statement               *)
(* (MariaBinding), stored by the server, and later read through the buffers *)
(* of a query (MariaRow) by a connection with settings of its own.         *)
(*                                                                          *)
(* Integers have IntBits or BigBits bits.  Times are integers in ticks: the code's  *)
(* 1000000 second_parts are Parts, and a second_part is Ticks ticks, so     *)
(* that R's doubles are finer than the server's clock.                      *)
(***************************************************************************)
EXTENDS Connect, Calendar, Sequences

CONSTANTS
    Columns,     \* what programs bind: R's typeof, the last class, the values, and the
                 \* server columns they go into: [typeof, class, vals, into]
    Foreign,     \* integers other programs have stored: [col, val]
    IntBits, BigBits,    \* width of int and of int64_t
    Exact,       \* integers up to 2^Exact are exact in a double
    Parts,       \* second_parts in a second
    Ticks,       \* ticks in a second_part
    Summer,      \* <<first, last>> second of summer time in zone "named"
    MaxBinds     \* dbBind() calls per statement

ASSUME WidthAssumption ==
    /\ IntBits \in Nat /\ BigBits \in Nat /\ Exact \in Nat /\ 0 < IntBits /\ IntBits < Exact /\ Exact < BigBits
    /\ Parts \in Nat \ {0} /\ Ticks \in Nat \ {0} /\ MaxBinds \in Nat

(* Powers of two are natural numbers, and an int has more than one bit.      *)
ASSUME PowerAssumption ==
    /\ {2^(IntBits-1), 2^IntBits, 2^(BigBits-1), 2^Exact} \subseteq Nat
    /\ 2^(IntBits-1) > 1

(* What R keeps in an integer of w bits; the smallest is its NA.            *)
RIntegers(w) == 1 - 2^(w-1) .. 2^(w-1) - 1

(* A column of objects of R: missing values are <<>>, the others <<value>>. *)
ColumnOf(c, typeof, class, values, into) ==
    /\ c.typeof = typeof /\ c.class = class /\ c.into \subseteq into
    /\ c.vals \in Seq(Seq(values))
    /\ \A n \in DOMAIN c.vals : Len(c.vals[n]) <= 1

ASSUME ColumnsAssumption ==
    \A c \in Columns :
      \/ ColumnOf(c, "logical", "", BOOLEAN, {"tinyint", "bit", "int"})
      \/ ColumnOf(c, "integer", "", RIntegers(IntBits), {"int", "bigint"})
      \/ ColumnOf(c, "double", "integer64", RIntegers(BigBits), {"bigint"})
      \/ ColumnOf(c, "double", "", STRING, {"double"})
      \/ ColumnOf(c, "character", "", Seq(STRING), {"text"})
      \/ ColumnOf(c, "integer", "factor", Seq(STRING), {"text"})
      \/ \E class \in {"", "blob"} : ColumnOf(c, "list", class, Seq(STRING), {"blob"})
      \/ \E typeof \in {"integer", "double"} :
           \/ ColumnOf(c, typeof, "Date", Int, {"date", "datetime"})
           \/ ColumnOf(c, typeof, "difftime", Int, {"time"})
      \/ ColumnOf(c, "double", "POSIXt", Int, {"datetime", "timestamp", "time"})
      \/ ColumnOf(c, "integer", "POSIXt", Int, {"datetime"})

ASSUME ForeignAssumption ==
    \A f \in Foreign :
      \/ f.col = "int" /\ f.val \in -(2^(IntBits-1)) .. 2^(IntBits-1) - 1
      \/ f.col = "unsigned" /\ f.val \in 0 .. 2^IntBits - 1
      \/ f.col = "bigint" /\ f.val \in -(2^(BigBits-1)) .. 2^(BigBits-1) - 1

VARIABLES
    stage,        \* the statement in use: "none", "insert", "bound", "select", "spent"
    col,          \* type of the server column
    params, i,    \* the bound column and the next of its rows
    time_buffer,  \* MYSQL_TIME of the parameter
    buffer,       \* what the parameter's buffer holds besides
    is_null,      \* indicator of the parameter
    binds,        \* dbBind() calls so far
    table,        \* rows of the server: [object, put, type, from, val]
    out,          \* buffers_, lengths_, nulls_ of the result column
    fetched       \* what dbFetch() has returned so far

bindVars == <<params, i, time_buffer, buffer, is_null>>
valueVars == <<stage, col, bindVars, binds, table, out, fetched>>
vars == <<connectVars, valueVars>>

NA == <<>>          \* a missing R value, a NULL of SQL; otherwise <<value>>

-----------------------------------------------------------------------------
(* Times *)

Second == Parts * Ticks
Day == 86400 * Second

(* set_time_buffer(): hours may exceed a day, the sign is apart, and what   *)
(* is finer than a second_part is cut off.                                  *)
Clock(time) ==
    LET t == IF time < 0 THEN -time ELSE time
        whole_seconds == t \div Second
        whole_minutes == t \div (60 * Second)
        hours == t \div (3600 * Second)
    IN  [hour |-> hours,
         minute |-> whole_minutes - hours * 60,
         second |-> whole_seconds - whole_minutes * 60,
         second_part |-> (t % Second) \div Ticks,
         neg |-> time < 0]

NoDate == [year |-> 0, month |-> 0, day |-> 0]
NoClock == Clock(0)

MysqlTime(d, c) ==
    [year |-> d.year, month |-> d.month, day |-> d.day, hour |-> c.hour,
     minute |-> c.minute, second |-> c.second, second_part |-> c.second_part,
     neg |-> c.neg]

(* value_date_time() and value_time(). *)
ClockTicks(b) ==
    (b.hour * 3600 + b.minute * 60 + b.second) * Second + b.second_part * Ticks
DateTimeTicks(b) == DaysFromCivil(b.year, b.month, b.day) * Day + ClockTicks(b)
TimeTicks(b) == (IF b.neg THEN -1 ELSE 1) * ClockTicks(b)

-----------------------------------------------------------------------------
(* Time zones: what R (lubridate) and the server know of them (external) *)

Offset(zone, t) ==
    CASE zone = "named" -> IF Summer[1] <= t /\ t <= Summer[2] THEN 3600 ELSE 0
      [] zone = "+02:00" -> 7200
      [] OTHER -> 0

Wall(zone, ticks) == ticks + Offset(zone, ticks \div Second) * Second

(* The instants whose wall clock time is w: none when clocks skip it, two   *)
(* when they are set back.                                                  *)
Instants(zone, w) ==
    {t \in {w - h * 3600 * Second : h \in 0..2} : Wall(zone, t) = w}

(* posixlt_to_posixct(): wall clock time of the connection's zone. *)
ToLocal(x) == IF conn.timezone = "UTC" THEN x ELSE Wall(conn.timezone, x)

(* fix_timezone(): the instant, NA when there is none; of two instants the  *)
(* library may take either.                                                 *)
FromLocal(w) ==
    IF Instants(conn.timezone, w) = {} THEN {NA}
    ELSE {<<t>> : t \in Instants(conn.timezone, w)}

-----------------------------------------------------------------------------
(* Writing: sql_data() and MariaBinding *)

(* sql_data(): factors become strings, dates and difftimes doubles, and      *)
(* times local times, which makes them doubles; in UTC they stay what they   *)
(* are.                                                                      *)
Coerced(c) ==
    CASE c.class = "factor" -> [typeof |-> "character", class |-> ""]
      [] c.class \in {"Date", "difftime"} -> [typeof |-> "double", class |-> c.class]
      [] c.class = "POSIXt" /\ conn.timezone # "UTC" -> [typeof |-> "double", class |-> "POSIXt"]
      [] OTHER -> [typeof |-> c.typeof, class |-> c.class]

(* ... and what that does to a value. *)
SqlData(c, x) ==
    CASE c.class = "POSIXt" /\ x # NA -> <<ToLocal(x[1])>>
      [] c.typeof = "double" /\ c.class = "" /\ x \in {<<"Inf">>, <<"NaN">>} -> NA
      [] OTHER -> x

(* What is bound: the storage decides, and of doubles the class. *)
variable_type_from_object(x) ==
    CASE x.typeof = "logical" -> "MY_LGL"
      [] x.typeof = "integer" -> "MY_INT32"
      [] x.typeof = "character" -> "MY_STR"
      [] x.typeof = "list" -> "MY_RAW"
      [] x.typeof = "double" /\ x.class = "Date" -> "MY_DATE"
      [] x.typeof = "double" /\ x.class = "POSIXt" -> "MY_DATE_TIME"
      [] x.typeof = "double" /\ x.class = "difftime" -> "MY_TIME"
      [] x.typeof = "double" /\ x.class = "integer64" -> "MY_INT64"
      [] OTHER -> "MY_DBL"

Temporal == {"MY_DATE", "MY_DATE_TIME", "MY_TIME"}

(* Mutant: clear_date_buffer() is forgotten. *)
DateBufferLeft(type, v) ==
    CASE type = "MY_DATE" -> CivilFromDays(v \div 2)
      [] type = "MY_DATE_TIME" -> CivilFromDays(v \div Day)
      [] OTHER -> time_buffer

(* set_date_buffer() or clear_date_buffer(); R's dates count half days here. *)
DateBuffer(type, v) ==
    CASE type = "MY_DATE" -> CivilFromDays(v \div 2)
      [] type = "MY_DATE_TIME" -> CivilFromDays(v \div Day)
      [] OTHER -> NoDate

(* set_time_buffer() or clear_time_buffer(). *)
TimeBuffer(type, v) ==
    CASE type = "MY_DATE_TIME" -> Clock(v - (v \div Day) * Day)
      [] type = "MY_TIME" -> Clock(v)
      [] OTHER -> NoClock

(* What the client library sends of a MYSQL_TIME (external): of a TIME, the *)
(* days count as hours.                                                     *)
Sent(type, b) ==
    CASE type = "MY_DATE" -> MysqlTime(b, NoClock)
      [] type = "MY_TIME" -> MysqlTime(NoDate, [b EXCEPT !.hour = @ + 24 * b.day])
      [] OTHER -> b

(* The date the digits of a number spell: those of 710101.                   *)
Spelt == [year |-> 1971, month |-> 1, day |-> 1]

(* How the server stores it (external): TIMESTAMP columns hold instants, by *)
(* the time zone of the session.                                            *)
Stored(type, sent) ==
    IF sent = NA THEN {NA}
    ELSE CASE col = "timestamp" ->
                {<<t>> : t \in Instants(session.time_zone, DateTimeTicks(sent[1]))}
           [] col = "time" -> {<<MysqlTime(NoDate, sent[1])>>}
           [] col \in {"tinyint", "int", "bigint"} /\ type = "MY_LGL" ->
                {<<IF sent[1] THEN 1 ELSE 0>>}
           [] col = "datetime" /\ type = "MY_INT32" -> {<<MysqlTime(Spelt, NoClock)>>}
           [] OTHER -> {sent}

-----------------------------------------------------------------------------
(* Reading: MariaRow, convert_bigint() *)

(* variable_type_from_field_type() *)
FieldType(c) ==
    CASE c \in {"tinyint", "int", "unsigned"} -> "MY_INT32"
      [] c = "bigint" -> "MY_INT64"
      [] c = "double" -> "MY_DBL"
      [] c \in {"datetime", "timestamp"} -> "MY_DATE_TIME"
      [] c = "date" -> "MY_DATE"
      [] c = "time" -> "MY_TIME"
      [] c = "bit" -> "MY_LGL"
      [] c = "blob" -> "MY_RAW"
      [] OTHER -> "MY_STR"

(* df_create() and df_s3(): the storage and the class of a column. *)
type_sexp(t) ==
    CASE t = "MY_LGL" -> "logical"
      [] t = "MY_INT32" -> "integer"
      [] t = "MY_STR" -> "character"
      [] t = "MY_RAW" -> "list"
      [] OTHER -> "double"

df_s3(t) ==
    CASE t = "MY_DATE" -> "Date"
      [] t = "MY_DATE_TIME" -> "POSIXt"
      [] t = "MY_TIME" -> "difftime"
      [] t = "MY_INT64" -> "integer64"
      [] OTHER -> ""

(* ... and what dbFetch() makes of it: convert_bigint(), fix_blob(). *)
Fetched ==
    LET t == FieldType(col) IN
    CASE t = "MY_INT64" /\ args.bigint = "integer" -> [typeof |-> "integer", class |-> ""]
      [] t = "MY_INT64" /\ args.bigint = "numeric" -> [typeof |-> "double", class |-> ""]
      [] t = "MY_INT64" /\ args.bigint = "character" -> [typeof |-> "character", class |-> ""]
      [] t = "MY_RAW" -> [typeof |-> "list", class |-> "blob"]
      [] OTHER -> [typeof |-> type_sexp(t), class |-> df_s3(t)]

(* The bits of an unsigned integer as an int of w bits; the smallest is R's *)
(* NA.                                                                      *)
Signed(n, w) == IF n >= 2^(w-1) THEN n - 2^w ELSE n
RInteger(n, w) == IF n = -(2^(w-1)) THEN NA ELSE <<n>>

(* The doubles next to an integer. *)
Doubles(n) ==
    IF n \in -(2^Exact)..2^Exact \/ n % 2 = 0 THEN {n} ELSE {n - 1, n + 1}

ConvertBigint(x) ==
    IF x = NA THEN {NA}
    ELSE CASE args.bigint = "integer" ->
                {IF -(2^(IntBits-1)) < x[1] /\ x[1] < 2^(IntBits-1) THEN x ELSE NA}
           [] args.bigint = "numeric" -> {<<d>> : d \in Doubles(x[1])}
           [] OTHER -> {x}

(* What the client library gives for a stored value (external): a           *)
(* TIMESTAMP becomes wall clock time of the session.                        *)
Received(v) ==
    IF col = "timestamp"
    THEN LET w == Wall(session.time_zone, v)
         IN  MysqlTime(CivilFromDays(w \div Day), Clock(w - (w \div Day) * Day))
    ELSE v

(* What dbFetch() may make of the contents of the buffers o. *)
Converted(o) ==
    LET b == o.data IN
    CASE FieldType(col) = "MY_INT32" -> {RInteger(Signed(b, IntBits), IntBits)}
      [] FieldType(col) = "MY_INT64" -> ConvertBigint(RInteger(b, BigBits))
      [] FieldType(col) = "MY_DATE" -> {<<2 * DaysFromCivil(b.year, b.month, b.day)>>}
      [] FieldType(col) = "MY_DATE_TIME" -> FromLocal(DateTimeTicks(b))
      [] FieldType(col) = "MY_TIME" -> {<<TimeTicks(b)>>}
      [] FieldType(col) \in {"MY_STR", "MY_RAW"} -> {<<SubSeq(b, 1, o.length)>>}
      [] OTHER -> {<<b>>}

(* Mutant: The NULL indicator is not looked at. *)
RValuesOfBuffer(o) == Converted(o)

(* set_list_value(), then the coercions of dbFetch(). *)
RValues(o) == IF o.null THEN {NA} ELSE Converted(o)

-----------------------------------------------------------------------------
(* Statements *)

Usable == step = "ready" /\ session # NULL

(* R's time zone functions fail on a zone they do not know; timezone_out is  *)
(* for display only.                                                         *)
Convertible == conn.timezone \in RZones

Empty == [null |-> FALSE, length |-> 0, data |-> NULL]

(* MariaBinding::setup(), and the end of the object. *)
Fresh ==
    /\ params' = NULL /\ i' = 0 /\ binds' = 0
    /\ time_buffer' = MysqlTime(NoDate, NoClock) /\ buffer' = NULL /\ is_null' = FALSE

(* dbSendStatement("INSERT ... VALUES (?)"): MariaBinding's buffers are new. *)
Prepare(c) ==
    /\ Usable /\ stage = "none" /\ table = <<>>
    /\ stage' = "insert" /\ col' = c
    /\ Fresh
    /\ UNCHANGED <<connectVars, table, out, fetched>>

(* The list that init_binding() gets, and what it makes of its type. *)
Params(c) ==
    [object |-> [typeof |-> c.typeof, class |-> c.class],
     type |-> variable_type_from_object(Coerced(c)),
     was |-> c.vals, vals |-> [n \in DOMAIN c.vals |-> SqlData(c, c.vals[n])]]

(* Mutant: The second list of parameters starts where the first has ended. *)
InitBindingGoesOn(c) ==
    /\ Usable /\ stage \in {"insert", "bound"} /\ binds < MaxBinds
    /\ params # NULL => i = Len(params.vals)
    /\ col \in c.into
    /\ c.class = "POSIXt" => Convertible
    /\ params' = Params(c)
    /\ binds' = binds + 1 /\ stage' = "bound"
    /\ UNCHANGED <<connectVars, col, i, time_buffer, buffer, is_null, table, out, fetched>>

(* dbBind(): sql_data() and init_binding(). An error of R's time zone       *)
(* functions leaves the statement as it was.                                *)
InitBinding(c) ==
    /\ Usable /\ stage \in {"insert", "bound"} /\ binds < MaxBinds
    /\ params # NULL => i = Len(params.vals)
    /\ col \in c.into
    /\ c.class = "POSIXt" => Convertible
    /\ params' = Params(c)
    /\ i' = 0 /\ binds' = binds + 1 /\ stage' = "bound"
    /\ UNCHANGED <<connectVars, col, time_buffer, buffer, is_null, table, out, fetched>>

(* bind_next_row(), which leaves the buffers of a missing value alone. *)
FillBuffers(type, x) ==
    /\ is_null' = (x = NA)
    /\ IF x # NA /\ type \in Temporal
       THEN time_buffer' = MysqlTime(DateBuffer(type, x[1]), TimeBuffer(type, x[1]))
       ELSE UNCHANGED time_buffer
    /\ IF x # NA /\ type \notin Temporal
       THEN buffer' = x[1]
       ELSE UNCHANGED buffer

(* bind_next_row() and execute(). *)
BindNextRow ==
    /\ Usable /\ stage = "bound" /\ i < Len(params.vals)
    /\ FillBuffers(params.type, params.vals[i + 1])
    /\ i' = i + 1
    /\ LET sent == IF is_null' THEN NA
                   ELSE IF params.type \in Temporal THEN <<Sent(params.type, time_buffer')>>
                   ELSE <<buffer'>>
       IN  \E v \in Stored(params.type, sent) :
             table' = Append(table, [object |-> params.object, put |-> params.was[i + 1],
                                     type |-> params.type, from |-> conn.timezone, val |-> v])
    /\ UNCHANGED <<connectVars, stage, col, params, binds, out, fetched>>

(* Integers that other programs have stored. *)
PeerStores(f) ==
    /\ stage = "none" /\ table = <<>>
    /\ col' = f.col
    /\ table' = <<[object |-> NULL, put |-> NA, type |-> "foreign", from |-> NULL, val |-> <<f.val>>]>>
    /\ UNCHANGED <<connectVars, stage, bindVars, binds, out, fetched>>

(* dbSendQuery("SELECT"): MariaRow::setup(). *)
Query ==
    /\ Usable /\ stage = "none" /\ table # <<>>
    /\ stage' = "select"
    /\ out' = Empty /\ fetched' = <<>>
    /\ UNCHANGED <<connectVars, col, bindVars, binds, table>>

(* mysql_stmt_fetch() fills the buffers, but not those of a NULL;           *)
(* fetch_buffer() sizes that of a string or blob.                           *)
FetchRow ==
    /\ Usable /\ stage = "select" /\ Len(fetched) < Len(table)
    /\ FieldType(col) = "MY_DATE_TIME" => Convertible
    /\ LET v == table[Len(fetched) + 1].val
       IN  out' = IF v = NA THEN [out EXCEPT !.null = TRUE]
                  ELSE [null |-> FALSE, data |-> Received(v[1]),
                        length |-> IF col \in {"text", "blob"} THEN Len(v[1]) ELSE 0]
    /\ \E x \in RValues(out') : fetched' = Append(fetched, x)
    /\ UNCHANGED <<connectVars, stage, col, bindVars, binds, table>>

(* fix_timezone() fails after the rows have been taken: they are gone. *)
FetchFails ==
    /\ Usable /\ stage = "select" /\ Len(fetched) < Len(table)
    /\ FieldType(col) = "MY_DATE_TIME" /\ ~Convertible
    /\ stage' = "spent"
    /\ UNCHANGED <<connectVars, col, bindVars, binds, table, out, fetched>>

(* dbClearResult(): rows that were written are committed, unless the        *)
(* session has gone with them.  A dbBind() that has begun binds all rows.   *)
Clear ==
    /\ step = "ready" /\ stage # "none"
    /\ stage = "bound" /\ session # NULL => i = Len(params.vals)
    /\ table' = IF session = NULL /\ stage \in {"insert", "bound"} THEN <<>> ELSE table
    /\ stage' = "none" /\ out' = Empty /\ fetched' = <<>>
    /\ Fresh
    /\ UNCHANGED <<connectVars, col>>

Init ==
    /\ ConnectInit
    /\ stage = "none" /\ col = "int" /\ table = <<>>
    /\ params = NULL /\ i = 0 /\ binds = 0
    /\ time_buffer = MysqlTime(NoDate, NoClock)
    /\ buffer = NULL /\ is_null = FALSE
    /\ out = Empty /\ fetched = <<>>

ServerColumns == {"tinyint", "bit", "int", "bigint", "double", "text", "blob",
                  "date", "datetime", "timestamp", "time"}

Next ==
    \/ (Connecting \/ SessionLost) /\ UNCHANGED valueVars
    \/ stage = "none" /\ Disconnect /\ UNCHANGED valueVars
    \/ \E c \in ServerColumns : Prepare(c)
    \/ \E c \in Columns : InitBinding(c)
    \/ \E f \in Foreign : PeerStores(f)
    \/ BindNextRow \/ Query \/ FetchRow \/ FetchFails \/ Clear

Spec == Init /\ [][Next]_vars

-----------------------------------------------------------------------------
(* Properties *)

(* Types of the connection, the statement in use and the buffers. *)
TypeOK ==
    /\ ConnectTypeOK
    /\ stage \in {"none", "insert", "bound", "select", "spent"}
    /\ params # NULL => i \in 0..Len(params.vals)
    /\ DOMAIN time_buffer = DOMAIN MysqlTime(NoDate, NoClock)
    /\ is_null \in BOOLEAN /\ binds \in 0..MaxBinds
    /\ out.null \in BOOLEAN /\ out.length \in Nat
    /\ Len(fetched) <= Len(table)

IsClock(b) == b.minute \in 0..59 /\ b.second \in 0..59 /\ b.second_part \in 0..(Parts - 1)
IsMidnight(b) == ClockTicks(b) = 0 /\ ~b.neg

(* A time of R to the server's precision, from below and towards zero. *)
FloorPart(t) == t - (t % Ticks)
TruncPart(t) == IF t < 0 THEN -FloorPart(-t) ELSE FloorPart(t)

(* The row denotes the value that was bound, whatever was in the buffers of *)
(* earlier rows and bindings: dates are those of the calendar, times are    *)
(* cut to the server's precision, datetimes are wall clock time of the       *)
(* connection's zone.                                                        *)
Denotes(row) ==
    LET b == row.val[1]
        v == row.put[1]
    IN  CASE row.type = "MY_DATE" ->
               IsDate(b) /\ IsMidnight(b) /\ DayNumber(b) = v \div 2
          [] row.type = "MY_DATE_TIME" /\ col = "datetime" ->
               /\ IsDate(b) /\ IsClock(b) /\ b.hour \in 0..23 /\ ~b.neg
               /\ DayNumber(b) * Day + ClockTicks(b) = FloorPart(Wall(row.from, v))
          [] row.type = "MY_DATE_TIME" /\ col = "timestamp" ->
               Wall(row.from, b) = FloorPart(Wall(row.from, v))
          [] row.type = "MY_DATE_TIME" /\ col = "time" ->
               ~b.neg /\ ClockTicks(b) = FloorPart(Wall(row.from, v)) % Day
          [] row.type = "MY_TIME" ->
               IsClock(b) /\ b.day = 0 /\ TimeTicks(b) = TruncPart(v)
          [] row.type = "MY_LGL" /\ col # "bit" -> b = IF v THEN 1 ELSE 0
          [] OTHER -> b = v

Missing(row) == row.put = NA \/ (row.type = "MY_DBL" /\ row.put \in {<<"Inf">>, <<"NaN">>})

(* Times that R keeps as integers are not coerced in UTC, and bound as        *)
(* numbers, in which the server looks for the digits of a date.              *)
BoundAsNumber(row) == row.type = "MY_INT32" /\ row.object.class = "POSIXt"

Faithful(row) ==
    row.type # "foreign" /\ ~BoundAsNumber(row) =>
      IF Missing(row) THEN row.val = NA
      ELSE row.val # NA /\ Denotes(row)

(* What a row of parameters becomes on the server is NULL if it was missing *)
(* and denotes its value otherwise, but for integer times in UTC.            *)
StoredIsBound == \A n \in DOMAIN table : Faithful(table[n])

(* R has no value for the stored integer, or for this setting of bigint. *)
Unrepresentable(v) ==
    CASE col \in {"int", "tinyint"} -> v = -(2^(IntBits-1))
      [] col = "unsigned" -> v >= 2^(IntBits-1)
      [] col = "bigint" ->
           \/ v = -(2^(BigBits-1))
           \/ args.bigint = "integer" /\ v \notin (1 - 2^(IntBits-1))..(2^(IntBits-1) - 1)
           \/ args.bigint = "numeric" /\ v \notin -(2^Exact)..2^Exact
      [] OTHER -> FALSE

(* The column that dbDataType() proposes for an object of R. *)
dbDataType(x) ==
    CASE x.class = "factor" -> "text"
      [] x.class = "POSIXt" -> "datetime"
      [] x.class = "Date" -> "date"
      [] x.class = "difftime" -> "time"
      [] x.class = "integer64" -> "bigint"
      [] x.class \in {"", "blob"} /\ x.typeof = "logical" -> "tinyint"
      [] x.class \in {"", "blob"} /\ x.typeof = "integer" -> "int"
      [] x.class \in {"", "blob"} /\ x.typeof = "double" -> "double"
      [] x.class \in {"", "blob"} /\ x.typeof = "character" -> "text"
      [] x.class \in {"", "blob"} /\ x.typeof = "list" -> "blob"

(* What becomes of an object in such a column: factors are strings, logicals *)
(* integers, big integers what the connection asks for, lists blobs.         *)
Returned(x) ==
    CASE x.class = "factor" -> [typeof |-> "character", class |-> ""]
      [] x.class = "integer64" /\ args.bigint = "integer64" -> x
      [] x.class = "integer64" /\ args.bigint = "numeric" -> [typeof |-> "double", class |-> ""]
      [] x.class = "integer64" /\ args.bigint \notin {"integer64", "numeric"} ->
           [typeof |-> args.bigint, class |-> ""]
      [] x.class \in {"Date", "POSIXt", "difftime"} -> [typeof |-> "double", class |-> x.class]
      [] x.class \in {"", "blob"} /\ x.typeof = "logical" -> [typeof |-> "integer", class |-> ""]
      [] x.class \in {"", "blob"} /\ x.typeof = "list" -> [typeof |-> "list", class |-> "blob"]
      [] OTHER -> x

(* A column of the type that dbDataType() proposes comes back with the class *)
(* it had.                                                                   *)
ClassKept(x) == x # NULL /\ col = dbDataType(x) => Fetched = Returned(x)

(* NA for NULL, and otherwise the stored value where R has one; a datetime    *)
(* is read on the clock of the connection's zone.                            *)
ReadRight(v, x) ==
    IF v = NA THEN x = NA
    ELSE CASE FieldType(col) = "MY_DATE_TIME" ->
                LET w == IF col = "timestamp" THEN Wall(session.time_zone, v[1])
                         ELSE DayNumber(v[1]) * Day + ClockTicks(v[1])
                IN  IF Instants(conn.timezone, w) = {} THEN x = NA
                    ELSE x # NA /\ Wall(conn.timezone, x[1]) = w
           [] FieldType(col) = "MY_DATE" -> x = <<2 * DayNumber(v[1])>>
           [] FieldType(col) = "MY_TIME" -> x = <<TimeTicks(v[1])>>
           [] OTHER -> Unrepresentable(v[1]) \/ x = v

(* What is read is what is stored, whatever the rows before have left in the *)
(* buffers, and keeps its class.                                             *)
ReadIsStored ==
    session # NULL => \A n \in DOMAIN fetched :
      ClassKept(table[n].object) /\ ReadRight(table[n].val, fetched[n])

(* The hour a zone has twice. *)
Repeated(zone, t) == \E u \in Instants(zone, Wall(zone, t)) : u # t

SameInstant(row, x) ==
    col = "timestamp" /\ row.put # NA =>
      LET t == FloorPart(row.put[1])
      IN  \/ x = <<t>>
          \/ Repeated(row.from, t)
          \/ x # NA /\ Repeated(conn.timezone, x[1])

(* A datetime that one connection writes into a TIMESTAMP column is the      *)
(* same instant for every connection that reads it, with a time zone of its  *)
(* own or not, but for the hour that a zone has twice.                       *)
InstantKept == \A n \in DOMAIN fetched : SameInstant(table[n], fetched[n])

=============================================================================
