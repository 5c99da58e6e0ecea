--------------------------- MODULE MCConversions ----------------------------
(* Small instances of Conversions for TLC.                                  *)
EXTENDS Conversions

\* Integers of 3 and 6 bits, doubles exact to 2^4; 4 second_parts of 2 ticks.
MCSummer == <<100 * 86400, 200 * 86400 - 1>>

MCServerZones == {"+00:00", "+02:00", "UTC", "named", "SYSTEM"}
MCRZones == {"UTC", "named", ""}
MCDefaultZones == {"SYSTEM", "named"}

Argument(tz, tzOut, b) == [timezone |-> tz, timezone_out |-> tzOut, bigint |-> b]
MCArguments ==
    {Argument("+00:00", NULL, b) : b \in {"integer64", "integer", "numeric"}} \cup
    {Argument("named", "UTC", "character"), Argument("+02:00", NULL, "integer64"),
     Argument(NULL, NULL, "integer64"), Argument("", "named", "integer64"),
     Argument("UTC", "+02:00", "integer64")}

\* First and last days of months around leap years and centuries, half of them
\* at noon.
Years == <<1, 4, 100, 399, 400, 1600, 1900, 1969, 1970, 2000, 2024, 9999>>
Months == <<1, 2, 3, 8, 12>>
DateAt(n) ==
    LET y == Years[(n \div 10) + 1]
        m == Months[((n % 10) \div 2) + 1]
    IN  [year |-> y, month |-> m, day |-> IF n % 2 = 0 THEN 1 ELSE MonthLength(y, m)]
DateColumn(k) == [n \in 1..30 |-> <<2 * DayNumber(DateAt(30 * k + n - 1)) + (n % 2)>>]

\* Around the epoch, the edges of summer time, and noon.
Edge == MCSummer[2] * Second
Instant1 == << <<-1>>, NA, <<MCSummer[1] * Second - 1>>, <<MCSummer[1] * Second + 3>> >>
Instant2 == << <<Edge - 1800 * Second>>, <<Edge + 1800 * Second>>,
               <<43200 * Second + 5>>, NA, <<-3 * Day + 61 * Second>> >>
Times == << <<0>>, <<-1>>, <<-2>>, NA, <<90 * 3600 * Second + 61 * Second + 7>>,
            <<-(3599 * Second + 6)>> >>

MCColumns ==
    {[typeof |-> t[1], class |-> t[2], into |-> t[3], vals |-> t[4]] : t \in
      {<<"logical", "", {"tinyint", "bit", "int"}, << <<TRUE>>, NA, <<FALSE>> >> >>,
       <<"integer", "", {"int", "bigint"}, << <<3>>, NA, <<-3>>, <<0>> >> >>,
       <<"double", "integer64", {"bigint"},
         << <<31>>, <<-31>>, NA, <<17>>, <<4>>, <<3>>, <<-4>> >> >>,
       <<"double", "", {"double"}, << <<"1.5">>, <<"Inf">>, NA, <<"NaN">> >> >>,
       <<"character", "", {"text"}, << << <<"a", "b">> >>, NA, << <<>> >>, << <<"c">> >> >> >>,
       <<"integer", "factor", {"text"}, << << <<"b">> >>, NA >> >>,
       <<"list", "", {"blob"}, << << <<"0">> >>, << <<>> >>, NA, << <<"1", "2">> >> >> >>,
       <<"list", "blob", {"blob"}, << << <<"1">> >>, NA >> >>,
       <<"integer", "Date", {"date", "datetime"}, << <<41>>, NA, <<-1>> >> >>,
       <<"double", "POSIXt", {"datetime", "timestamp", "time"}, Instant1>>,
       <<"double", "POSIXt", {"datetime", "timestamp", "time"}, Instant2>>,
       <<"integer", "POSIXt", {"datetime"}, << <<710101 * Second>>, NA >> >>,
       <<"double", "difftime", {"time"}, Times>>} \cup
      {<<"double", "Date", {"date"}, DateColumn(k)>> : k \in 0..3}}

MCForeign ==
    {[col |-> "int", val |-> -4], [col |-> "int", val |-> 3],
     [col |-> "unsigned", val |-> 3], [col |-> "unsigned", val |-> 4],
     [col |-> "unsigned", val |-> 7], [col |-> "bigint", val |-> -32]}

=============================================================================
