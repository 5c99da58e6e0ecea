------------------------------ MODULE Calendar ------------------------------
(***************************************************************************)
(* The two date algorithms of the code -- MariaBinding::set_date_buffer()  *)
(* from a day to a civil date, days_from_civil() back -- and the Gregorian *)
(* calendar they are to compute.  Integers are unbounded: int and unsigned *)
(* overflow is out of the range of dates that servers store.               *)
(***************************************************************************)
EXTENDS Integers

(* Division of C: towards zero. *)
CDiv(a, b) == IF a >= 0 THEN a \div b ELSE -((-a) \div b)

(* set_date_buffer(): the era of 400 years, the year of the era, the day of  *)
(* a year that starts in March, and its month.                              *)
EraOf(date_0) == CDiv(IF date_0 >= 0 THEN date_0 ELSE date_0 - 146096, 146097)
YearOf(doe) == (doe - doe \div 1460 + doe \div 36524 - doe \div 146096) \div 365
DayOf(doe) == LET yoe == YearOf(doe)
              IN  doe - (365 * yoe + yoe \div 4 - yoe \div 100)
MarchMonth(doy) == (5 * doy + 2) \div 153
MonthOf(mp) == IF mp < 10 THEN mp + 3 ELSE mp - 9

(* The civil date of day doe of an era. *)
CivilOfEra(era, doe) ==
    LET doy == DayOf(doe)
        mp == MarchMonth(doy)
        m == MonthOf(mp)
    IN  [year |-> YearOf(doe) + era * 400 + (IF m <= 2 THEN 1 ELSE 0),
         month |-> m,
         day |-> doy - (153 * mp + 2) \div 5 + 1]

(* The civil date of a day counted from 1970-01-01. *)
CivilFromDays(date) ==
    LET date_0 == date + 719468
        era == EraOf(date_0)
    IN  CivilOfEra(era, date_0 - era * 146097)

(* days_from_civil(): the day of a civil date. *)
DaysFromCivil(year, m, d) ==
    LET y == IF m <= 2 THEN year - 1 ELSE year
        era == CDiv(IF y >= 0 THEN y ELSE y - 399, 400)
        yoe == y - era * 400
        doy == (153 * (m + (IF m > 2 THEN -3 ELSE 9)) + 2) \div 5 + d - 1
        doe == yoe * 365 + yoe \div 4 - yoe \div 100 + doy
    IN  era * 146097 + doe - 719468

-----------------------------------------------------------------------------
(* The Gregorian calendar, by counting leap years. *)
IsLeap(y) == y % 4 = 0 /\ (y % 100 # 0 \/ y % 400 = 0)
MonthLength(y, m) ==
    IF m = 2 THEN IF IsLeap(y) THEN 29 ELSE 28
    ELSE IF m \in {4, 6, 9, 11} THEN 30 ELSE 31
DaysBefore == <<0, 31, 59, 90, 120, 151, 181, 212, 243, 273, 304, 334>>
IsDate(b) == b.month \in 1..12 /\ b.day \in 1..MonthLength(b.year, b.month)
DayNumber(b) ==
    LET y == b.year - 1
    IN  365 * y + y \div 4 - y \div 100 + y \div 400 + DaysBefore[b.month] + b.day
        + (IF b.month > 2 /\ IsLeap(b.year) THEN 1 ELSE 0) - 719163

=============================================================================
