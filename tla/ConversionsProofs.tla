-------------------------- MODULE ConversionsProofs --------------------------
(***************************************************************************)
(* Statements that bind and fetch values leave alone what dbConnect() has  *)
(* set up, so that its promises hold whatever is done with the connection. *)
(* And the times of the buffers are those that were bound, up to the       *)
(* precision of the server, however a second is divided.                   *)
(*                                                                         *)
(* What is stored is what was bound, what is read is what is stored, and   *)
(* instants are kept: for all columns of values, widths of integers, time  *)
(* zones and settings of the connections that write and read.              *)
(***************************************************************************)
EXTENDS Conversions, ConnectProofs, SequenceTheorems, TLAPS

-----------------------------------------------------------------------------
(* The date algorithms compute the Gregorian calendar, for every day and    *)
(* every year.                                                              *)


(* Days before March 1 of year y, by the leap years before it. *)
YearStart(y) == 365 * y + y \div 4 - y \div 100 + y \div 400

(* Division towards zero, corrected for negative numbers, is the floor. *)
LEMMA EraOfYear ==
    ASSUME NEW y \in Int
    PROVE  CDiv(IF y >= 0 THEN y ELSE y - 399, 400) = y \div 400
BY DEF CDiv

LEMMA EraOfDay ==
    ASSUME NEW n \in Int
    PROVE  EraOf(n) = n \div 146097
BY DEF EraOf, CDiv

(* From one March to the next there are 365 days, or 366 with a leap day.   *)
LEMMA YearLength ==
    ASSUME NEW y \in Int
    PROVE  YearStart(y) = YearStart(y - 1) + 365 + (IF IsLeap(y) THEN 1 ELSE 0)
BY SMTT(60) DEF YearStart, IsLeap

(* Days from March 1 to day d of month m. *)
LEMMA DayOfYear ==
    ASSUME NEW m \in 1..12, NEW d \in Int
    PROVE  (153 * (m + (IF m > 2 THEN -3 ELSE 9)) + 2) \div 5 + d - 1
             = DaysBefore[m] + d + (IF m <= 2 THEN 305 ELSE -60)
BY DEF DaysBefore

(* days_from_civil() counts the days of the Gregorian calendar.             *)
THEOREM DaysFromCivilCounts ==
    ASSUME NEW y \in Int, NEW m \in 1..12, NEW d \in Int
    PROVE  DaysFromCivil(y, m, d) = DayNumber([year |-> y, month |-> m, day |-> d])
<1> DEFINE yy == IF m <= 2 THEN y - 1 ELSE y
           doy == (153 * (m + (IF m > 2 THEN -3 ELSE 9)) + 2) \div 5 + d - 1
<1>1. yy \in Int /\ doy \in Int
  OBVIOUS
<1>2. doy = DaysBefore[m] + d + (IF m <= 2 THEN 305 ELSE -60)
  BY DayOfYear
<1>3. DaysFromCivil(y, m, d) = YearStart(yy) + doy - 719468
  <2> DEFINE era == CDiv(IF yy >= 0 THEN yy ELSE yy - 399, 400)
             yoe == yy - era * 400
  <2>1. DaysFromCivil(y, m, d)
          = era * 146097 + (yoe * 365 + yoe \div 4 - yoe \div 100 + doy) - 719468
    BY DEF DaysFromCivil
  <2> HIDE DEF yy, doy
  <2>2. era = yy \div 400
    BY <1>1, EraOfYear
  <2> HIDE DEF era
  <2>3. era \in Int /\ yoe \in Int /\ yoe = yy - era * 400
    BY <1>1, <2>2
  <2> HIDE DEF yoe
  <2>4. yy \div 4 = 100 * era + yoe \div 4
    BY <1>1, <2>2, <2>3
  <2>5. yy \div 100 = 4 * era + yoe \div 100
    BY <1>1, <2>2, <2>3
  <2>6. YearStart(yy) = 365 * yy + yy \div 4 - yy \div 100 + era
    BY <2>2 DEF YearStart
  <2>7. QED BY <1>1, <2>1, <2>3, <2>4, <2>5, <2>6
<1>4. DayNumber([year |-> y, month |-> m, day |-> d]) =
        YearStart(y - 1) + DaysBefore[m] + d
        + (IF m > 2 /\ IsLeap(y) THEN 1 ELSE 0) - 719163
  BY DEF DayNumber, YearStart
<1>5. DaysBefore[m] \in Int /\ YearStart(y) \in Int /\ YearStart(y - 1) \in Int
  BY DEF DaysBefore, YearStart
<1>6. CASE m <= 2
  <2>1. yy = y - 1 /\ doy = DaysBefore[m] + d + 305
    BY <1>2, <1>6
  <2> HIDE DEF yy, doy
  <2>2. QED BY <1>3, <1>4, <1>5, <1>6, <2>1
<1>7. CASE m > 2
  <2>1. yy = y /\ doy = DaysBefore[m] + d - 60
    BY <1>2, <1>5, <1>7
  <2>2. YearStart(y) = YearStart(y - 1) + 365 + (IF IsLeap(y) THEN 1 ELSE 0)
    BY YearLength
  <2> HIDE DEF yy, doy
  <2>3. QED BY <1>3, <1>4, <1>5, <1>7, <2>1, <2>2
<1>8. QED BY <1>6, <1>7

-----------------------------------------------------------------------------
(* A day of an era is in one of its 400 years; only leap years, which end   *)
(* in February, have day 365.                                               *)
LEMMA DayOfEra ==
    ASSUME NEW doe \in Int, 0 <= doe, doe <= 146096
    PROVE  /\ YearOf(doe) \in Int /\ 0 <= YearOf(doe) /\ YearOf(doe) <= 399
           /\ DayOf(doe) = doe - (365 * YearOf(doe) + YearOf(doe) \div 4 - YearOf(doe) \div 100)
           /\ DayOf(doe) \in Int /\ 0 <= DayOf(doe) /\ DayOf(doe) <= 365
           /\ DayOf(doe) = 365 => IsLeap(YearOf(doe) + 1)
<1>1. PICK yoe \in Int :
        /\ yoe = YearOf(doe)
        /\ yoe = (doe - doe \div 1460 + doe \div 36524 - doe \div 146096) \div 365
  BY DEF YearOf
<1>2. PICK doy \in Int :
        /\ doy = DayOf(doe)
        /\ doy = doe - (365 * yoe + yoe \div 4 - yoe \div 100)
  BY <1>1 DEF DayOf
<1>3. 0 <= yoe /\ yoe <= 399
  BY <1>1, SMTT(60)
<1>4. 0 <= doy /\ doy <= 365
  BY <1>1, <1>2, SMTT(60)
<1>5. doy = 365 => IsLeap(yoe + 1)
  BY <1>1, <1>2, <1>3, SMTT(60) DEF IsLeap
<1>6. QED BY <1>1, <1>2, <1>3, <1>4, <1>5

(* A day of a year that starts in March is a day of one of its months.      *)
LEMMA DayOfMonth ==
    ASSUME NEW doy \in Int, 0 <= doy, doy <= 365,
           NEW mp, mp = MarchMonth(doy), NEW m, m = MonthOf(mp),
           NEW d, d = doy - (153 * mp + 2) \div 5 + 1
    PROVE  /\ mp \in 0..11 /\ m \in 1..12
           /\ mp = m + (IF m > 2 THEN -3 ELSE 9)
           /\ d \in Int /\ 1 <= d
           /\ d <= IF m = 2 THEN (IF doy = 365 THEN 29 ELSE 28)
                    ELSE IF m \in {4, 6, 9, 11} THEN 30 ELSE 31
<1>1. mp = (5 * doy + 2) \div 153 /\ m = (IF mp < 10 THEN mp + 3 ELSE mp - 9)
  BY DEF MarchMonth, MonthOf
<1>2. mp \in 0..11
  BY <1>1
<1>3. m \in 1..12 /\ mp = m + (IF m > 2 THEN -3 ELSE 9)
  BY <1>1, <1>2
<1>4. d \in Int /\ 1 <= d
  BY <1>1, <1>2
<1>5. m \in {1, 3, 5, 7, 8, 10, 12} => d <= 31
  BY <1>1, <1>2, <1>3
<1>6. m \in {4, 6, 9, 11} => d <= 30
  BY <1>1, <1>2, <1>3
<1>7. m = 2 => d <= (IF doy = 365 THEN 29 ELSE 28)
  BY <1>1, <1>2, <1>3
<1>8. QED BY <1>2, <1>3, <1>4, <1>5, <1>6, <1>7

(* Eras have the same leap years. *)
LEMMA LeapOfEra ==
    ASSUME NEW y \in Int, NEW era \in Int
    PROVE  IsLeap(y + era * 400) <=> IsLeap(y)
BY DEF IsLeap

(* set_date_buffer() computes a date of the calendar, and that of the day it *)
(* is given: the two algorithms agree with the calendar and are inverse.     *)
THEOREM CivilFromDaysCounts ==
    ASSUME NEW n \in Int
    PROVE  LET c == CivilFromDays(n)
           IN  /\ IsDate(c)
               /\ DaysFromCivil(c.year, c.month, c.day) = n
               /\ DayNumber(c) = n
<1>1. PICK era \in Int, doe \in Int :
         /\ era = EraOf(n + 719468)
         /\ doe = n + 719468 - era * 146097
         /\ 0 <= doe /\ doe <= 146096
  BY EraOfDay
<1>2. PICK yoe \in Int, doy \in Int :
         /\ yoe = YearOf(doe) /\ doy = DayOf(doe)
         /\ 0 <= yoe /\ yoe <= 399 /\ 0 <= doy /\ doy <= 365
         /\ doy = doe - (365 * yoe + yoe \div 4 - yoe \div 100)
         /\ doy = 365 => IsLeap(yoe + 1)
  BY <1>1, DayOfEra
<1>3. PICK mp, m, d :
         /\ mp = MarchMonth(doy) /\ m = MonthOf(mp)
         /\ d = doy - (153 * mp + 2) \div 5 + 1
  OBVIOUS
<1>4. /\ mp \in 0..11 /\ m \in 1..12
      /\ mp = m + (IF m > 2 THEN -3 ELSE 9)
      /\ d \in Int /\ 1 <= d
      /\ d <= IF m = 2 THEN (IF doy = 365 THEN 29 ELSE 28)
               ELSE IF m \in {4, 6, 9, 11} THEN 30 ELSE 31
  BY <1>2, <1>3, DayOfMonth
<1>5. PICK year \in Int : year = yoe + era * 400 + (IF m <= 2 THEN 1 ELSE 0)
  BY <1>2, <1>1
<1>6. CivilFromDays(n) = [year |-> year, month |-> m, day |-> d]
  <2>1. CivilFromDays(n) = CivilOfEra(era, doe)
    BY <1>1 DEF CivilFromDays
  <2>2. QED BY <2>1, <1>2, <1>3, <1>5 DEF CivilOfEra
<1>7. IsDate([year |-> year, month |-> m, day |-> d])
  <2>1. IsLeap((yoe + 1) + era * 400) <=> IsLeap(yoe + 1)
    <3>1. yoe + 1 \in Int /\ era \in Int
      OBVIOUS
    <3>2. QED BY <3>1, LeapOfEra, Zenon
  <2>2. m = 2 => year = (yoe + 1) + era * 400
    BY <1>5, <1>1, <1>2
  <2>3. m = 2 /\ doy = 365 => IsLeap(year)
    BY <1>2, <2>1, <2>2
  <2>4. d <= MonthLength(year, m)
    BY <1>4, <2>3 DEF MonthLength
  <2>5. MonthLength(year, m) \in Int
    BY DEF MonthLength
  <2>6. QED BY <1>4, <2>4, <2>5 DEF IsDate
<1>8. DaysFromCivil(year, m, d) = n
  <2>1. PICK y \in Int : y = (IF m <= 2 THEN year - 1 ELSE year) /\ y = yoe + era * 400
    BY <1>1, <1>2, <1>4, <1>5
  <2>2. y \div 400 = era /\ y - era * 400 = yoe
    <3>1. 0 <= yoe /\ yoe <= 399
      BY <1>2
    <3>2. QED BY <2>1, <3>1
  <2>3. CDiv(IF y >= 0 THEN y ELSE y - 399, 400) = era
    <3>1. CDiv(IF y >= 0 THEN y ELSE y - 399, 400) = y \div 400
      BY EraOfYear
    <3>2. QED BY <3>1, <2>2
  <2>4. (153 * (m + (IF m > 2 THEN -3 ELSE 9)) + 2) \div 5 + d - 1 = doy
    <3>1. m + (IF m > 2 THEN -3 ELSE 9) = mp
      BY <1>4
    <3>2. QED BY <3>1, <1>2, <1>3, <1>4
  <2>5. QED
    <3> DEFINE yy == IF m <= 2 THEN year - 1 ELSE year
               e == CDiv(IF yy >= 0 THEN yy ELSE yy - 399, 400)
               a == yy - e * 400
               b == (153 * (m + (IF m > 2 THEN -3 ELSE 9)) + 2) \div 5 + d - 1
    <3>1. DaysFromCivil(year, m, d)
            = e * 146097 + (a * 365 + a \div 4 - a \div 100 + b) - 719468
      BY DEF DaysFromCivil
    <3>2. b = doy
      BY <2>4
    <3> HIDE DEF b
    <3>3. yy = y
      BY <2>1
    <3> HIDE DEF yy
    <3>4. e = era
      BY <2>3, <3>3
    <3> HIDE DEF e
    <3>5. a = yoe
      BY <2>2, <3>3, <3>4
    <3> HIDE DEF a
    <3>6. QED BY <1>1, <1>2, <3>1, <3>2, <3>4, <3>5
<1>9. DayNumber([year |-> year, month |-> m, day |-> d]) = n
  BY <1>4, <1>8, DaysFromCivilCounts
<1>10. QED BY <1>6, <1>7, <1>8, <1>9


-----------------------------------------------------------------------------
(* Statements and the connection *)

(* Statements do not touch what dbConnect() has set up: a step of the whole *)
(* is a step of the connection or leaves it alone.                          *)
THEOREM StatementsLeaveConnection == Spec => ConnectSpec
<1>1. Init => ConnectInit
  BY DEF Init
<1>2. [Next]_vars => [ConnectNext]_connectVars
  BY DEF Next, ConnectNext, vars, Prepare, InitBinding, PeerStores, BindNextRow, Query, FetchRow,
         FetchFails, Clear, connectVars
<1>3. QED BY <1>1, <1>2, PTL DEF Spec, ConnectSpec

(* A connection the program has been given runs without autocommit, and R   *)
(* names the time zone of its session.                                      *)
THEOREM ReadyConnections == Spec => []ReadyIsConfigured
<1>1. ConnectInv => ReadyIsConfigured
  BY DEF ConnectInv, ZonesAgree, ReadyIsConfigured
<1>2. QED BY <1>1, ConnectInvariance, StatementsLeaveConnection, PTL

(* A dbConnect() that failed leaves no session but the one the collector is *)
(* going to end.                                                            *)
THEOREM FailedConnections == Spec => []FailedLeavesNothing
<1>1. ConnectInv => FailedLeavesNothing
  BY DEF ConnectInv, SessionsOwned, FailedLeavesNothing
<1>2. QED BY <1>1, ConnectInvariance, StatementsLeaveConnection, PTL

-----------------------------------------------------------------------------
(* Times *)

LEMMA Smaller ==
    ASSUME NEW x \in Int, NEW y \in Int, NEW d \in Nat \ {0}, x * d < y * d
    PROVE  x < y
OBVIOUS

(* The quotient and the remainder by a divisor that is not a constant.      *)
LEMMA Division ==
    ASSUME NEW a \in Int, NEW d \in Nat \ {0}
    PROVE  /\ a \div d \in Int /\ a % d \in 0..(d - 1)
           /\ a = d * (a \div d) + (a % d)
           /\ a >= 0 => a \div d >= 0
<1>1. a \div d \in Int /\ a % d \in 0..(d - 1)
  OBVIOUS
<1>2. a = d * (a \div d) + (a % d)
  OBVIOUS
<1>3. ASSUME a >= 0 PROVE a \div d >= 0
  <2> DEFINE q == a \div d
  <2>1. q \in Int
    BY <1>1
  <2>2. (-1) * d < q * d
    BY <1>1, <1>2, <1>3
  <2>3. QED BY <2>1, <2>2, Smaller
<1>4. QED BY <1>1, <1>2, <1>3

(* They are the only ones. *)
LEMMA Remainder ==
    ASSUME NEW q \in Int, NEW d \in Nat \ {0}, NEW r \in 0..(d - 1)
    PROVE  (d * q + r) % d = r
OBVIOUS

(* There are less than 60 units to the next larger one. *)
LEMMA Digit ==
    ASSUME NEW a \in Nat, NEW d \in Nat \ {0}
    PROVE  a \div d - (a \div (60 * d)) * 60 \in 0..59
<1> DEFINE q == a \div d
           m == a \div (60 * d)
<1>1. 60 * d \in Nat \ {0}
  OBVIOUS
<1>2. q \in Nat /\ m \in Nat
  BY <1>1, Division
<1>3. q * d <= a /\ a < (q + 1) * d
  BY Division
<1>4. (m * 60) * d <= a /\ a < ((m + 1) * 60) * d
  BY <1>1, Division
<1> HIDE DEF q, m
<1>5. m * 60 < q + 1
  BY <1>2, <1>3, <1>4, Smaller
<1>6. q < (m + 1) * 60
  BY <1>2, <1>3, <1>4, Smaller
<1>7. q - m * 60 \in 0..59
  BY <1>2, <1>5, <1>6
<1>8. QED BY <1>7 DEF q, m

LEMMA Units == Second \in Nat \ {0} /\ Ticks \in Nat \ {0} /\ Parts \in Nat \ {0}
BY WidthAssumption DEF Second

(* What set_time_buffer() cuts off is less than a second_part. *)
LEMMA PartsOfSecond ==
    ASSUME NEW a \in Nat
    PROVE  LET part == (a % Second) \div Ticks
           IN  /\ part \in 0..(Parts - 1)
               /\ (a \div Second) * Second + part * Ticks = FloorPart(a)
<1> DEFINE q == a \div Second
           r == a % Second
           part == r \div Ticks
           rest == r % Ticks
<1>1. q \in Nat /\ r \in 0..(Second - 1) /\ a = Second * q + r
  <2>1. a \in Int /\ a >= 0
    OBVIOUS
  <2>2. q \in Int /\ r \in 0..(Second - 1) /\ a = Second * q + r
    BY <2>1, Units, Division
  <2>3. q >= 0
    BY <2>1, Units, Division
  <2>4. QED BY <2>2, <2>3
<1>2. part \in Nat /\ rest \in 0..(Ticks - 1) /\ r = Ticks * part + rest
  <2>1. r \in Int /\ r >= 0
    BY <1>1, Units
  <2>2. part \in Int /\ rest \in 0..(Ticks - 1) /\ r = Ticks * part + rest
    BY <2>1, Units, Division
  <2>3. part >= 0
    BY <2>1, Units, Division
  <2>4. QED BY <2>2, <2>3
<1> HIDE DEF q, r, part, rest
<1>3. part < Parts
  <2>1. part * Ticks < Parts * Ticks
    BY <1>1, <1>2, Units DEF Second
  <2>2. QED BY <2>1, <1>2, Units, Smaller
<1>4. a = Ticks * (Parts * q + part) + rest
  <2>1. a = Ticks * (Parts * q) + (Ticks * part + rest)
    BY <1>1, <1>2, Units DEF Second
  <2>2. Ticks * (Parts * q) + Ticks * part = Ticks * (Parts * q + part)
    BY <1>1, <1>2, Units
  <2>3. Ticks * (Parts * q) \in Int /\ Ticks * part \in Int
    BY <1>1, <1>2, Units
  <2>4. QED BY <2>1, <2>2, <2>3, <1>2
<1>5. a % Ticks = rest
  <2>1. Parts * q + part \in Int
    BY <1>1, <1>2, Units
  <2>2. QED BY <1>2, <1>4, <2>1, Units, Remainder
<1>6. q * Second + part * Ticks = a - rest
  BY <1>1, <1>2, Units
<1>7. part \in 0..(Parts - 1) /\ q * Second + part * Ticks = FloorPart(a)
  BY <1>2, <1>3, <1>5, <1>6, Units DEF FloorPart
<1>8. QED BY <1>7 DEF q, r, part

(* The digits of the clock are those of the time without its sign. *)
LEMMA ClockDigits ==
    ASSUME NEW t \in Int
    PROVE  LET a == IF t < 0 THEN -t ELSE t
           IN  /\ IsClock(Clock(t))
               /\ Clock(t).hour = a \div (3600 * Second)
               /\ ClockTicks(Clock(t)) = FloorPart(a)
               /\ FloorPart(a) \in Int
<1> DEFINE a == IF t < 0 THEN -t ELSE t
           q == a \div Second
           m == a \div (60 * Second)
           h == a \div (3600 * Second)
           part == (a % Second) \div Ticks
<1>1. a \in Nat
  OBVIOUS
<1> HIDE DEF a
<1>2. 60 * Second \in Nat \ {0} /\ 3600 * Second = 60 * (60 * Second)
  BY Units
<1>3. q - m * 60 \in 0..59
  BY <1>1, Units, Digit
<1>4. m - h * 60 \in 0..59
  <2> DEFINE whole == 60 * Second
  <2> HIDE DEF whole
  <2>1. a \div whole - (a \div (60 * whole)) * 60 \in 0..59
    <3>1. whole \in Nat \ {0}
      BY <1>2 DEF whole
    <3>2. QED BY <1>1, <3>1, Digit
  <2>2. QED BY <1>2, <2>1 DEF whole
<1>5. part \in 0..(Parts - 1) /\ q * Second + part * Ticks = FloorPart(a)
  BY <1>1, PartsOfSecond
<1>6. q \in Int /\ m \in Int /\ h \in Int
  BY <1>1, <1>2, Units
<1> HIDE DEF q, m, h, part
<1>7. Clock(t) = [hour |-> h, minute |-> m - h * 60, second |-> q - m * 60,
                  second_part |-> part, neg |-> t < 0]
  BY DEF Clock, a, q, m, h, part
<1>8. ClockTicks(Clock(t)) = FloorPart(a)
  <2>1. h * 3600 + (m - h * 60) * 60 + (q - m * 60) = q
    BY <1>6
  <2>2. ClockTicks(Clock(t))
          = (h * 3600 + (m - h * 60) * 60 + (q - m * 60)) * Second + part * Ticks
    BY <1>7 DEF ClockTicks
  <2>3. QED BY <1>5, <2>1, <2>2
<1>9. IsClock(Clock(t))
  BY <1>3, <1>4, <1>5, <1>7 DEF IsClock
<1>10. Clock(t).hour = a \div (3600 * Second)
  BY <1>7 DEF h
<1>11. FloorPart(a) \in Int
  BY <1>1, Units DEF FloorPart
<1>12. QED BY <1>8, <1>9, <1>10, <1>11 DEF a

(* set_time_buffer() gives a clock time, and value_time() reads from it the  *)
(* time that was bound, cut towards zero to the precision of the server.     *)
THEOREM TimeRoundTrip ==
    ASSUME NEW t \in Int
    PROVE  /\ IsClock(Clock(t))
           /\ TimeTicks(Clock(t)) = TruncPart(t)
<1> DEFINE a == IF t < 0 THEN -t ELSE t
<1> HIDE DEF a
<1>1. IsClock(Clock(t)) /\ ClockTicks(Clock(t)) = FloorPart(a) /\ FloorPart(a) \in Int
  BY ClockDigits DEF a
<1>2. TimeTicks(Clock(t)) = (IF t < 0 THEN -1 ELSE 1) * FloorPart(a)
  <2>1. Clock(t).neg = (t < 0)
    BY DEF Clock
  <2>2. QED BY <1>1, <2>1, Zenon DEF TimeTicks
<1>3. CASE t < 0
  BY <1>1, <1>2, <1>3 DEF TruncPart, a
<1>4. CASE ~(t < 0)
  BY <1>1, <1>2, <1>4 DEF TruncPart, a
<1>5. QED BY <1>1, <1>3, <1>4

(* A datetime, before 1970 too, is sent as a date of the calendar and a time  *)
(* of its day, from which value_date_time() reads what was bound, cut to the  *)
(* precision of the server.                                                   *)
THEOREM DateTimeRoundTrip ==
    ASSUME NEW v \in Int
    PROVE  LET b == MysqlTime(DateBuffer("MY_DATE_TIME", v), TimeBuffer("MY_DATE_TIME", v))
           IN  /\ IsDate(b) /\ IsClock(b) /\ b.hour \in 0..23 /\ b.neg = FALSE
               /\ DayNumber(b) * Day + ClockTicks(b) = FloorPart(v)
               /\ DateTimeTicks(b) = FloorPart(v)
<1> DEFINE d == v \div Day
           w == v - d * Day
           date == CivilFromDays(d)
           clock == Clock(w)
           b == MysqlTime(DateBuffer("MY_DATE_TIME", v), TimeBuffer("MY_DATE_TIME", v))
<1>1. Day \in Nat \ {0} /\ d \in Int /\ w \in 0..(Day - 1) /\ v = Day * d + w
  <2>1. Day \in Nat \ {0}
    BY Units DEF Day
  <2>2. d \in Int /\ v % Day \in 0..(Day - 1) /\ v = Day * d + (v % Day)
    BY <2>1, Division
  <2>3. w = v % Day
    BY <2>1, <2>2
  <2>4. QED BY <2>1, <2>2, <2>3
<1>2. /\ b.year = date.year /\ b.month = date.month /\ b.day = date.day
      /\ b.hour = clock.hour /\ b.minute = clock.minute /\ b.second = clock.second
      /\ b.second_part = clock.second_part /\ b.neg = clock.neg
  BY DEF MysqlTime, DateBuffer, TimeBuffer
<1> HIDE DEF d, w, b
<1>3. IsDate(date) /\ DaysFromCivil(date.year, date.month, date.day) = d /\ DayNumber(date) = d
  BY <1>1, CivilFromDaysCounts
<1>4. /\ IsClock(clock) /\ clock.hour = w \div (3600 * Second)
      /\ ClockTicks(clock) = FloorPart(w) /\ FloorPart(w) \in Int
  BY <1>1, ClockDigits
<1>5. clock.neg = FALSE
  <2>1. clock.neg = (w < 0)
    BY DEF Clock
  <2>2. (w < 0) = FALSE
    BY <1>1
  <2>3. QED BY <2>1, <2>2, Zenon
<1>6. clock.hour \in 0..23
  <2> DEFINE hour == 3600 * Second
  <2>1. hour \in Nat \ {0} /\ Day = 24 * hour
    BY Units DEF Day
  <2> HIDE DEF hour
  <2>2. w \div hour \in Nat /\ hour * (w \div hour) <= w
    BY <1>1, <2>1, Division
  <2>3. (w \div hour) * hour < 24 * hour
    BY <1>1, <2>1, <2>2
  <2>4. w \div hour < 24
    BY <2>1, <2>2, <2>3, Smaller
  <2>5. QED BY <1>4, <2>2, <2>4 DEF hour
<1> HIDE DEF date, clock
<1>7. IsDate(b) /\ DayNumber(b) = d /\ DaysFromCivil(b.year, b.month, b.day) = d
  BY <1>2, <1>3 DEF IsDate, DayNumber
<1>8. IsClock(b) /\ ClockTicks(b) = FloorPart(w) /\ b.hour \in 0..23 /\ b.neg = FALSE
  BY <1>2, <1>4, <1>5, <1>6 DEF IsClock, ClockTicks
<1>9. d * Day + FloorPart(w) = FloorPart(v)
  <2>1. PICK k \in Nat \ {0} : Day = Ticks * k
    <3>1. Day = Ticks * (86400 * Parts) /\ 86400 * Parts \in Nat \ {0}
      BY Units DEF Day, Second
    <3>2. QED BY <3>1
  <2> DEFINE q == w \div Ticks
             r == w % Ticks
  <2>2. q \in Int /\ r \in 0..(Ticks - 1) /\ w = Ticks * q + r
    BY <1>1, Units, Division
  <2> HIDE DEF q, r
  <2>3. v = Ticks * (k * d + q) + r
    <3>1. v = (Ticks * k) * d + (Ticks * q + r)
      BY <1>1, <2>1, <2>2
    <3>2. (Ticks * k) * d + Ticks * q = Ticks * (k * d + q)
      BY <1>1, <2>2, Units
    <3>3. (Ticks * k) * d \in Int /\ Ticks * q \in Int
      BY <1>1, <2>2, Units
    <3>4. QED BY <3>1, <3>2, <3>3, <2>2
  <2>4. v % Ticks = r
    <3>1. k * d + q \in Int
      BY <1>1, <2>2
    <3>2. QED BY <2>2, <2>3, <3>1, Units, Remainder
  <2>5. QED BY <1>1, <2>2, <2>4 DEF FloorPart, r
<1>10. QED BY <1>7, <1>8, <1>9 DEF DateTimeTicks, b

-----------------------------------------------------------------------------
(* Clocks on the wall *)

(* Dividing into a quotient and a remainder is done in one way.             *)
LEMMA Quotient ==
    ASSUME NEW q \in Int, NEW d \in Nat \ {0}, NEW r \in 0..(d - 1)
    PROVE  (d * q + r) \div d = q
OBVIOUS

LEMMA Offsets ==
    ASSUME NEW zone, NEW t
    PROVE  Offset(zone, t) \in {0, 3600, 7200}
BY DEF Offset

(* The precision of the server divides a second.                            *)
LEMMA Floors ==
    ASSUME NEW t \in Int
    PROVE  /\ FloorPart(t) \in Int /\ FloorPart(t) % Ticks = 0
           /\ FloorPart(t) \div Second = t \div Second
           /\ \A o \in Int : FloorPart(t + o * Second) = FloorPart(t) + o * Second
<1> DEFINE q == t \div Second
           r == t % Second
           k == r \div Ticks
           s == r % Ticks
<1>1. q \in Int /\ r \in 0..(Second - 1) /\ t = Second * q + r
  BY Units, Division
<1>2. k \in Nat /\ s \in 0..(Ticks - 1) /\ r = Ticks * k + s
  <2>1. r \in Int /\ r >= 0
    BY <1>1, Units
  <2>2. k \in Int /\ s \in 0..(Ticks - 1) /\ r = Ticks * k + s /\ k >= 0
    BY <2>1, Units, Division
  <2>3. QED BY <2>2
<1> HIDE DEF q, r, k, s
<1>3. ASSUME NEW o \in Int
      PROVE  /\ FloorPart(t + o * Second) = Second * (q + o) + Ticks * k
             /\ FloorPart(t + o * Second) % Ticks = 0
  <2> DEFINE m == Parts * (q + o) + k
  <2>1. m \in Int
    BY <1>1, <1>2, Units
  <2>2. t + o * Second = Second * (q + o) + (Ticks * k + s)
    <3>1. Second * (q + o) = Second * q + o * Second
      BY <1>1, Units
    <3>2. Second * q \in Int /\ o * Second \in Int /\ Ticks * k \in Int
      BY <1>1, <1>2, Units
    <3>3. QED BY <1>1, <1>2, <3>1, <3>2
  <2>3. Second * (q + o) + Ticks * k = Ticks * m
    <3>1. Second * (q + o) = Ticks * (Parts * (q + o))
      BY <1>1, Units DEF Second
    <3>2. Parts * (q + o) \in Int
      BY <1>1, Units
    <3>3. Ticks * (Parts * (q + o)) + Ticks * k = Ticks * (Parts * (q + o) + k)
      BY <3>2, <1>2, Units
    <3>4. QED BY <3>1, <3>3
  <2>4. Second * (q + o) \in Int /\ Ticks * k \in Int /\ Ticks * m \in Int
    BY <1>1, <1>2, <2>1, Units
  <2>5. t + o * Second = Ticks * m + s
    BY <2>2, <2>3, <2>4, <1>2
  <2> HIDE DEF m
  <2>6. (t + o * Second) % Ticks = s
    BY <2>1, <2>5, <1>2, Units, Remainder
  <2>7. FloorPart(t + o * Second) = Ticks * m
    BY <2>4, <2>5, <2>6, <1>2 DEF FloorPart
  <2>8. (Ticks * m) % Ticks = 0
    <3>1. Ticks * m + 0 = Ticks * m /\ 0 \in 0..(Ticks - 1)
      BY <2>4, Units
    <3>2. QED BY <2>1, <3>1, Units, Remainder
  <2>9. QED BY <2>3, <2>7, <2>8
<1>4. FloorPart(t) = Second * q + Ticks * k /\ FloorPart(t) % Ticks = 0
  <2>1. t + 0 * Second = t /\ q + 0 = q
    BY <1>1, Units
  <2>2. QED BY <2>1, <1>3
<1>5. Ticks * k \in 0..(Second - 1)
  <2>1. Ticks * k \in Int /\ Ticks * k >= 0
    BY <1>2, Units
  <2>2. QED BY <2>1, <1>1, <1>2, Units
<1>6. Second * q \in Int
  BY <1>1, Units
<1>7. FloorPart(t) \in Int
  BY <1>4, <1>5, <1>6
<1>8. FloorPart(t) \div Second = q
  <2> DEFINE u == Ticks * k
  <2>1. u \in 0..(Second - 1) /\ FloorPart(t) = Second * q + u
    BY <1>4, <1>5
  <2> HIDE DEF u
  <2>2. (Second * q + u) \div Second = q
    BY <1>1, <2>1, Units, Quotient
  <2>3. QED BY <2>1, <2>2
<1>9. ASSUME NEW o \in Int PROVE FloorPart(t + o * Second) = FloorPart(t) + o * Second
  <2>1. Second * (q + o) = Second * q + o * Second /\ o * Second \in Int
    BY <1>1, Units
  <2>2. QED BY <2>1, <1>3, <1>4, <1>5, <1>6
<1>10. QED BY <1>4, <1>7, <1>8, <1>9 DEF q

LEMMA Walls ==
    ASSUME NEW zone, NEW t \in Int
    PROVE  /\ Wall(zone, t) \in Int
           /\ FloorPart(Wall(zone, t)) = Wall(zone, FloorPart(t))
           /\ Wall(Normalised(zone), t) = Wall(zone, t)
           /\ Wall("UTC", t) = t
<1> DEFINE o == Offset(zone, t \div Second)
<1>1. o \in Int
  BY Offsets
<1>2. Wall(zone, t) = t + o * Second /\ o * Second \in Int
  BY <1>1, Units DEF Wall
<1>3. Wall(zone, FloorPart(t)) = FloorPart(t) + o * Second
  BY Floors DEF Wall
<1>4. FloorPart(t + o * Second) = FloorPart(t) + o * Second
  BY <1>1, Floors
<1>5. Wall("UTC", t) = t
  BY Units DEF Wall, Offset
<1>6. Wall(Normalised(zone), t) = Wall(zone, t)
  BY DEF Wall, Normalised, Offset
<1>7. QED BY <1>2, <1>3, <1>4, <1>5, <1>6

(* The instants of a time on the wall are all those that show it.           *)
LEMMA AllInstants ==
    ASSUME NEW zone, NEW w \in Int
    PROVE  /\ \A t \in Instants(zone, w) : t \in Int /\ Wall(zone, t) = w
           /\ \A t \in Int : Wall(zone, t) = w => t \in Instants(zone, w)
<1>1. ASSUME NEW t \in Instants(zone, w) PROVE t \in Int /\ Wall(zone, t) = w
  <2>1. PICK h \in 0..2 : t = w - h * 3600 * Second
    BY DEF Instants
  <2>2. h * 3600 * Second \in Int
    BY Units
  <2>3. QED BY <2>1, <2>2 DEF Instants
<1>2. ASSUME NEW t \in Int, Wall(zone, t) = w PROVE t \in Instants(zone, w)
  <2> DEFINE o == Offset(zone, t \div Second)
  <2>1. PICK h \in 0..2 : o = h * 3600
    BY Offsets
  <2>2. w = t + o * Second /\ o * Second \in Int
    BY <1>2, <2>1, Units DEF Wall
  <2>3. t = w - h * 3600 * Second
    BY <2>1, <2>2
  <2>4. QED BY <1>2, <2>3 DEF Instants
<1>3. QED BY <1>1, <1>2

(* What is shown as a time of the server's precision is one.                *)
LEMMA WholeParts ==
    ASSUME NEW zone, NEW t \in Int, NEW u \in Int, Wall(zone, t) = FloorPart(u)
    PROVE  t % Ticks = 0 /\ FloorPart(t) = t
<1> DEFINE o == Offset(zone, t \div Second)
<1>1. o \in Int /\ -o \in Int
  BY Offsets
<1>2. FloorPart(u) \in Int /\ FloorPart(u) % Ticks = 0
  BY Floors
<1>3. FloorPart(u) = t + o * Second /\ o * Second \in Int
  BY <1>1, Units DEF Wall
<1>4. FloorPart(FloorPart(u)) = FloorPart(u)
  BY <1>2 DEF FloorPart
<1>5. t = FloorPart(u) + (-o) * Second
  BY <1>1, <1>2, <1>3, Units
<1>6. FloorPart(t) = FloorPart(FloorPart(u)) + (-o) * Second
  BY <1>1, <1>2, <1>5, Floors
<1>7. FloorPart(t) = t
  BY <1>4, <1>5, <1>6
<1>8. QED BY <1>7, Floors

-----------------------------------------------------------------------------
(* What a row holds *)

(* What R may call the type and the class of a column.                      *)
IsObject(x) ==
  /\ x = [typeof |-> x.typeof, class |-> x.class]
  /\ \/ x.class = "" /\ x.typeof \in {"logical", "integer", "double", "character", "list"}
     \/ x.class = "integer64" /\ x.typeof = "double"
     \/ x.class = "factor" /\ x.typeof = "integer"
     \/ x.class = "blob" /\ x.typeof = "list"
     \/ x.class \in {"Date", "POSIXt", "difftime"} /\ x.typeof \in {"integer", "double"}

(* A value in a column of the server.                                       *)
Proper(v) ==
    /\ col \in {"int", "tinyint"} => v \in Int /\ v < 2^(IntBits-1)
    /\ col = "unsigned" => v \in Int /\ v >= 0
    /\ col = "bigint" => v \in Int
    /\ col \in {"text", "blob"} => v \in Seq(STRING)
    /\ col \in {"date", "datetime"} => IsDate(v) /\ v.year \in Int
    /\ col = "timestamp" => v \in Int /\ FloorPart(v) = v

RowOK(row) ==
    /\ row.val = NA \/ (row.val = <<row.val[1]>> /\ Proper(row.val[1]))
    /\ row.object = NULL \/ IsObject(row.object)
    /\ col = "timestamp" /\ row.put # NA => row.type = "MY_DATE_TIME" /\ row.put[1] \in Int
    /\ Faithful(row)

(* The row that BindNextRow adds for the value x of the column c.           *)
Wire(type, y) ==
    IF y = NA THEN NA
    ELSE IF type \in Temporal
    THEN <<Sent(type, MysqlTime(DateBuffer(type, y[1]), TimeBuffer(type, y[1])))>>
    ELSE y

TypeOf(c) == variable_type_from_object(Coerced(c))

RowOf(c, x, v) ==
    [object |-> [typeof |-> c.typeof, class |-> c.class], put |-> x, type |-> TypeOf(c),
     from |-> conn.timezone, val |-> v]

LEMMA ColumnValues ==
    ASSUME NEW vals, NEW S, vals \in Seq(Seq(S)), \A n \in DOMAIN vals : Len(vals[n]) <= 1,
           NEW n \in 1..Len(vals)
    PROVE  vals[n] = NA \/ (vals[n] = <<vals[n][1]>> /\ vals[n][1] \in S)
<1> DEFINE x == vals[n]
<1>1. x \in Seq(S) /\ Len(x) <= 1
  <2>1. x \in Seq(S)
    BY ElementOfSeq
  <2>2. n \in DOMAIN vals
    BY LenProperties
  <2>3. QED BY <2>1, <2>2
<1>2. Len(x) \in {0, 1}
  <2> DEFINE l == Len(x)
  <2>1. l \in Nat /\ l <= 1
    BY <1>1, LenProperties
  <2> HIDE DEF l
  <2>2. l \in {0, 1}
    BY <2>1
  <2>3. QED BY <2>2 DEF l
<1>3. CASE Len(x) = 0
  BY <1>1, <1>3, EmptySeq DEF NA
<1>4. CASE Len(x) = 1
  <2>1. x[1] \in S
    BY <1>1, <1>4, ElementOfSeq
  <2> DEFINE y == <<x[1]>>
  <2>2. y \in Seq(S) /\ Len(y) = 1 /\ y[1] = x[1]
    BY <2>1
  <2>3. x = y
    BY <1>1, <1>4, <2>2, SeqEqual
  <2>4. QED BY <2>1, <2>3
<1>5. QED BY <1>2, <1>3, <1>4

LEMMA OneTuples == \A x : <<x>> # NA /\ <<x>>[1] = x
BY DEF NA

(* Columns whose values are sent as they are.                               *)
LEMMA PlainStored ==
    ASSUME NEW c, NEW x, x = NA \/ x = <<x[1]>>, TypeOf(c) \notin Temporal,
           SqlData(c, x) = IF Missing(RowOf(c, x, NA)) THEN NA ELSE x,
           NEW v \in Stored(TypeOf(c), Wire(TypeOf(c), SqlData(c, x))),
           col \notin {"timestamp", "time", "datetime"}, TypeOf(c) # "MY_LGL"
    PROVE  v = SqlData(c, x) /\ Faithful(RowOf(c, x, v))
<1> DEFINE y == SqlData(c, x)
           row == RowOf(c, x, v)
<1>1. Wire(TypeOf(c), y) = y
  BY DEF Wire
<1>2. v = y
  BY <1>1 DEF Stored
<1>3. Missing(row) = Missing(RowOf(c, x, NA))
  BY DEF Missing, RowOf
<1>4. row.val = v /\ row.put = x /\ row.type = TypeOf(c)
  BY DEF RowOf
<1>5. ASSUME ~Missing(row) PROVE row.val # NA /\ Denotes(row)
  <2>1. v = x /\ x # NA
    BY <1>2, <1>3, <1>4, <1>5 DEF Missing
  <2>2. Denotes(row)
    BY <2>1, <1>4 DEF Denotes, Temporal
  <2>3. QED BY <2>1, <2>2, <1>4
<1>6. QED BY <1>2, <1>3, <1>4, <1>5 DEF Faithful

LEMMA RIntegersAre ==
    /\ \A n \in RIntegers(IntBits) : n \in Int /\ n < 2^(IntBits-1)
    /\ \A n \in RIntegers(BigBits) : n \in Int
<1> DEFINE int == 2^(IntBits-1)
           big == 2^(BigBits-1)
<1>1. RIntegers(IntBits) = 1 - int .. int - 1 /\ RIntegers(BigBits) = 1 - big .. big - 1
  BY DEF RIntegers
<1>2. int \in Nat /\ big \in Nat
  BY PowerAssumption
<1> HIDE DEF int, big
<1>3. /\ \A n \in RIntegers(IntBits) : n \in Int /\ n < int
      /\ \A n \in RIntegers(BigBits) : n \in Int
  BY <1>1, <1>2
<1>4. QED BY <1>3 DEF int, big

(* Numbers, texts and blobs; factors are texts.                             *)
LEMMA ValuesStored ==
    ASSUME NEW c, NEW x, NEW S, x = NA \/ (x = <<x[1]>> /\ x[1] \in S),
           \/ c.typeof = "integer" /\ c.class = "" /\ col \in {"int", "bigint"}
                /\ S = RIntegers(IntBits)
           \/ c.typeof = "double" /\ c.class = "integer64" /\ col = "bigint"
                /\ S = RIntegers(BigBits)
           \/ c.typeof = "double" /\ c.class = "" /\ col = "double"
           \/ c.typeof = "character" /\ c.class = "" /\ col = "text" /\ S = Seq(STRING)
           \/ c.typeof = "integer" /\ c.class = "factor" /\ col = "text" /\ S = Seq(STRING)
           \/ c.typeof = "list" /\ c.class \in {"", "blob"} /\ col = "blob"
                /\ S = Seq(STRING),
           NEW v \in Stored(TypeOf(c), Wire(TypeOf(c), SqlData(c, x)))
    PROVE  RowOK(RowOf(c, x, v))
<1> DEFINE row == RowOf(c, x, v)
<1>1. /\ TypeOf(c) \notin Temporal /\ TypeOf(c) # "MY_LGL"
      /\ TypeOf(c) = "MY_DBL" <=> c.typeof = "double" /\ c.class = ""
  BY DEF TypeOf, variable_type_from_object, Coerced, Temporal
<1>2. SqlData(c, x) = IF Missing(RowOf(c, x, NA)) THEN NA ELSE x
  BY <1>1 DEF SqlData, Missing, RowOf
<1>3. v = SqlData(c, x) /\ Faithful(row)
  BY <1>1, <1>2, PlainStored
<1>4. v = NA \/ (v = x /\ v = <<v[1]>> /\ v[1] \in S)
  BY <1>2, <1>3
<1>5. row.object.typeof = c.typeof /\ row.object.class = c.class /\ row.val = v
  BY DEF RowOf
<1>6. IsObject(row.object)
  BY <1>5 DEF IsObject, RowOf
<1>7. ASSUME v # NA PROVE Proper(v[1])
  <2>1. v[1] \in S
    BY <1>4, <1>7
  <2>2. QED BY <2>1, RIntegersAre DEF Proper
<1>8. QED BY <1>3, <1>4, <1>5, <1>6, <1>7 DEF RowOK

LEMMA BitsAre == \A u \in {0, 1} : u \in Int /\ u < 2^(IntBits-1)
<1> DEFINE int == 2^(IntBits-1)
<1>1. int \in Nat /\ int > 1
  BY PowerAssumption
<1> HIDE DEF int
<1>2. \A u \in {0, 1} : u \in Int /\ u < int
  BY <1>1
<1>3. QED BY <1>2 DEF int

(* Truth values are bits or small integers.                                 *)
LEMMA LogicalsStored ==
    ASSUME NEW c, NEW x, x = NA \/ (x = <<x[1]>> /\ x[1] \in BOOLEAN),
           c.typeof = "logical", c.class = "", col \in {"tinyint", "bit", "int"},
           NEW v \in Stored(TypeOf(c), Wire(TypeOf(c), SqlData(c, x)))
    PROVE  RowOK(RowOf(c, x, v))
<1> DEFINE row == RowOf(c, x, v)
<1>1. TypeOf(c) = "MY_LGL"
  BY DEF TypeOf, variable_type_from_object, Coerced
<1>2. SqlData(c, x) = x
  BY DEF SqlData
<1>3. Wire(TypeOf(c), SqlData(c, x)) = x
  BY <1>1, <1>2 DEF Wire, Temporal
<1>4. v = IF x = NA \/ col = "bit" THEN x ELSE <<IF x[1] THEN 1 ELSE 0>>
  <2>1. v \in Stored("MY_LGL", x)
    BY <1>1, <1>3
  <2>2. CASE x = NA
    <3>1. Stored("MY_LGL", x) = {x}
      BY <2>2 DEF Stored
    <3>2. QED BY <2>1, <2>2, <3>1
  <2>3. CASE x # NA /\ col = "bit"
    <3>1. Stored("MY_LGL", x) = {x}
      BY <2>3 DEF Stored
    <3>2. QED BY <2>1, <2>3, <3>1
  <2>4. CASE x # NA /\ col \in {"tinyint", "int"}
    <3>1. Stored("MY_LGL", x) = {<<IF x[1] THEN 1 ELSE 0>>}
      BY <2>4 DEF Stored
    <3>2. QED BY <2>1, <2>4, <3>1
  <2>5. QED BY <2>2, <2>3, <2>4
<1>5. /\ row.object.typeof = c.typeof /\ row.object.class = c.class /\ row.val = v
      /\ row.put = x /\ row.type = "MY_LGL"
  BY <1>1 DEF RowOf
<1>6. IsObject(row.object)
  BY <1>5 DEF IsObject, RowOf
<1>7. CASE x = NA
  BY <1>4, <1>5, <1>6, <1>7 DEF RowOK, Faithful, Missing
<1>8. CASE x # NA
  <2>1. v = <<v[1]>> /\ v # NA
    BY <1>4, <1>8, OneTuples
  <2>2. v[1] = IF col = "bit" THEN x[1] ELSE IF x[1] THEN 1 ELSE 0
    BY <1>4, <1>8
  <2>3. Denotes(row)
    BY <1>5, <2>2 DEF Denotes
  <2>4. Proper(v[1])
    <3>1. col # "bit" => v[1] \in {0, 1}
      BY <2>2
    <3>2. QED BY <3>1, BitsAre DEF Proper
  <2>5. ~Missing(row)
    BY <1>5, <1>8 DEF Missing
  <2>6. QED BY <1>5, <1>6, <2>1, <2>3, <2>4, <2>5 DEF RowOK, Faithful
<1>9. QED BY <1>7, <1>8

-----------------------------------------------------------------------------
(* Times in rows *)

(* Nothing in the buffer of the time is midnight. *)
LEMMA MidnightIs == ClockTicks(NoClock) = 0 /\ NoClock.neg = FALSE
<1>1. ClockTicks(Clock(0)) = FloorPart(0)
  BY ClockDigits
<1>2. FloorPart(0) = 0
  <2>1. FloorPart(0) \div Second = 0 \div Second /\ FloorPart(0) \in Int
    BY Floors
  <2>2. 0 % Ticks = 0
    BY Units
  <2>3. QED BY <2>2 DEF FloorPart
<1>3. NoClock.neg = (0 < 0)
  BY DEF NoClock, Clock
<1>4. (0 < 0) = FALSE
  OBVIOUS
<1>5. QED BY <1>1, <1>2, <1>3, <1>4 DEF NoClock

LEMMA CivilYear ==
    ASSUME NEW n \in Int
    PROVE  CivilFromDays(n).year \in Int
<1> DEFINE m == n + 719468
           era == EraOf(m)
           doe == m - era * 146097
<1>1. era = m \div 146097
  BY EraOfDay
<1>2. doe \in Int /\ 0 <= doe /\ doe <= 146096 /\ era \in Int
  BY <1>1
<1> HIDE DEF m, era, doe
<1>3. YearOf(doe) \in Int
  BY <1>2, DayOfEra
<1>4. CivilFromDays(n) = CivilOfEra(era, doe)
  BY DEF CivilFromDays, m, era, doe
<1>5. QED BY <1>2, <1>3, <1>4 DEF CivilOfEra

LEMMA DayUnits == Day \in Nat \ {0}
BY Units DEF Day

LEMMA SecondsOfDay ==
    ASSUME NEW b, b.hour \in 0..23, b.minute \in 0..59, b.second \in 0..59
    PROVE  LET s == b.hour * 3600 + b.minute * 60 + b.second
           IN  s \in Int /\ 0 <= s /\ s <= 86399
<1> DEFINE h == b.hour
           m == b.minute
           sec == b.second
           s == h * 3600 + m * 60 + sec
<1>1. h \in 0..23 /\ m \in 0..59 /\ sec \in 0..59
  OBVIOUS
<1> HIDE DEF h, m, sec
<1>2. s \in Int /\ 0 <= s /\ s <= 86399
  BY <1>1
<1>3. QED BY <1>2 DEF h, m, sec

(* The clock of a day says what is left of a time by days.                  *)
LEMMA TimeOfDay ==
    ASSUME NEW b, IsDate(b), IsClock(b), b.year \in Int, b.hour \in 0..23, NEW u \in Int,
           DayNumber(b) * Day + ClockTicks(b) = u
    PROVE  ClockTicks(b) = u % Day
<1> DEFINE n == DayNumber(b)
           s == b.hour * 3600 + b.minute * 60 + b.second
           part == b.second_part
           r == ClockTicks(b)
<1>1. n \in Int
  <2>1. b.month \in 1..12 /\ b.day \in Int
    <3>1. MonthLength(b.year, b.month) \in Int
      BY DEF MonthLength
    <3>2. QED BY <3>1 DEF IsDate
  <2>2. DaysBefore[b.month] \in Int
    BY <2>1 DEF DaysBefore
  <2>3. QED BY <2>1, <2>2 DEF DayNumber
<1>2. s \in Int /\ 0 <= s /\ s <= 86399 /\ part \in 0..(Parts - 1)
  <2>1. b.minute \in 0..59 /\ b.second \in 0..59 /\ part \in 0..(Parts - 1)
    BY DEF IsClock
  <2>2. s \in Int /\ 0 <= s /\ s <= 86399
    <3> HIDE DEF s
    <3>1. s = b.hour * 3600 + b.minute * 60 + b.second
      BY DEF s
    <3>2. QED BY <2>1, <3>1, SecondsOfDay
  <2> HIDE DEF s
  <2>3. QED BY <2>1, <2>2
<1>3. r = s * Second + part * Ticks
  BY DEF ClockTicks
<1> HIDE DEF n, s, part, r
<1>4. part * Ticks \in 0..(Second - 1)
  <2>1. part * Ticks \in Int /\ part * Ticks >= 0
    BY <1>2, Units
  <2>2. part * Ticks <= (Parts - 1) * Ticks
    BY <1>2, Units
  <2>3. (Parts - 1) * Ticks = Second - Ticks
    BY Units DEF Second
  <2>4. QED BY <2>1, <2>2, <2>3, Units
<1>5. r \in 0..(Day - 1)
  <2>1. s * Second \in Int /\ s * Second >= 0
    BY <1>2, Units
  <2>2. s * Second <= 86399 * Second
    BY <1>2, Units
  <2>3. Day = 86400 * Second
    BY DEF Day
  <2>4. QED BY <1>3, <1>4, <2>1, <2>2, <2>3, Units
<1>6. u = Day * n + r
  <2>1. u = n * Day + r
    BY DEF n, r
  <2>2. n * Day = Day * n
    BY <1>1, DayUnits
  <2>3. QED BY <2>1, <2>2
<1>7. (Day * n + r) % Day = r
  BY <1>1, <1>5, DayUnits, Remainder
<1>8. QED BY <1>6, <1>7 DEF r

LEMMA DatesStored ==
    ASSUME NEW c, NEW x, x = NA \/ (x = <<x[1]>> /\ x[1] \in Int),
           c.typeof \in {"integer", "double"}, c.class = "Date", col \in {"date", "datetime"},
           NEW v \in Stored(TypeOf(c), Wire(TypeOf(c), SqlData(c, x)))
    PROVE  RowOK(RowOf(c, x, v))
<1> DEFINE row == RowOf(c, x, v)
           date == CivilFromDays(x[1] \div 2)
           b == MysqlTime(date, NoClock)
<1>1. TypeOf(c) = "MY_DATE"
  BY DEF TypeOf, variable_type_from_object, Coerced
<1>2. SqlData(c, x) = x
  BY DEF SqlData
<1>3. v = IF x = NA THEN NA ELSE <<Sent("MY_DATE", MysqlTime(date, TimeBuffer("MY_DATE", x[1])))>>
  <2>1. v \in Stored("MY_DATE", Wire("MY_DATE", x))
    BY <1>1, <1>2
  <2>2. CASE x = NA
    BY <2>1, <2>2 DEF Stored, Wire
  <2>3. CASE x # NA
    <3> DEFINE w == Sent("MY_DATE", MysqlTime(date, TimeBuffer("MY_DATE", x[1])))
    <3>1. Wire("MY_DATE", x) = <<w>>
      BY <2>3 DEF Wire, Temporal, DateBuffer
    <3> HIDE DEF w
    <3>2. Stored("MY_DATE", <<w>>) = {<<w>>}
      BY OneTuples DEF Stored
    <3>3. v = <<w>>
      BY <2>1, <3>1, <3>2
    <3>4. QED BY <2>3, <3>3 DEF w
  <2>4. QED BY <2>2, <2>3
<1>4. /\ row.object.typeof = c.typeof /\ row.object.class = c.class /\ row.val = v
      /\ row.put = x /\ row.type = "MY_DATE"
  BY <1>1 DEF RowOf
<1>5. IsObject(row.object)
  BY <1>4 DEF IsObject, RowOf
<1>6. CASE x = NA
  BY <1>3, <1>4, <1>5, <1>6 DEF RowOK, Faithful, Missing
<1>7. CASE x # NA
  <2>1. x[1] \in Int /\ x[1] \div 2 \in Int
    BY <1>7
  <2>2. Sent("MY_DATE", MysqlTime(date, TimeBuffer("MY_DATE", x[1]))) = b
    BY DEF Sent, MysqlTime
  <2>3. v = <<b>> /\ v # NA /\ v[1] = b
    BY <1>3, <1>7, <2>2, OneTuples
  <2>4. IsDate(date) /\ DayNumber(date) = x[1] \div 2
    BY <2>1, CivilFromDaysCounts
  <2>5. date.year \in Int
    BY <2>1, CivilYear
  <2>6. b.year = date.year /\ b.month = date.month /\ b.day = date.day
    BY DEF MysqlTime
  <2>7. IsMidnight(b)
    <3>1. b.hour = NoClock.hour /\ b.minute = NoClock.minute /\ b.second = NoClock.second
          /\ b.second_part = NoClock.second_part /\ b.neg = NoClock.neg
      BY DEF MysqlTime
    <3>2. ClockTicks(NoClock) = 0 /\ NoClock.neg = FALSE
      BY MidnightIs
    <3> HIDE DEF b
    <3>3. QED BY <3>1, <3>2 DEF IsMidnight, ClockTicks
  <2> HIDE DEF date, b
  <2>8. IsDate(b) /\ DayNumber(b) = x[1] \div 2 /\ b.year \in Int
    BY <2>4, <2>5, <2>6 DEF IsDate, DayNumber
  <2>9. Denotes(row)
    BY <1>4, <2>3, <2>7, <2>8 DEF Denotes
  <2>10. Proper(v[1])
    BY <2>3, <2>8 DEF Proper
  <2>11. ~Missing(row)
    BY <1>4, <1>7 DEF Missing
  <2>12. QED BY <1>4, <1>5, <2>3, <2>9, <2>10, <2>11 DEF RowOK, Faithful
<1>8. QED BY <1>6, <1>7

LEMMA DurationsStored ==
    ASSUME NEW c, NEW x, x = NA \/ (x = <<x[1]>> /\ x[1] \in Int),
           c.typeof \in {"integer", "double"}, c.class = "difftime", col = "time",
           NEW v \in Stored(TypeOf(c), Wire(TypeOf(c), SqlData(c, x)))
    PROVE  RowOK(RowOf(c, x, v))
<1> DEFINE row == RowOf(c, x, v)
           clock == Clock(x[1])
           w == Sent("MY_TIME", MysqlTime(NoDate, clock))
           b == MysqlTime(NoDate, w)
<1>1. TypeOf(c) = "MY_TIME"
  BY DEF TypeOf, variable_type_from_object, Coerced
<1>2. SqlData(c, x) = x
  BY DEF SqlData
<1>3. v = IF x = NA THEN NA ELSE <<b>>
  <2>1. v \in Stored("MY_TIME", Wire("MY_TIME", x))
    BY <1>1, <1>2
  <2>2. CASE x = NA
    BY <2>1, <2>2 DEF Stored, Wire
  <2>3. CASE x # NA
    <3>1. Wire("MY_TIME", x) = <<w>>
      BY <2>3 DEF Wire, Temporal, DateBuffer, TimeBuffer
    <3> HIDE DEF w
    <3>2. Stored("MY_TIME", <<w>>) = {<<MysqlTime(NoDate, w)>>}
      BY OneTuples DEF Stored
    <3>3. QED BY <2>1, <2>3, <3>1, <3>2
  <2>4. QED BY <2>2, <2>3
<1>4. /\ row.object.typeof = c.typeof /\ row.object.class = c.class /\ row.val = v
      /\ row.put = x /\ row.type = "MY_TIME"
  BY <1>1 DEF RowOf
<1>5. IsObject(row.object)
  BY <1>4 DEF IsObject, RowOf
<1>6. CASE x = NA
  BY <1>3, <1>4, <1>5, <1>6 DEF RowOK, Faithful, Missing
<1>7. CASE x # NA
  <2>1. x[1] \in Int
    BY <1>7
  <2>2. IsClock(clock) /\ TimeTicks(clock) = TruncPart(x[1]) /\ clock.hour \in Int
    <3> DEFINE t == x[1]
               a == IF t < 0 THEN -t ELSE t
    <3>1. t \in Int
      BY <2>1
    <3> HIDE DEF t
    <3>2. a \in Int /\ Clock(t).hour = a \div (3600 * Second)
      BY <3>1, ClockDigits
    <3>3. 3600 * Second \in Nat \ {0}
      BY Units
    <3> HIDE DEF a
    <3>4. Clock(t).hour \in Int
      BY <3>2, <3>3, Division
    <3>5. IsClock(Clock(t)) /\ TimeTicks(Clock(t)) = TruncPart(t)
      BY <3>1, TimeRoundTrip
    <3>6. QED BY <3>4, <3>5 DEF t
  <2> HIDE DEF clock
  <2>3. /\ b.hour = clock.hour /\ b.minute = clock.minute /\ b.second = clock.second
        /\ b.second_part = clock.second_part /\ b.neg = clock.neg /\ b.day = 0
    BY <2>2 DEF Sent, MysqlTime, NoDate
  <2>4. v = <<b>> /\ v # NA /\ v[1] = b
    BY <1>3, <1>7, OneTuples
  <2> HIDE DEF b
  <2>5. IsClock(b) /\ TimeTicks(b) = TruncPart(x[1])
    BY <2>2, <2>3 DEF IsClock, TimeTicks, ClockTicks
  <2>6. Denotes(row)
    BY <1>4, <2>3, <2>4, <2>5 DEF Denotes
  <2>7. Proper(v[1])
    BY DEF Proper
  <2>8. ~Missing(row)
    BY <1>4, <1>7 DEF Missing
  <2>9. QED BY <1>4, <1>5, <2>4, <2>6, <2>7, <2>8 DEF RowOK, Faithful
<1>8. QED BY <1>6, <1>7

(* What is bound for a time, in a zone that the session shares: the time on  *)
(* the wall of the connection's zone.                                        *)
LEMMA DatetimesStored ==
    ASSUME NEW c, NEW x, x = NA \/ (x = <<x[1]>> /\ x[1] \in Int),
           \/ c.typeof = "double"
           \/ c.typeof = "integer" /\ conn.timezone # "UTC",
           c.class = "POSIXt", col \in {"datetime", "timestamp", "time"},
           conn.timezone = Normalised(session.time_zone),
           NEW v \in Stored(TypeOf(c), Wire(TypeOf(c), SqlData(c, x)))
    PROVE  RowOK(RowOf(c, x, v))
<1> DEFINE row == RowOf(c, x, v)
           w == Wall(conn.timezone, x[1])
           b == MysqlTime(DateBuffer("MY_DATE_TIME", w), TimeBuffer("MY_DATE_TIME", w))
<1>1. TypeOf(c) = "MY_DATE_TIME"
  BY DEF TypeOf, variable_type_from_object, Coerced
<1>2. /\ row.object.typeof = c.typeof /\ row.object.class = c.class /\ row.val = v
      /\ row.put = x /\ row.type = "MY_DATE_TIME" /\ row.from = conn.timezone
  BY <1>1 DEF RowOf
<1>3. IsObject(row.object)
  BY <1>2 DEF IsObject, RowOf
<1>4. CASE x = NA
  <2>1. SqlData(c, x) = NA
    BY <1>4 DEF SqlData
  <2>2. v = NA
    BY <1>1, <2>1 DEF Stored, Wire
  <2>3. QED BY <1>2, <1>3, <1>4, <2>2 DEF RowOK, Faithful, Missing
<1>5. CASE x # NA
  <2>1. x[1] \in Int
    BY <1>5
  <2>2. w \in Int /\ FloorPart(w) \in Int
    BY <2>1, Walls, Floors
  <2>3. SqlData(c, x) = <<w>>
    <3>1. ToLocal(x[1]) = w
      BY <2>1, Walls DEF ToLocal
    <3>2. QED BY <1>5, <3>1 DEF SqlData
  <2>4. Wire("MY_DATE_TIME", <<w>>) = <<b>>
    BY OneTuples DEF Wire, Temporal, Sent
  <2>5. v \in Stored("MY_DATE_TIME", <<b>>)
    BY <1>1, <2>3, <2>4
  <2>6. /\ IsDate(b) /\ IsClock(b) /\ b.hour \in 0..23 /\ b.neg = FALSE
        /\ DayNumber(b) * Day + ClockTicks(b) = FloorPart(w)
        /\ DateTimeTicks(b) = FloorPart(w)
    BY <2>2, DateTimeRoundTrip
  <2>7. b.year \in Int
    <3>1. b.year = CivilFromDays(w \div Day).year
      BY DEF MysqlTime, DateBuffer
    <3>2. w \div Day \in Int
      BY <2>2, DayUnits, Division
    <3>3. QED BY <3>1, <3>2, CivilYear
  <2> HIDE DEF b, w
  <2>8. ~Missing(row)
    BY <1>2, <1>5 DEF Missing
  <2>9. CASE col = "datetime"
    <3>1. v = <<b>> /\ v # NA /\ v[1] = b
      BY <2>5, <2>9, OneTuples DEF Stored
    <3>2. Denotes(row)
      BY <1>2, <2>6, <2>9, <3>1, Zenon DEF Denotes, w
    <3>3. Proper(v[1])
      BY <2>6, <2>7, <2>9, <3>1 DEF Proper
    <3>4. QED BY <1>2, <1>3, <2>8, <2>9, <3>1, <3>2, <3>3 DEF RowOK, Faithful
  <2>10. CASE col = "timestamp"
    <3>1. PICK t \in Instants(session.time_zone, FloorPart(w)) : v = <<t>>
      BY <2>5, <2>6, <2>10, OneTuples DEF Stored
    <3>2. t \in Int /\ Wall(session.time_zone, t) = FloorPart(w)
      BY <2>2, <3>1, AllInstants
    <3>3. Wall(conn.timezone, t) = FloorPart(w)
      BY <3>2, Walls
    <3>4. v # NA /\ v[1] = t /\ v = <<v[1]>>
      BY <3>1, OneTuples
    <3>5. FloorPart(t) = t
      BY <2>2, <3>2, WholeParts
    <3>6. Denotes(row)
      BY <1>2, <2>10, <3>3, <3>4 DEF Denotes, w
    <3>7. Proper(v[1])
      BY <2>10, <3>2, <3>4, <3>5 DEF Proper
    <3>8. QED BY <1>2, <1>3, <2>1, <2>8, <3>4, <3>6, <3>7 DEF RowOK, Faithful
  <2>11. CASE col = "time"
    <3> DEFINE d == MysqlTime(NoDate, b)
    <3>1. v = <<d>> /\ v # NA /\ v[1] = d
      BY <2>5, <2>11, OneTuples DEF Stored
    <3>2. /\ d.hour = b.hour /\ d.minute = b.minute /\ d.second = b.second
          /\ d.second_part = b.second_part /\ d.neg = b.neg
      BY DEF MysqlTime
    <3>3. ClockTicks(b) = FloorPart(w) % Day
      BY <2>2, <2>6, <2>7, TimeOfDay
    <3> HIDE DEF d
    <3>4. ClockTicks(d) = FloorPart(w) % Day /\ d.neg = FALSE
      BY <2>6, <3>2, <3>3 DEF ClockTicks
    <3>5. Denotes(row)
      BY <1>2, <2>11, <3>1, <3>4 DEF Denotes, w
    <3>6. Proper(v[1])
      BY <2>11 DEF Proper
    <3>7. QED BY <1>2, <1>3, <2>8, <2>11, <3>1, <3>5, <3>6 DEF RowOK, Faithful
  <2>12. QED BY <2>9, <2>10, <2>11
<1>6. QED BY <1>4, <1>5

(* Times that R keeps as integers, in UTC.                                  *)
LEMMA NumbersStored ==
    ASSUME NEW c, NEW x, x = NA \/ (x = <<x[1]>> /\ x[1] \in Int),
           c.typeof = "integer", conn.timezone = "UTC", c.class = "POSIXt", col = "datetime",
           NEW v \in Stored(TypeOf(c), Wire(TypeOf(c), SqlData(c, x)))
    PROVE  RowOK(RowOf(c, x, v))
<1> DEFINE row == RowOf(c, x, v)
           b == MysqlTime(Spelt, NoClock)
<1>1. TypeOf(c) = "MY_INT32"
  BY DEF TypeOf, variable_type_from_object, Coerced
<1>2. /\ row.object.typeof = c.typeof /\ row.object.class = c.class /\ row.val = v
      /\ row.type = "MY_INT32"
  BY <1>1 DEF RowOf
<1>3. IsObject(row.object)
  BY <1>2 DEF IsObject, RowOf
<1>4. v = NA \/ v = <<b>>
  <2>1. v \in Stored("MY_INT32", Wire("MY_INT32", SqlData(c, x)))
    BY <1>1
  <2>2. QED BY <2>1 DEF Stored
<1>5. Proper(b)
  <2>1. b.year = 1971 /\ b.month = 1 /\ b.day = 1
    BY DEF MysqlTime, Spelt
  <2> HIDE DEF b
  <2>2. IsDate(b)
    BY <2>1 DEF IsDate, MonthLength
  <2>3. QED BY <2>1, <2>2 DEF Proper
<1>6. Faithful(row)
  BY <1>2 DEF Faithful, BoundAsNumber
<1>7. v = NA \/ (v = <<v[1]>> /\ Proper(v[1]))
  BY <1>4, <1>5, OneTuples
<1>8. QED BY <1>2, <1>3, <1>6, <1>7 DEF RowOK

(* Every row of a column, when its turn comes.                              *)
Held(x, S) == x = NA \/ (x = <<x[1]>> /\ x[1] \in S)

LEMMA ColumnHolds ==
    ASSUME NEW c, NEW typeof, NEW class, NEW S, NEW into, ColumnOf(c, typeof, class, S, into),
           NEW n \in 1..Len(c.vals)
    PROVE  c.typeof = typeof /\ c.class = class /\ c.into \subseteq into /\ Held(c.vals[n], S)
<1>1. c.vals \in Seq(Seq(S)) /\ \A k \in DOMAIN c.vals : Len(c.vals[k]) <= 1
  BY DEF ColumnOf
<1> DEFINE vals == c.vals
<1>2. vals[n] = NA \/ (vals[n] = <<vals[n][1]>> /\ vals[n][1] \in S)
  <2>1. vals \in Seq(Seq(S)) /\ \A k \in DOMAIN vals : Len(vals[k]) <= 1
    BY <1>1
  <2>2. n \in 1..Len(vals)
    OBVIOUS
  <2> HIDE DEF vals
  <2>3. QED BY <2>1, <2>2, ColumnValues
<1>3. QED BY <1>2 DEF ColumnOf, Held

LEMMA BoundRowOK ==
    ASSUME NEW c \in Columns, col \in c.into, NEW n \in 1..Len(c.vals),
           conn.timezone = Normalised(session.time_zone),
           NEW v \in Stored(TypeOf(c), Wire(TypeOf(c), SqlData(c, c.vals[n])))
    PROVE  RowOK(RowOf(c, c.vals[n], v))
<1> DEFINE x == c.vals[n]
<1> HIDE DEF x
<1>1. v \in Stored(TypeOf(c), Wire(TypeOf(c), SqlData(c, x)))
  BY DEF x
<1>2. RowOK(RowOf(c, x, v))
  <2>1. CASE ColumnOf(c, "logical", "", BOOLEAN, {"tinyint", "bit", "int"})
    <3>1. c.typeof = "logical" /\ c.class = "" /\ c.into \subseteq {"tinyint", "bit", "int"} /\ Held(x, BOOLEAN)
      BY <2>1, ColumnHolds DEF x
    <3>2. QED BY <1>1, <3>1, LogicalsStored DEF Held
  <2>2. CASE ColumnOf(c, "integer", "", RIntegers(IntBits), {"int", "bigint"})
    <3>1. c.typeof = "integer" /\ c.class = "" /\ c.into \subseteq {"int", "bigint"} /\ Held(x, RIntegers(IntBits))
      BY <2>2, ColumnHolds DEF x
    <3>2. QED BY <1>1, <3>1, ValuesStored DEF Held
  <2>3. CASE ColumnOf(c, "double", "integer64", RIntegers(BigBits), {"bigint"})
    <3>1. c.typeof = "double" /\ c.class = "integer64" /\ c.into \subseteq {"bigint"} /\ Held(x, RIntegers(BigBits))
      BY <2>3, ColumnHolds DEF x
    <3>2. QED BY <1>1, <3>1, ValuesStored DEF Held
  <2>4. CASE ColumnOf(c, "double", "", STRING, {"double"})
    <3>1. c.typeof = "double" /\ c.class = "" /\ c.into \subseteq {"double"} /\ Held(x, STRING)
      BY <2>4, ColumnHolds DEF x
    <3>2. QED BY <1>1, <3>1, ValuesStored DEF Held
  <2>5. CASE ColumnOf(c, "character", "", Seq(STRING), {"text"})
    <3>1. c.typeof = "character" /\ c.class = "" /\ c.into \subseteq {"text"} /\ Held(x, Seq(STRING))
      BY <2>5, ColumnHolds DEF x
    <3>2. QED BY <1>1, <3>1, ValuesStored DEF Held
  <2>6. CASE ColumnOf(c, "integer", "factor", Seq(STRING), {"text"})
    <3>1. c.typeof = "integer" /\ c.class = "factor" /\ c.into \subseteq {"text"} /\ Held(x, Seq(STRING))
      BY <2>6, ColumnHolds DEF x
    <3>2. QED BY <1>1, <3>1, ValuesStored DEF Held
  <2>7. ASSUME NEW class \in {"", "blob"}, ColumnOf(c, "list", class, Seq(STRING), {"blob"})
        PROVE  RowOK(RowOf(c, x, v))
    <3>1. c.typeof = "list" /\ c.class = class /\ c.into \subseteq {"blob"} /\ Held(x, Seq(STRING))
      BY <2>7, ColumnHolds DEF x
    <3>2. QED BY <1>1, <3>1, ValuesStored DEF Held
  <2>8. ASSUME NEW typeof \in {"integer", "double"}, ColumnOf(c, typeof, "Date", Int, {"date", "datetime"})
        PROVE  RowOK(RowOf(c, x, v))
    <3>1. c.typeof = typeof /\ c.class = "Date" /\ c.into \subseteq {"date", "datetime"} /\ Held(x, Int)
      BY <2>8, ColumnHolds DEF x
    <3>2. QED BY <1>1, <3>1, DatesStored DEF Held
  <2>9. ASSUME NEW typeof \in {"integer", "double"}, ColumnOf(c, typeof, "difftime", Int, {"time"})
        PROVE  RowOK(RowOf(c, x, v))
    <3>1. c.typeof = typeof /\ c.class = "difftime" /\ c.into \subseteq {"time"} /\ Held(x, Int)
      BY <2>9, ColumnHolds DEF x
    <3>2. QED BY <1>1, <3>1, DurationsStored DEF Held
  <2>10. CASE ColumnOf(c, "double", "POSIXt", Int, {"datetime", "timestamp", "time"})
    <3>1. c.typeof = "double" /\ c.class = "POSIXt" /\ c.into \subseteq {"datetime", "timestamp", "time"} /\ Held(x, Int)
      BY <2>10, ColumnHolds DEF x
    <3>2. QED BY <1>1, <3>1, DatetimesStored DEF Held
  <2>11. CASE ColumnOf(c, "integer", "POSIXt", Int, {"datetime"}) /\ conn.timezone = "UTC"
    <3>1. c.typeof = "integer" /\ c.class = "POSIXt" /\ c.into \subseteq {"datetime"} /\ Held(x, Int)
      BY <2>11, ColumnHolds DEF x
    <3>2. QED BY <1>1, <3>1, NumbersStored, <2>11 DEF Held
  <2>12. CASE ColumnOf(c, "integer", "POSIXt", Int, {"datetime"}) /\ conn.timezone # "UTC"
    <3>1. c.typeof = "integer" /\ c.class = "POSIXt" /\ c.into \subseteq {"datetime"} /\ Held(x, Int)
      BY <2>12, ColumnHolds DEF x
    <3>2. QED BY <1>1, <3>1, DatetimesStored, <2>12 DEF Held
  <2>13. QED
    BY <2>1, <2>2, <2>3, <2>4, <2>5, <2>6, <2>7, <2>8, <2>9, <2>10, <2>11, <2>12,
       ColumnsAssumption
<1>3. QED BY <1>2 DEF x

-----------------------------------------------------------------------------
(* Reading *)

ColumnTypes == ServerColumns \cup {"unsigned"}

LEMMA IntegersReadAt ==
    ASSUME NEW h \in Nat, h > 1, NEW m, NEW a \in Int, NEW s, NEW x,
           s = IF a >= h THEN a - m ELSE a,
           x = IF s = -h THEN NA ELSE <<s>>
    PROVE  /\ a < h /\ a # -h => x = <<a>>
           /\ 0 <= a /\ ~(a >= h) => x = <<a>>
<1>1. ASSUME a < h, a # -h PROVE x = <<a>>
  <2>1. s = a
    BY <1>1
  <2>2. QED BY <1>1, <2>1
<1>2. 0 <= a /\ ~(a >= h) => a < h /\ a # -h
  OBVIOUS
<1>3. QED BY <1>1, <1>2

LEMMA IntegersRead ==
    ASSUME NEW a, Proper(a), col \in {"tinyint", "int", "unsigned"},
           NEW x, x = RInteger(Signed(a, IntBits), IntBits)
    PROVE  Unrepresentable(a) \/ x = <<a>>
<1> DEFINE h == 2^(IntBits-1)
           s == Signed(a, IntBits)
           m == 2^IntBits
<1>1. h \in Nat /\ h > 1
  BY PowerAssumption, Zenon
<1>2. s = IF a >= h THEN a - m ELSE a
  BY Zenon DEF Signed
<1>3. x = IF s = -h THEN NA ELSE <<s>>
  BY Zenon DEF RInteger
<1>4. a \in Int
  BY DEF Proper
<1>5. \/ a < h /\ (Unrepresentable(a) <=> a = -h)
      \/ (Unrepresentable(a) <=> a >= h) /\ 0 <= a
  BY DEF Proper, Unrepresentable
<1> HIDE DEF h, s, m
<1>6. /\ a < h /\ a # -h => x = <<a>>
      /\ 0 <= a /\ ~(a >= h) => x = <<a>>
  BY <1>1, <1>2, <1>3, <1>4, IntegersReadAt
<1>7. QED BY <1>5, <1>6, Zenon

LEMMA BigintsRead ==
    ASSUME NEW a, Proper(a), col = "bigint",
           NEW x \in ConvertBigint(RInteger(a, BigBits))
    PROVE  Unrepresentable(a) \/ x = <<a>>
<1> DEFINE h == 2^(IntBits-1)
           big == 2^(BigBits-1)
           e == 2^Exact
<1>1. h \in Nat /\ big \in Nat /\ e \in Nat /\ a \in Int
  BY PowerAssumption DEF Proper
<1>2. RInteger(a, BigBits) = IF a = -big THEN NA ELSE <<a>>
  BY DEF RInteger
<1>3. Unrepresentable(a) <=>
        \/ a = -big
        \/ args.bigint = "integer" /\ a \notin (1 - h)..(h - 1)
        \/ args.bigint = "numeric" /\ a \notin (-e)..e
  BY DEF Unrepresentable
<1>4. ASSUME a # -big PROVE Unrepresentable(a) \/ x = <<a>>
  <2>1. x \in ConvertBigint(<<a>>)
    BY <1>2, <1>4
  <2>2. CASE args.bigint = "integer"
    <3>1. x = IF -h < a /\ a < h THEN <<a>> ELSE NA
      BY <2>1, <2>2, OneTuples DEF ConvertBigint
    <3> HIDE DEF h, big, e
    <3>2. (-h < a /\ a < h) \/ a \notin (1 - h)..(h - 1)
      BY <1>1
    <3>3. QED BY <1>3, <2>2, <3>1, <3>2
  <2>3. CASE args.bigint = "numeric"
    <3>1. PICK d \in Doubles(a) : x = <<d>>
      BY <2>1, <2>3, OneTuples DEF ConvertBigint
    <3>2. a \in (-e)..e => d = a
      BY <3>1 DEF Doubles
    <3> HIDE DEF h, big, e
    <3>3. QED BY <1>3, <2>3, <3>1, <3>2
  <2>4. CASE args.bigint \notin {"integer", "numeric"}
    BY <2>1, <2>4, OneTuples DEF ConvertBigint
  <2>5. QED BY <2>2, <2>3, <2>4
<1> HIDE DEF big
<1>5. QED BY <1>3, <1>4

(* The time on the wall that a session gives of an instant.                 *)
LEMMA WallReceived ==
    ASSUME NEW w \in Int
    PROVE  DateTimeTicks(MysqlTime(CivilFromDays(w \div Day), Clock(w - (w \div Day) * Day)))
             = FloorPart(w)
BY DateTimeRoundTrip DEF DateBuffer, TimeBuffer

(* Dates count the days of the calendar.                                    *)
LEMMA DatesRead ==
    ASSUME NEW a, IsDate(a), a.year \in Int
    PROVE  DaysFromCivil(a.year, a.month, a.day) = DayNumber(a) /\ DayNumber(a) \in Int
<1> DEFINE d == [year |-> a.year, month |-> a.month, day |-> a.day]
<1>1. a.month \in 1..12 /\ a.day \in Int
  <2>1. MonthLength(a.year, a.month) \in Int
    BY DEF MonthLength
  <2>2. QED BY <2>1 DEF IsDate
<1>2. DaysFromCivil(a.year, a.month, a.day) = DayNumber(d)
  BY <1>1, DaysFromCivilCounts
<1>3. d.year = a.year /\ d.month = a.month /\ d.day = a.day
  OBVIOUS
<1> HIDE DEF d
<1>4. DayNumber(d) = DayNumber(a)
  BY <1>3 DEF DayNumber
<1>5. DaysBefore[a.month] \in Int
  BY <1>1 DEF DaysBefore
<1>6. DayNumber(a) \in Int
  BY <1>1, <1>5 DEF DayNumber
<1>7. QED BY <1>2, <1>4, <1>6

(* What a connection reads of a value, whose zone is the session's.         *)
Reads(a, x) ==
    \E o : /\ o.data = Received(a)
           /\ o.length = IF col \in {"text", "blob"} THEN Len(a) ELSE 0
           /\ x \in Converted(o)

LEMMA DatetimesRead ==
    ASSUME NEW a, Proper(a), NEW x, Reads(a, x), col \in {"datetime", "timestamp"},
           conn.timezone = Normalised(session.time_zone)
    PROVE  /\ ReadRight(<<a>>, x)
           /\ col = "timestamp" => \E u \in Int : x = <<u>> /\ Wall(conn.timezone, u) = Wall(conn.timezone, a)
<1> DEFINE w == IF col = "timestamp" THEN Wall(session.time_zone, a)
                ELSE DayNumber(a) * Day + ClockTicks(a)
<1>1. FieldType(col) = "MY_DATE_TIME"
  BY DEF FieldType
<1>2. PICK o : o.data = Received(a) /\ x \in FromLocal(DateTimeTicks(o.data))
  BY <1>1 DEF Reads, Converted
<1>3. DateTimeTicks(Received(a)) = w
  <2>1. CASE col = "timestamp"
    <3> DEFINE t == Wall(session.time_zone, a)
    <3>1. a \in Int /\ FloorPart(a) = a
      BY <2>1 DEF Proper
    <3>2. t \in Int /\ FloorPart(t) = t
      BY <3>1, Walls
    <3>3. Received(a) = MysqlTime(CivilFromDays(t \div Day), Clock(t - (t \div Day) * Day))
      BY <2>1, Zenon DEF Received
    <3> HIDE DEF t
    <3>4. DateTimeTicks(Received(a)) = t
      BY <3>2, <3>3, WallReceived
    <3>5. QED BY <2>1, <3>4 DEF t
  <2>2. CASE col = "datetime"
    <3>1. Received(a) = a
      BY <2>2 DEF Received
    <3>2. DaysFromCivil(a.year, a.month, a.day) = DayNumber(a)
      BY <2>2, DatesRead DEF Proper
    <3>3. QED BY <2>2, <3>1, <3>2, Zenon DEF DateTimeTicks
  <2>3. QED BY <2>1, <2>2
<1>4. x \in FromLocal(w)
  BY <1>2, <1>3
<1>5. <<a>> # NA /\ <<a>>[1] = a
  BY OneTuples
<1>6. CASE Instants(conn.timezone, w) = {}
  <2>1. x = NA
    BY <1>4, <1>6 DEF FromLocal
  <2>2. col # "timestamp"
    <3>1. SUFFICES ASSUME col = "timestamp" PROVE FALSE
      OBVIOUS
    <3>2. a \in Int /\ w = Wall(conn.timezone, a) /\ w \in Int
      BY <3>1, Walls DEF Proper
    <3>3. a \in Instants(conn.timezone, w)
      BY <3>2, AllInstants
    <3>4. QED BY <1>6, <3>3
  <2>3. ReadRight(<<a>>, x)
    BY <1>1, <1>5, <1>6, <2>1, <2>2, Zenon DEF ReadRight
  <2>4. QED BY <2>2, <2>3
<1>7. CASE Instants(conn.timezone, w) # {}
  <2>1. PICK u \in Instants(conn.timezone, w) : x = <<u>>
    BY <1>4, <1>7 DEF FromLocal
  <2>2. Wall(conn.timezone, u) = w
    BY <2>1 DEF Instants
  <2>3. x # NA /\ x[1] = u
    BY <2>1, OneTuples
  <2>4. ReadRight(<<a>>, x)
    BY <1>1, <1>5, <1>7, <2>2, <2>3, Zenon DEF ReadRight
  <2>5. ASSUME col = "timestamp"
        PROVE  u \in Int /\ Wall(conn.timezone, u) = Wall(conn.timezone, a)
    <3>1. a \in Int /\ w = Wall(conn.timezone, a) /\ w \in Int
      BY <2>5, Walls DEF Proper
    <3>2. QED BY <2>1, <2>2, <3>1, AllInstants
  <2>6. QED BY <2>1, <2>4, <2>5
<1>8. QED BY <1>6, <1>7

LEMMA WholeText == ASSUME NEW S, NEW a \in Seq(S) PROVE SubSeq(a, 1, Len(a)) = a
OBVIOUS

(* What is read of a value is that value. *)
LEMMA ValuesRead ==
    ASSUME NEW a, Proper(a), NEW x, Reads(a, x), col \in ColumnTypes,
           conn.timezone = Normalised(session.time_zone)
    PROVE  ReadRight(<<a>>, x)
<1>1. <<a>> # NA /\ <<a>>[1] = a
  BY OneTuples
<1>2. PICK o : /\ o.data = Received(a)
               /\ o.length = IF col \in {"text", "blob"} THEN Len(a) ELSE 0
               /\ x \in Converted(o)
  BY DEF Reads
<1>3. col # "timestamp" => o.data = a
  BY <1>2 DEF Received
<1>4. CASE col \in {"datetime", "timestamp"}
  BY <1>4, DatetimesRead
<1>5. CASE col \in {"tinyint", "int", "unsigned"}
  <2>1. FieldType(col) = "MY_INT32"
    BY <1>5 DEF FieldType
  <2>2. x = RInteger(Signed(a, IntBits), IntBits)
    BY <1>2, <1>3, <1>5, <2>1 DEF Converted
  <2>3. Unrepresentable(a) \/ x = <<a>>
    BY <1>5, <2>2, IntegersRead
  <2>4. QED BY <1>1, <2>1, <2>3 DEF ReadRight
<1>6. CASE col = "bigint"
  <2>1. FieldType(col) = "MY_INT64"
    BY <1>6 DEF FieldType
  <2>2. x \in ConvertBigint(RInteger(a, BigBits))
    BY <1>2, <1>3, <1>6, <2>1 DEF Converted
  <2>3. Unrepresentable(a) \/ x = <<a>>
    BY <1>6, <2>2, BigintsRead
  <2>4. QED BY <1>1, <2>1, <2>3 DEF ReadRight
<1>7. CASE col \in {"double", "bit"}
  <2>1. FieldType(col) \in {"MY_DBL", "MY_LGL"}
    BY <1>7 DEF FieldType
  <2>2. x = <<a>>
    BY <1>2, <1>3, <1>7, <2>1 DEF Converted
  <2>3. QED BY <1>1, <2>1, <2>2 DEF ReadRight
<1>8. CASE col \in {"text", "blob"}
  <2>1. FieldType(col) \in {"MY_STR", "MY_RAW"}
    BY <1>8 DEF FieldType
  <2>2. x = <<SubSeq(a, 1, Len(a))>>
    BY <1>2, <1>3, <1>8, <2>1 DEF Converted
  <2>3. x = <<a>>
    BY <1>8, <2>2, WholeText DEF Proper
  <2>4. QED BY <1>1, <2>1, <2>3 DEF ReadRight
<1>9. CASE col = "date"
  <2>1. FieldType(col) = "MY_DATE"
    BY <1>9 DEF FieldType
  <2>2. DaysFromCivil(a.year, a.month, a.day) = DayNumber(a)
    BY <1>9, DatesRead DEF Proper
  <2>3. x = <<2 * DayNumber(a)>>
    BY <1>2, <1>3, <1>9, <2>1, <2>2, Zenon DEF Converted
  <2>4. QED BY <1>1, <2>1, <2>3, Zenon DEF ReadRight
<1>10. CASE col = "time"
  <2>1. FieldType(col) = "MY_TIME"
    BY <1>10 DEF FieldType
  <2>2. x = <<TimeTicks(a)>>
    BY <1>2, <1>3, <1>10, <2>1 DEF Converted
  <2>3. QED BY <1>1, <2>1, <2>2 DEF ReadRight
<1>11. QED BY <1>4, <1>5, <1>6, <1>7, <1>8, <1>9, <1>10 DEF ColumnTypes, ServerColumns

(* A datetime of a TIMESTAMP column is the instant that was bound, or one of *)
(* two that a zone shows alike.                                             *)
LEMMA InstantsRead ==
    ASSUME NEW row, RowOK(row), row.type = "MY_DATE_TIME", row.put # NA, row.val # NA,
           NEW x, Reads(row.val[1], x), col = "timestamp",
           conn.timezone = Normalised(session.time_zone)
    PROVE  SameInstant(row, x)
<1> DEFINE a == row.val[1]
           t == FloorPart(row.put[1])
<1>1. Proper(a) /\ a \in Int
  BY DEF RowOK, Proper
<1>2. row.put[1] \in Int /\ t \in Int
  <2>1. row.put[1] \in Int
    BY DEF RowOK
  <2>2. QED BY <2>1, Floors
<1>3. Denotes(row)
  BY DEF RowOK, Faithful, Missing, BoundAsNumber
<1>4. Wall(row.from, a) = Wall(row.from, t)
  <2>1. Wall(row.from, a) = FloorPart(Wall(row.from, row.put[1]))
    BY <1>3 DEF Denotes
  <2>2. QED BY <1>2, <2>1, Walls
<1>5. PICK u \in Int : x = <<u>> /\ Wall(conn.timezone, u) = Wall(conn.timezone, a)
  BY <1>1, DatetimesRead
<1>6. x # NA /\ x[1] = u
  BY <1>5, OneTuples
<1> HIDE DEF a, t
<1>7. CASE a # t
  <2>1. Wall(row.from, t) \in Int
    BY <1>2, Walls
  <2>2. a \in Instants(row.from, Wall(row.from, t))
    BY <1>1, <1>4, <2>1, AllInstants
  <2>3. Repeated(row.from, t)
    BY <1>7, <2>2 DEF Repeated
  <2>4. QED BY <2>3 DEF SameInstant, t
<1>8. CASE a = t /\ u # a
  <2>1. Wall(conn.timezone, u) \in Int
    BY <1>5, Walls
  <2>2. a \in Instants(conn.timezone, Wall(conn.timezone, u))
    BY <1>1, <1>5, <2>1, AllInstants
  <2>3. Repeated(conn.timezone, u)
    BY <1>8, <2>2 DEF Repeated
  <2>4. QED BY <1>6, <2>3 DEF SameInstant
<1>9. CASE a = t /\ u = a
  BY <1>5, <1>9 DEF SameInstant, t
<1>10. QED BY <1>7, <1>8, <1>9

(* Classes are kept. *)
LEMMA ClassesKept ==
    ASSUME NEW x, IsObject(x), args.bigint \in {"integer64", "integer", "numeric", "character"}
    PROVE  ClassKept(x)
<1> SUFFICES ASSUME col = dbDataType(x) PROVE Fetched = Returned(x)
  BY DEF ClassKept
<1>1. CASE x.class \in {"", "blob"}
  BY <1>1 DEF IsObject, dbDataType, Fetched, FieldType, type_sexp, df_s3, Returned
<1>2. CASE x.class = "integer64"
  BY <1>2 DEF IsObject, dbDataType, Fetched, FieldType, type_sexp, df_s3, Returned
<1>3. CASE x.class = "factor"
  BY <1>3 DEF IsObject, dbDataType, Fetched, FieldType, type_sexp, df_s3, Returned
<1>4. CASE x.class \in {"Date", "POSIXt", "difftime"}
  BY <1>4 DEF IsObject, dbDataType, Fetched, FieldType, type_sexp, df_s3, Returned
<1>5. QED BY <1>1, <1>2, <1>3, <1>4 DEF IsObject

-----------------------------------------------------------------------------
(* The invariant *)

IsList(s) == \E S : s \in Seq(S)

(* What is bound is a column of Columns, for the server column in use.      *)
BindingOK ==
    IF stage = "bound"
    THEN \E c \in Columns : col \in c.into /\ params = Params(c) /\ i \in 0..Len(c.vals)
    ELSE params = NULL

RowsOK == \A n, row : n \in 1..Len(table) /\ row = table[n] => RowOK(row)

ReadOK(row, x) == SameInstant(row, x) /\ (session # NULL => ReadRight(row.val, x))

ReadsOK ==
    \A n, row, x : n \in 1..Len(fetched) /\ row = table[n] /\ x = fetched[n] => ReadOK(row, x)

BuffersOK ==
    /\ DOMAIN time_buffer = DOMAIN MysqlTime(NoDate, NoClock)
    /\ is_null \in BOOLEAN /\ binds \in 0..MaxBinds
    /\ out = [null |-> out.null, length |-> out.length, data |-> out.data]
    /\ out.null \in BOOLEAN /\ out.length \in Nat

StageOK ==
    /\ stage \in {"none", "insert", "bound", "select", "spent"}
    /\ stage # "none" => step = "ready"
    /\ stage \notin {"select", "spent"} => fetched = <<>>

ListsOK == IsList(table) /\ IsList(fetched) /\ Len(fetched) <= Len(table)

ValueInv ==
    StageOK /\ col \in ColumnTypes /\ BindingOK /\ ListsOK /\ RowsOK /\ ReadsOK /\ BuffersOK

(* What was found of a row or a value stays true as long as the statement    *)
(* is in use.                                                               *)
LEMMA RowKept ==
    ASSUME NEW row, RowOK(row), col' = col
    PROVE  RowOK(row)'
BY DEF RowOK, Proper, Faithful, BoundAsNumber, Missing, Denotes

LEMMA ReadKept ==
    ASSUME NEW row, NEW x, ReadOK(row, x), col' = col, conn' = conn, args' = args,
           session' = NULL \/ session' = session
    PROVE  ReadOK(row, x)'
<1>1. SameInstant(row, x)'
  BY DEF ReadOK, SameInstant
<1>2. ASSUME session' # NULL PROVE ReadRight(row.val, x)'
  <2>1. ReadRight(row.val, x) /\ session' = session
    BY <1>2 DEF ReadOK
  <2>2. QED BY <2>1, Zenon DEF ReadRight, Unrepresentable
<1>3. QED BY <1>1, <1>2 DEF ReadOK

LEMMA ParamsKept ==
    ASSUME NEW c, conn' = conn
    PROVE  Params(c)' = Params(c)
BY DEF Params, Coerced, SqlData, ToLocal

LEMMA EmptyList == IsList(<<>>) /\ Len(<<>>) = 0
BY EmptySeq DEF IsList

LEMMA Appended ==
    ASSUME NEW s, IsList(s), NEW e
    PROVE  /\ IsList(Append(s, e)) /\ Len(s) \in Nat /\ Len(Append(s, e)) = Len(s) + 1
           /\ \A n \in 1..Len(s) : Append(s, e)[n] = s[n]
           /\ Append(s, e)[Len(s) + 1] = e
<1>1. PICK S : s \in Seq(S)
  BY DEF IsList
<1> DEFINE T == S \cup {e}
<1>2. s \in Seq(T) /\ e \in T
  BY <1>1, SeqMonotonic
<1>3. Append(s, e) \in Seq(T)
  BY <1>2
<1>4. /\ Len(s) \in Nat /\ Len(Append(s, e)) = Len(s) + 1
      /\ \A n \in 1..Len(s) : Append(s, e)[n] = s[n]
      /\ Append(s, e)[Len(s) + 1] = e
  BY <1>2
<1>5. QED BY <1>3, <1>4 DEF IsList

(* What is bound of a column has its length, and the values of the column,   *)
(* coerced.                                                                 *)
LEMMA BoundValues ==
    ASSUME NEW c \in Columns
    PROVE  /\ Len(c.vals) \in Nat /\ Len(Params(c).vals) = Len(c.vals)
           /\ \A n \in 1..Len(c.vals) :
                /\ Params(c).was[n] = c.vals[n] /\ Params(c).vals[n] = SqlData(c, c.vals[n])
                /\ SqlData(c, c.vals[n]) = NA
                   \/ SqlData(c, c.vals[n]) = <<SqlData(c, c.vals[n])[1]>>
<1>1. PICK typeof, class, S, into : ColumnOf(c, typeof, class, S, into)
  BY ColumnsAssumption
<1>2. c.vals \in Seq(Seq(S))
  BY <1>1 DEF ColumnOf
<1>3. Len(c.vals) \in Nat /\ DOMAIN c.vals = 1..Len(c.vals)
  BY <1>2, LenProperties
<1> DEFINE p == [n \in 1..Len(c.vals) |-> SqlData(c, c.vals[n])]
<1>4. Params(c).vals = p /\ Params(c).was = c.vals
  BY <1>3 DEF Params
<1>5. Len(p) = Len(c.vals)
  BY <1>3
<1>6. ASSUME NEW n \in 1..Len(c.vals)
      PROVE  SqlData(c, c.vals[n]) = NA \/ SqlData(c, c.vals[n]) = <<SqlData(c, c.vals[n])[1]>>
  <2>1. Held(c.vals[n], S)
    BY <1>1, ColumnHolds
  <2>2. QED BY <2>1, OneTuples DEF Held, SqlData
<1>7. QED BY <1>3, <1>4, <1>5, <1>6

(* A connection that is ready stays what it is, or loses its session.       *)
LEMMA ReadyStays ==
    ASSUME step = "ready", ConnectInv, Connecting \/ SessionLost
    PROVE  UNCHANGED <<step, args, conn>> /\ (session' = NULL \/ session' = session)
BY DEF ConnectInv, SessionsOwned, Connecting, Create, CreateFails, Guard, FailUnguarded, SetZone,
       AskZone, CheckZones, TurnOffAutocommit, FailGuarded, Finalize, SessionLost

LEMMA ValueInit == Init => ValueInv
<1> SUFFICES ASSUME Init PROVE ValueInv
  OBVIOUS
<1>1. StageOK /\ BindingOK
  BY DEF Init, StageOK, BindingOK
<1>2. table = <<>> /\ fetched = <<>> /\ Len(<<>>) = 0
  BY EmptyList DEF Init
<1>3. ListsOK /\ RowsOK /\ ReadsOK
  BY <1>2, EmptyList DEF ListsOK, RowsOK, ReadsOK
<1>4. BuffersOK
  <2>1. out = Empty /\ binds = 0 /\ is_null = FALSE /\ time_buffer = MysqlTime(NoDate, NoClock)
    BY DEF Init
  <2>2. 0 \in 0..MaxBinds
    BY WidthAssumption
  <2>3. QED BY <2>1, <2>2 DEF BuffersOK, Empty
<1>5. col \in ColumnTypes
  BY DEF Init, ColumnTypes, ServerColumns
<1>6. QED BY <1>1, <1>3, <1>4, <1>5 DEF ValueInv

(* Rows and values that stay. *)
LEMMA RowsKept ==
    ASSUME RowsOK, table' = table, col' = col
    PROVE  RowsOK'
<1> SUFFICES ASSUME NEW n, NEW row, n \in 1..Len(table'), row = table'[n] PROVE RowOK(row)'
  BY DEF RowsOK
<1>1. RowOK(row)
  BY DEF RowsOK
<1>2. QED BY <1>1, RowKept

LEMMA ReadsKept ==
    ASSUME ReadsOK, UNCHANGED <<table, fetched, col, conn, args>>,
           session' = NULL \/ session' = session
    PROVE  ReadsOK'
<1> SUFFICES ASSUME NEW n, NEW row, NEW x, n \in 1..Len(fetched'), row = table'[n], x = fetched'[n]
             PROVE  ReadOK(row, x)'
  BY DEF ReadsOK
<1>1. ReadOK(row, x)
  BY DEF ReadsOK
<1>2. QED BY <1>1, ReadKept

LEMMA NothingRead ==
    ASSUME fetched' = <<>>
    PROVE  ReadsOK'
<1>1. Len(fetched') = 0
  BY EmptyList
<1>2. QED BY <1>1 DEF ReadsOK

LEMMA BindingKept ==
    ASSUME BindingOK, UNCHANGED <<stage, col, params, i, conn>>
    PROVE  BindingOK'
<1>1. CASE stage = "bound"
  <2>1. PICK c \in Columns : col \in c.into /\ params = Params(c) /\ i \in 0..Len(c.vals)
    BY <1>1 DEF BindingOK
  <2>2. Params(c)' = Params(c)
    BY ParamsKept
  <2>3. QED BY <1>1, <2>1, <2>2 DEF BindingOK
<1>2. CASE stage # "bound"
  BY <1>2 DEF BindingOK
<1>3. QED BY <1>1, <1>2

(* What the connection does between statements and below them.              *)
LEMMA ConnectionStep ==
    ASSUME ValueInv, ConnectInv, UNCHANGED valueVars,
           \/ Connecting \/ SessionLost
           \/ stage = "none" /\ Disconnect
    PROVE  ValueInv'
<1> USE DEF ValueInv
<1>1. UNCHANGED <<stage, col, params, i, time_buffer, buffer, is_null, binds, table, out, fetched>>
  BY DEF valueVars, bindVars
<1>2. RowsOK' /\ ListsOK' /\ BuffersOK' /\ (col \in ColumnTypes)'
  <2>1. RowsOK'
    BY <1>1, RowsKept
  <2>2. QED BY <1>1, <2>1 DEF ListsOK, BuffersOK, IsList, ColumnTypes
<1>3. CASE stage = "none"
  <2>1. StageOK'
    BY <1>1, <1>3 DEF StageOK
  <2>2. BindingOK'
    BY <1>1, <1>3 DEF BindingOK
  <2>3. ReadsOK'
    BY <1>1, <1>3, NothingRead DEF StageOK
  <2>4. QED BY <1>2, <2>1, <2>2, <2>3
<1>4. CASE stage # "none"
  <2>1. step = "ready"
    BY <1>4 DEF StageOK
  <2>2. UNCHANGED <<step, args, conn>> /\ (session' = NULL \/ session' = session)
    BY <1>4, <2>1, ReadyStays
  <2>3. StageOK'
    BY <1>1, <2>2 DEF StageOK
  <2>4. BindingOK'
    BY <1>1, <2>2, BindingKept
  <2>5. ReadsOK'
    BY <1>1, <2>2, ReadsKept
  <2>6. QED BY <1>2, <2>3, <2>4, <2>5
<1>5. QED BY <1>3, <1>4

LEMMA FreshBuffers ==
    ASSUME Fresh
    PROVE  /\ DOMAIN time_buffer' = DOMAIN MysqlTime(NoDate, NoClock)
           /\ is_null' \in BOOLEAN /\ binds' \in 0..MaxBinds /\ params' = NULL
<1>1. 0 \in 0..MaxBinds
  BY WidthAssumption
<1>2. QED BY <1>1 DEF Fresh

LEMMA PrepareStep ==
    ASSUME ValueInv, NEW c \in ServerColumns, Prepare(c)
    PROVE  ValueInv'
<1> USE DEF ValueInv
<1>1. /\ stage = "none" /\ step = "ready" /\ table = <<>> /\ stage' = "insert" /\ col' = c /\ Fresh
      /\ UNCHANGED <<connectVars, table, out, fetched>>
  BY DEF Prepare, Usable
<1>2. UNCHANGED <<step, args, conn, session, orphan, warned>>
  BY <1>1 DEF connectVars
<1>3. StageOK' /\ (col \in ColumnTypes)'
  BY <1>1, <1>2 DEF StageOK, ColumnTypes
<1>4. BindingOK' /\ BuffersOK'
  BY <1>1, FreshBuffers DEF BindingOK, BuffersOK
<1>5. RowsOK'
  <2>1. Len(table') = 0
    BY <1>1, EmptyList
  <2>2. QED BY <2>1 DEF RowsOK
<1>6. ReadsOK' /\ ListsOK'
  BY <1>1, NothingRead DEF StageOK, ListsOK, IsList
<1>7. QED BY <1>3, <1>4, <1>5, <1>6

LEMMA InitBindingStep ==
    ASSUME ValueInv, NEW c \in Columns, InitBinding(c)
    PROVE  ValueInv'
<1> USE DEF ValueInv
<1>1. /\ stage \in {"insert", "bound"} /\ col \in c.into /\ binds < MaxBinds
      /\ params' = Params(c) /\ i' = 0 /\ binds' = binds + 1 /\ stage' = "bound"
      /\ UNCHANGED <<connectVars, col, time_buffer, buffer, is_null, table, out, fetched>>
  BY DEF InitBinding
<1>2. UNCHANGED <<step, args, conn, session, orphan, warned>>
  BY <1>1 DEF connectVars
<1>3. StageOK' /\ (col \in ColumnTypes)' /\ ListsOK'
  BY <1>1, <1>2 DEF StageOK, ColumnTypes, ListsOK, IsList
<1>4. BindingOK'
  <2>1. Params(c)' = Params(c)
    BY <1>2, ParamsKept
  <2>2. 0 \in 0..Len(c.vals)
    BY BoundValues
  <2>3. QED BY <1>1, <2>1, <2>2 DEF BindingOK
<1>5. BuffersOK'
  <2>1. binds + 1 \in 0..MaxBinds
    BY <1>1, WidthAssumption DEF BuffersOK
  <2>2. QED BY <1>1, <2>1 DEF BuffersOK
<1>6. RowsOK' /\ ReadsOK'
  BY <1>1, <1>2, RowsKept, ReadsKept
<1>7. QED BY <1>3, <1>4, <1>5, <1>6

(* Rows and values to which one is added.                                   *)
LEMMA RowAdded ==
    ASSUME RowsOK, IsList(table), NEW row, RowOK(row), table' = Append(table, row), col' = col
    PROVE  RowsOK'
<1> SUFFICES ASSUME NEW n, NEW r, n \in 1..Len(table'), r = table'[n] PROVE RowOK(r)'
  BY DEF RowsOK
<1>1. /\ Len(table) \in Nat /\ Len(table') = Len(table) + 1
      /\ \A k \in 1..Len(table) : table'[k] = table[k]
      /\ table'[Len(table) + 1] = row
  BY Appended
<1>2. n \in 1..Len(table) \/ n = Len(table) + 1
  BY <1>1
<1>3. RowOK(r)
  BY <1>1, <1>2 DEF RowsOK
<1>4. QED BY <1>3, RowKept

LEMMA BindNextRowStep ==
    ASSUME ValueInv, ConnectInv, BindNextRow
    PROVE  ValueInv'
<1> USE DEF ValueInv
<1>1. /\ step = "ready" /\ session # NULL /\ stage = "bound" /\ i < Len(params.vals)
      /\ FillBuffers(params.type, params.vals[i + 1]) /\ i' = i + 1
      /\ UNCHANGED <<connectVars, stage, col, params, binds, out, fetched>>
  BY DEF BindNextRow, Usable
<1>2. UNCHANGED <<step, args, conn, session, orphan, warned>>
  BY <1>1 DEF connectVars
<1>3. conn.timezone = Normalised(session.time_zone)
  BY <1>1 DEF ConnectInv, ZonesAgree
<1>4. PICK c \in Columns : col \in c.into /\ params = Params(c) /\ i \in 0..Len(c.vals)
  BY <1>1 DEF BindingOK
<1> DEFINE n == i + 1
           x == c.vals[n]
           y == SqlData(c, x)
<1>5. /\ n \in 1..Len(c.vals) /\ params.vals[n] = y /\ params.was[n] = x
      /\ y = NA \/ y = <<y[1]>>
  BY <1>1, <1>4, BoundValues
<1>6. params.type = TypeOf(c) /\ params.object = [typeof |-> c.typeof, class |-> c.class]
  BY <1>4 DEF Params, TypeOf
<1> HIDE DEF x, y
<1> DEFINE sent == IF is_null' THEN NA
                   ELSE IF params.type \in Temporal THEN <<Sent(params.type, time_buffer')>>
                   ELSE <<buffer'>>
<1>7. PICK v \in Stored(params.type, sent) :
        table' = Append(table, [object |-> params.object, put |-> params.was[i + 1],
                                type |-> params.type, from |-> conn.timezone, val |-> v])
  BY Zenon DEF BindNextRow
<1>8. sent = Wire(TypeOf(c), y)
  BY <1>1, <1>5, <1>6 DEF FillBuffers, Wire
<1> HIDE DEF sent
<1>9. RowOK(RowOf(c, x, v))
  <2>1. v \in Stored(TypeOf(c), Wire(TypeOf(c), SqlData(c, c.vals[n])))
    BY <1>6, <1>7, <1>8 DEF x, y
  <2>2. RowOK(RowOf(c, c.vals[n], v))
    BY <1>3, <1>4, <1>5, <2>1, BoundRowOK
  <2>3. QED BY <2>2 DEF x
<1>10. table' = Append(table, RowOf(c, x, v))
  BY <1>5, <1>6, <1>7 DEF RowOf
<1>11. RowsOK'
  BY <1>1, <1>9, <1>10, RowAdded DEF ListsOK
<1>12. StageOK' /\ (col \in ColumnTypes)' /\ fetched' = <<>>
  BY <1>1, <1>2 DEF StageOK, ColumnTypes
<1>13. ListsOK' /\ ReadsOK'
  <2>1. IsList(table') /\ Len(table') \in Nat
    BY <1>10, Appended DEF ListsOK
  <2>2. QED BY <1>12, <2>1, EmptyList, NothingRead DEF ListsOK, IsList
<1>14. BindingOK'
  <2>1. Params(c)' = Params(c)
    BY <1>2, ParamsKept
  <2>2. n \in 0..Len(c.vals)
    BY <1>5, BoundValues
  <2>3. QED BY <1>1, <1>4, <2>1, <2>2 DEF BindingOK
<1>15. BuffersOK'
  <2>1. is_null' \in BOOLEAN
    BY <1>1 DEF FillBuffers
  <2>2. DOMAIN time_buffer' = DOMAIN MysqlTime(NoDate, NoClock)
    <3>1. \/ time_buffer' = time_buffer
          \/ \E d, w : time_buffer' = MysqlTime(d, w)
      BY <1>1, Zenon DEF FillBuffers
    <3>2. \A d, w : DOMAIN MysqlTime(d, w) = DOMAIN MysqlTime(NoDate, NoClock)
      BY DEF MysqlTime
    <3>3. QED BY <3>1, <3>2 DEF BuffersOK
  <2>3. QED BY <1>1, <2>1, <2>2 DEF BuffersOK
<1>16. QED BY <1>11, <1>12, <1>13, <1>14, <1>15

LEMMA ForeignValues ==
    ASSUME NEW f \in Foreign
    PROVE  /\ f.col \in {"int", "unsigned", "bigint"} /\ f.val \in Int
           /\ f.col = "int" => f.val < 2^(IntBits-1)
           /\ f.col = "unsigned" => f.val >= 0
<1> DEFINE int == 2^(IntBits-1)
           top == 2^IntBits
           big == 2^(BigBits-1)
           v == f.val
<1>1. int \in Nat /\ top \in Nat /\ big \in Nat
  BY PowerAssumption
<1>2. \/ f.col = "int" /\ v \in -int .. int - 1
      \/ f.col = "unsigned" /\ v \in 0 .. top - 1
      \/ f.col = "bigint" /\ v \in -big .. big - 1
  BY ForeignAssumption, Zenon
<1> HIDE DEF int, top, big, v
<1>3. CASE f.col = "int" /\ v \in -int .. int - 1
  <2>1. v \in Int /\ v < int
    BY <1>1, <1>3
  <2>2. QED BY <1>3, <2>1 DEF v, int
<1>4. CASE f.col = "unsigned" /\ v \in 0 .. top - 1
  <2>1. v \in Int /\ v >= 0
    BY <1>1, <1>4
  <2>2. QED BY <1>4, <2>1 DEF v
<1>5. CASE f.col = "bigint" /\ v \in -big .. big - 1
  <2>1. v \in Int
    BY <1>1, <1>5
  <2>2. QED BY <1>5, <2>1 DEF v
<1>6. QED BY <1>2, <1>3, <1>4, <1>5

LEMMA PeerStoresStep ==
    ASSUME ValueInv, NEW f \in Foreign, PeerStores(f)
    PROVE  ValueInv'
<1> USE DEF ValueInv
<1> DEFINE row == [object |-> NULL, put |-> NA, type |-> "foreign", from |-> NULL,
                   val |-> <<f.val>>]
<1>1. /\ stage = "none" /\ col' = f.col /\ table' = <<row>>
      /\ UNCHANGED <<connectVars, stage, params, i, time_buffer, buffer, is_null, binds, out, fetched>>
  BY DEF PeerStores, bindVars
<1>2. fetched' = <<>> /\ StageOK'
  BY <1>1 DEF StageOK
<1>3. BindingOK' /\ BuffersOK'
  BY <1>1 DEF BindingOK, BuffersOK
<1>4. row.val = <<f.val>> /\ row.put = NA /\ row.type = "foreign" /\ row.object = NULL
  OBVIOUS
<1>5. /\ f.col \in {"int", "unsigned", "bigint"} /\ f.val \in Int
      /\ f.col = "int" => f.val < 2^(IntBits-1)
      /\ f.col = "unsigned" => f.val >= 0
  BY ForeignValues
<1> HIDE DEF row
<1>6. RowOK(row)'
  <2>1. row.type # "foreign" => FALSE
    BY <1>4
  <2>2. Faithful(row)'
    BY <2>1, Zenon DEF Faithful
  <2>3. row.val[1] = f.val
    BY <1>4
  <2>4. Proper(row.val[1])'
    BY <1>1, <1>5, <2>3 DEF Proper
  <2>5. QED BY <1>4, <2>2, <2>3, <2>4, Zenon DEF RowOK
<1>7. Len(<<row>>) = 1 /\ <<row>>[1] = row /\ <<row>> \in Seq({row})
  OBVIOUS
<1>8. RowsOK'
  <2>1. \A n, r : n \in 1..Len(table') /\ r = table'[n] => r = row
    BY <1>1, <1>7
  <2>2. QED BY <1>6, <2>1 DEF RowsOK
<1>9. ListsOK' /\ ReadsOK'
  <2>1. IsList(table') /\ Len(table') = 1
    BY <1>1, <1>7 DEF IsList
  <2>2. IsList(fetched') /\ Len(fetched') = 0
    BY <1>2, EmptyList
  <2>3. QED BY <1>2, <2>1, <2>2, NothingRead DEF ListsOK, IsList
<1>10. (col \in ColumnTypes)'
  BY <1>1, <1>5 DEF ColumnTypes, ServerColumns
<1>11. QED BY <1>2, <1>3, <1>8, <1>9, <1>10

LEMMA QueryStep ==
    ASSUME ValueInv, Query
    PROVE  ValueInv'
<1> USE DEF ValueInv
<1>1. /\ stage = "none" /\ step = "ready" /\ stage' = "select" /\ out' = Empty /\ fetched' = <<>>
      /\ UNCHANGED <<connectVars, col, params, i, time_buffer, buffer, is_null, binds, table>>
  BY DEF Query, Usable, bindVars
<1>2. step' = step
  BY <1>1 DEF connectVars
<1>3. StageOK' /\ (col \in ColumnTypes)' /\ BindingOK' /\ BuffersOK'
  BY <1>1, <1>2 DEF StageOK, ColumnTypes, BindingOK, BuffersOK, Empty
<1>4. ListsOK'
  <2>1. IsList(table) /\ Len(table) \in Nat
    BY Appended DEF ListsOK
  <2>2. QED BY <1>1, <2>1, EmptyList DEF ListsOK, IsList
<1>5. RowsOK' /\ ReadsOK'
  BY <1>1, RowsKept, NothingRead
<1>6. QED BY <1>3, <1>4, <1>5

LEMMA FetchFailsStep ==
    ASSUME ValueInv, FetchFails
    PROVE  ValueInv'
<1> USE DEF ValueInv
<1>1. /\ stage = "select" /\ step = "ready" /\ stage' = "spent"
      /\ UNCHANGED <<connectVars, col, params, i, time_buffer, buffer, is_null, binds, table, out, fetched>>
  BY DEF FetchFails, Usable, bindVars
<1>2. UNCHANGED <<step, args, conn, session>>
  BY <1>1 DEF connectVars
<1>3. StageOK' /\ (col \in ColumnTypes)' /\ BindingOK' /\ BuffersOK' /\ ListsOK'
  BY <1>1, <1>2 DEF StageOK, ColumnTypes, BindingOK, BuffersOK, ListsOK, IsList
<1>4. RowsOK' /\ ReadsOK'
  BY <1>1, <1>2, RowsKept, ReadsKept
<1>5. QED BY <1>3, <1>4

LEMMA ClearStep ==
    ASSUME ValueInv, Clear
    PROVE  ValueInv'
<1> USE DEF ValueInv
<1>1. /\ stage' = "none" /\ out' = Empty /\ fetched' = <<>> /\ Fresh
      /\ table' = <<>> \/ table' = table
      /\ UNCHANGED <<connectVars, col>>
  BY DEF Clear
<1>2. StageOK' /\ (col \in ColumnTypes)'
  BY <1>1 DEF StageOK, ColumnTypes
<1>3. BindingOK' /\ BuffersOK'
  BY <1>1, FreshBuffers DEF BindingOK, BuffersOK, Empty
<1>4. ListsOK'
  <2>1. IsList(table') /\ Len(table') \in Nat
    BY <1>1, EmptyList, Appended DEF ListsOK
  <2>2. QED BY <1>1, <2>1, EmptyList DEF ListsOK, IsList
<1>5. RowsOK'
  <2>1. CASE table' = table
    BY <1>1, <2>1, RowsKept
  <2>2. CASE table' = <<>>
    <3>1. Len(table') = 0
      BY <2>2, EmptyList
    <3>2. QED BY <3>1 DEF RowsOK
  <2>3. QED BY <1>1, <2>1, <2>2
<1>6. ReadsOK'
  BY <1>1, NothingRead
<1>7. QED BY <1>2, <1>3, <1>4, <1>5, <1>6

LEMMA FetchRowStep ==
    ASSUME ValueInv, ConnectInv, FetchRow
    PROVE  ValueInv'
<1> USE DEF ValueInv
<1> DEFINE n == Len(fetched) + 1
           row == table[n]
           v == row.val
<1>1. /\ step = "ready" /\ session # NULL /\ stage = "select" /\ Len(fetched) < Len(table)
      /\ UNCHANGED <<connectVars, stage, col, params, i, time_buffer, buffer, is_null, binds, table>>
      /\ out' = IF v = NA THEN [out EXCEPT !.null = TRUE]
                ELSE [null |-> FALSE, data |-> Received(v[1]),
                      length |-> IF col \in {"text", "blob"} THEN Len(v[1]) ELSE 0]
  BY DEF FetchRow, Usable, bindVars
<1>2. PICK x \in RValues(out') : fetched' = Append(fetched, x)
  BY DEF FetchRow
<1>3. UNCHANGED <<step, args, conn, session>>
  BY <1>1 DEF connectVars
<1>4. conn.timezone = Normalised(session.time_zone)
  BY <1>1 DEF ConnectInv, ZonesAgree
<1>5. /\ Len(fetched) \in Nat /\ Len(table) \in Nat /\ n \in 1..Len(table)
      /\ IsList(fetched') /\ Len(fetched') = n
      /\ \A k \in 1..Len(fetched) : fetched'[k] = fetched[k]
      /\ fetched'[n] = x
  BY <1>1, <1>2, Appended DEF ListsOK
<1>6. RowOK(row)
  BY <1>5 DEF RowsOK
<1> HIDE DEF n, row
<1>7. ReadOK(row, x) /\ BuffersOK'
  <2>1. CASE v = NA
    <3>1. out' = [out EXCEPT !.null = TRUE]
      BY <1>1, <2>1
    <3>2. out'.null = TRUE /\ out'.length \in Nat
          /\ out' = [null |-> out'.null, length |-> out'.length, data |-> out'.data]
      BY <3>1 DEF BuffersOK
    <3>3. x = NA
      BY <1>2, <3>2 DEF RValues
    <3>4. ReadRight(v, x)
      BY <2>1, <3>3 DEF ReadRight
    <3>5. SameInstant(row, x)
      <4>1. SUFFICES ASSUME col = "timestamp", row.put # NA PROVE FALSE
        BY DEF SameInstant
      <4>2. row.type = "MY_DATE_TIME" /\ Faithful(row)
        BY <1>6, <4>1 DEF RowOK
      <4>3. QED BY <2>1, <4>1, <4>2 DEF Faithful, BoundAsNumber, Missing
    <3>6. BuffersOK'
      BY <1>1, <3>2 DEF BuffersOK
    <3>7. QED BY <3>4, <3>5, <3>6 DEF ReadOK
  <2>2. CASE v # NA
    <3> DEFINE a == v[1]
    <3>1. out' = [null |-> FALSE, data |-> Received(a),
                  length |-> IF col \in {"text", "blob"} THEN Len(a) ELSE 0]
      BY <1>1, <2>2
    <3>2. v = <<a>> /\ Proper(a)
      BY <1>6, <2>2 DEF RowOK
    <3>3. out'.null = FALSE /\ out'.data = Received(a)
          /\ out'.length = (IF col \in {"text", "blob"} THEN Len(a) ELSE 0)
      BY <3>1
    <3>4. Reads(a, x)
      BY <1>2, <3>3 DEF RValues, Reads
    <3>5. ReadRight(v, x)
      BY <1>4, <3>2, <3>4, ValuesRead
    <3>6. SameInstant(row, x)
      <4>1. SUFFICES ASSUME col = "timestamp", row.put # NA PROVE SameInstant(row, x)
        BY DEF SameInstant
      <4>2. row.type = "MY_DATE_TIME"
        BY <1>6, <4>1 DEF RowOK
      <4>3. QED BY <1>4, <1>6, <2>2, <3>4, <4>1, <4>2, InstantsRead
    <3>7. out'.length \in Nat
      <4>1. col \in {"text", "blob"} => Len(a) \in Nat
        BY <3>2, LenProperties DEF Proper
      <4>2. QED BY <3>3, <4>1
    <3>8. BuffersOK'
      <4>1. out' = [null |-> out'.null, length |-> out'.length, data |-> out'.data]
        BY <3>1
      <4>2. QED BY <1>1, <3>3, <3>7, <4>1 DEF BuffersOK
    <3>9. QED BY <3>5, <3>6, <3>8 DEF ReadOK
  <2>3. QED BY <2>1, <2>2
<1>8. ReadsOK'
  <2> SUFFICES ASSUME NEW k, NEW r, NEW y, k \in 1..Len(fetched'), r = table'[k], y = fetched'[k]
               PROVE  ReadOK(r, y)'
    BY DEF ReadsOK
  <2>1. CASE k = n
    <3>1. ReadOK(r, y)
      BY <1>1, <1>5, <1>7, <2>1 DEF row
    <3>2. QED BY <1>1, <1>3, <3>1, ReadKept
  <2>2. CASE k # n
    <3>1. k \in 1..Len(fetched)
      BY <1>5, <2>2 DEF n
    <3>2. ReadOK(r, y)
      BY <1>1, <1>5, <3>1 DEF ReadsOK
    <3>3. QED BY <1>1, <1>3, <3>2, ReadKept
  <2>3. QED BY <2>1, <2>2
<1>9. StageOK' /\ (col \in ColumnTypes)' /\ BindingOK'
  BY <1>1, <1>3, BindingKept DEF StageOK, ColumnTypes
<1>10. ListsOK'
  BY <1>1, <1>5 DEF ListsOK, IsList
<1>11. RowsOK'
  BY <1>1, RowsKept
<1>12. QED BY <1>7, <1>8, <1>9, <1>10, <1>11

LEMMA ValueStep == ValueInv /\ ConnectInv /\ [Next]_vars => ValueInv'
<1> SUFFICES ASSUME ValueInv, ConnectInv, [Next]_vars PROVE ValueInv'
  OBVIOUS
<1>1. ASSUME UNCHANGED vars PROVE ValueInv'
  <2>1. UNCHANGED <<stage, col, params, i, time_buffer, buffer, is_null, binds, table, out, fetched,
                    step, args, conn, session>>
    BY <1>1 DEF vars, valueVars, bindVars, connectVars
  <2>2. StageOK' /\ (col \in ColumnTypes)' /\ BuffersOK' /\ ListsOK'
    BY <2>1 DEF ValueInv, StageOK, ColumnTypes, BuffersOK, ListsOK, IsList
  <2>3. BindingOK' /\ RowsOK' /\ ReadsOK'
    BY <2>1, BindingKept, RowsKept, ReadsKept DEF ValueInv
  <2>4. QED BY <2>2, <2>3 DEF ValueInv
<1>2. ASSUME UNCHANGED valueVars,
             Connecting \/ SessionLost \/ (stage = "none" /\ Disconnect)
      PROVE  ValueInv'
  BY <1>2, ConnectionStep
<1>3. ASSUME NEW c \in ServerColumns, Prepare(c) PROVE ValueInv'
  BY <1>3, PrepareStep
<1>4. ASSUME NEW c \in Columns, InitBinding(c) PROVE ValueInv'
  BY <1>4, InitBindingStep
<1>5. ASSUME NEW f \in Foreign, PeerStores(f) PROVE ValueInv'
  BY <1>5, PeerStoresStep
<1>6. CASE BindNextRow
  BY <1>6, BindNextRowStep
<1>7. CASE Query
  BY <1>7, QueryStep
<1>8. CASE FetchRow
  BY <1>8, FetchRowStep
<1>9. CASE FetchFails
  BY <1>9, FetchFailsStep
<1>10. CASE Clear
  BY <1>10, ClearStep
<1>11. QED BY <1>1, <1>2, <1>3, <1>4, <1>5, <1>6, <1>7, <1>8, <1>9, <1>10, Zenon DEF Next

LEMMA ValueInvariance == Spec => []ValueInv
<1>1. Spec => []ConnectInv
  BY StatementsLeaveConnection, ConnectInvariance, PTL
<1>2. QED BY <1>1, ValueInit, ValueStep, PTL DEF Spec

(* Types of the connection, the statement in use and the buffers.           *)
THEOREM ValueTypes == Spec => []TypeOK
<1>1. ConnectTypeOK /\ ValueInv => TypeOK
  <2> SUFFICES ASSUME ConnectTypeOK, ValueInv PROVE TypeOK
    OBVIOUS
  <2>1. ASSUME params # NULL PROVE i \in 0..Len(params.vals)
    <3>1. PICK c \in Columns : params = Params(c) /\ i \in 0..Len(c.vals)
      BY <2>1 DEF ValueInv, BindingOK
    <3>2. QED BY <3>1, BoundValues
  <2>2. QED BY <2>1 DEF ValueInv, StageOK, BuffersOK, ListsOK, TypeOK
<1>2. ConnectSpec => []ConnectTypeOK
  BY ConnectTypeInit, ConnectTypeStep, PTL DEF ConnectSpec
<1>3. QED BY <1>1, <1>2, StatementsLeaveConnection, ValueInvariance, PTL

(* What a row of parameters becomes on the server is NULL if it was missing *)
(* and denotes its value otherwise.                                         *)
THEOREM RowsAreBound == Spec => []StoredIsBound
<1>1. ValueInv => StoredIsBound
  <2> SUFFICES ASSUME ValueInv, NEW n \in DOMAIN table PROVE Faithful(table[n])
    BY DEF StoredIsBound
  <2>1. PICK S : table \in Seq(S)
    BY DEF ValueInv, ListsOK, IsList
  <2>2. n \in 1..Len(table)
    BY <2>1, LenProperties
  <2>3. RowOK(table[n])
    BY <2>2 DEF ValueInv, RowsOK
  <2>4. QED BY <2>3 DEF RowOK
<1>2. QED BY <1>1, ValueInvariance, PTL

(* What is read is what is stored, and keeps its class.                     *)
THEOREM ValuesAreStored == Spec => []ReadIsStored
<1>1. ValueInv /\ ConnectTypeOK => ReadIsStored
  <2> SUFFICES ASSUME ValueInv, ConnectTypeOK, session # NULL, NEW n \in DOMAIN fetched
               PROVE  ClassKept(table[n].object) /\ ReadRight(table[n].val, fetched[n])
    BY DEF ReadIsStored
  <2>1. PICK S : fetched \in Seq(S)
    BY DEF ValueInv, ListsOK, IsList
  <2>2. PICK T : table \in Seq(T)
    BY DEF ValueInv, ListsOK, IsList
  <2>3. n \in 1..Len(fetched) /\ n \in 1..Len(table)
    <3>1. n \in 1..Len(fetched) /\ Len(fetched) \in Nat /\ Len(table) \in Nat
      BY <2>1, <2>2, LenProperties
    <3>2. Len(fetched) <= Len(table)
      BY DEF ValueInv, ListsOK
    <3>3. QED BY <3>1, <3>2
  <2>4. ReadRight(table[n].val, fetched[n])
    BY <2>3 DEF ValueInv, ReadsOK, ReadOK
  <2>5. table[n].object = NULL \/ IsObject(table[n].object)
    BY <2>3 DEF ValueInv, RowsOK, RowOK
  <2>6. args.bigint \in {"integer64", "integer", "numeric", "character"}
    BY ArgumentsAssumption DEF ConnectTypeOK
  <2>7. ClassKept(table[n].object)
    <3>1. CASE table[n].object = NULL
      BY <3>1 DEF ClassKept
    <3>2. CASE IsObject(table[n].object)
      BY <2>6, <3>2, ClassesKept
    <3>3. QED BY <2>5, <3>1, <3>2
  <2>8. QED BY <2>4, <2>7
<1>2. ConnectSpec => []ConnectTypeOK
  BY ConnectTypeInit, ConnectTypeStep, PTL DEF ConnectSpec
<1>3. QED BY <1>1, <1>2, StatementsLeaveConnection, ValueInvariance, PTL

(* A datetime of a TIMESTAMP column is the same instant for every connection *)
(* that reads it, but for the hour that a zone has twice.                   *)
THEOREM InstantsAreKept == Spec => []InstantKept
<1>1. ValueInv => InstantKept
  <2> SUFFICES ASSUME ValueInv, NEW n \in DOMAIN fetched PROVE SameInstant(table[n], fetched[n])
    BY DEF InstantKept
  <2>1. PICK S : fetched \in Seq(S)
    BY DEF ValueInv, ListsOK, IsList
  <2>2. n \in 1..Len(fetched)
    BY <2>1, LenProperties
  <2>3. QED BY <2>2 DEF ValueInv, ReadsOK, ReadOK
<1>2. QED BY <1>1, ValueInvariance, PTL

=============================================================================
