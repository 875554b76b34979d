------------------------------ MODULE Calendar ------------------------------
(***************************************************************************)
(* Dates (internal/domain/date.go, and the helpers of debt.go on months).  *)
(*                                                                         *)
(* A date is the number YYYYMMDD, so that dates compare as the program's   *)
(* strings do; NoDate, zero, is the empty string.                          *)
(***************************************************************************)
EXTENDS Integers, SequencesExt

NoDate == 0
Ymd(y, m, d) == y * 10000 + m * 100 + d
Year(d) == d \div 10000
Month(d) == (d \div 100) % 100
DayOf(d) == d % 100

Leap(y) == y % 4 = 0 /\ (y % 100 # 0 \/ y % 400 = 0)
lastDayOfMonth(y, m) ==
  CASE m = 2 -> IF Leap(y) THEN 29 ELSE 28
    [] m \in {4, 6, 9, 11} -> 30
    [] OTHER -> 31

Valid(d) == Month(d) \in 1..12 /\ DayOf(d) \in 1..lastDayOfMonth(Year(d), Month(d))

LOCAL Least(a, b) == IF a <= b THEN a ELSE b
LOCAL Most(a, b) == IF a >= b THEN a ELSE b

(* Number of days since a day before all others, and back.                 *)
DaysBeforeYear(y) == 365 * y + (y + 3) \div 4 - (y + 99) \div 100 + (y + 399) \div 400
DaysBeforeMonth(y, m) ==
  <<0, 31, 59, 90, 120, 151, 181, 212, 243, 273, 304, 334>>[m]
    + (IF m > 2 /\ Leap(y) THEN 1 ELSE 0)
Ordinal(d) == DaysBeforeYear(Year(d)) + DaysBeforeMonth(Year(d), Month(d)) + DayOf(d)
FromOrdinal(n) ==
  LET y == CHOOSE z \in (n \div 366)..(n \div 365 + 1) :
             DaysBeforeYear(z) < n /\ n <= DaysBeforeYear(z + 1)
      k == n - DaysBeforeYear(y)
      m == CHOOSE j \in 1..12 :
             DaysBeforeMonth(y, j) < k /\ k <= DaysBeforeMonth(y, j) + lastDayOfMonth(y, j)
  IN Ymd(y, m, k - DaysBeforeMonth(y, m))

DaysBetween(a, b) == Ordinal(b) - Ordinal(a)
MonthsBetween(a, b) == (Year(b) - Year(a)) * 12 + Month(b) - Month(a)
AddDays(d, n) == FromOrdinal(Ordinal(d) + n)

(* The month n months after that of d, as <<year, month>>.                 *)
MonthAfter(d, n) ==
  LET t == Year(d) * 12 + Month(d) - 1 + n IN <<t \div 12, (t % 12) + 1>>

(* time.AddDate: days that the month lacks run over into the next one.     *)
AddMonths(d, n) ==
  LET ym == MonthAfter(d, n) IN AddDays(Ymd(ym[1], ym[2], 1), DayOf(d) - 1)

(* The same without running over: the last day of the month instead.       *)
AddMonthsClamp(d, n) ==
  LET ym == MonthAfter(d, n)
  IN Ymd(ym[1], ym[2], Least(DayOf(d), lastDayOfMonth(ym[1], ym[2])))

DateOnDay(y, m, day) == Ymd(y, m, Least(Most(day, 1), lastDayOfMonth(y, m)))
addMonthsOnDay(d, n, day) == LET ym == MonthAfter(d, n) IN DateOnDay(ym[1], ym[2], day)
=============================================================================
