---------------------------- MODULE CalendarDate ----------------------------
(***************************************************************************)
(* Date.cpp and Date.h: a date is the number of days since 1/1/1000, in a  *)
(* Gregorian calendar without gaps; day, month and year are worked out     *)
(* when they are asked for.  Two dates and their calls.                    *)
(*                                                                         *)
(* The names of months and weekdays, which every constructor sets, are     *)
(* numbers here; the static functions are called with a date in existence. *)
(***************************************************************************)
EXTENDS Integers, FiniteSets

CONSTANTS
  Given,      \* the dates <<d, m, y>> that a constructor is called with
  Steps,      \* the arguments of addDays
  Days        \* bound: the days that addDays may reach

DateAssumption ==
  /\ Given \subseteq Nat \X Nat \X Nat /\ Steps \subseteq Int /\ Days \subseteq Int

VARIABLES
  date, other    \* daysSinceBaseDate_ of the two

datevars == <<date, other>>

baseYear == 1000

leapYear(y) == y % 400 = 0 \/ (y % 4 = 0 /\ y % 100 # 0)
yearDays(y) == IF leapYear(y) THEN 366 ELSE 365

monthDays(m, y) ==
  IF m < 1 \/ m > 12 THEN 0
  ELSE IF m = 2 THEN IF leapYear(y) THEN 29 ELSE 28
  ELSE IF m \in {4, 6, 9, 11} THEN 30 ELSE 31

(* The loops of dmy2dsbd: days of the years and months before *)
daysOfYears(y) ==
  365 * (y - baseYear) + Cardinality({n \in baseYear .. y - 1 : leapYear(n)})

daysOfMonths(m, y) ==
  LET before[n \in 1 .. 12] == IF n = 1 THEN 0 ELSE before[n - 1] + monthDays(n - 1, y)
  IN  before[m]

Valid(d, m, y) == 1 <= d /\ d <= monthDays(m, y) /\ 1 <= m /\ m <= 12 /\ y >= baseYear

dmy2dsbd(d, m, y) ==
  IF ~Valid(d, m, y) THEN 0 ELSE daysOfYears(y) + daysOfMonths(m, y) + d - 1

(* The loops of getDMY end with the first year, and the first month of it, *)
(* that is longer than the days which are left.                            *)
walkYears(days) ==
  IF days < 0 THEN baseYear
  ELSE CHOOSE y \in baseYear + (days \div 366) .. baseYear + (days \div 365) :
         daysOfYears(y) <= days /\ days < daysOfYears(y + 1)

walkMonths(left, y) ==
  CHOOSE m \in 1 .. 12 :
    /\ left < daysOfMonths(m, y) + monthDays(m, y)
    /\ m = 1 \/ left >= daysOfMonths(m, y)

(* Mutant of getDMY: the walk by months takes every year for a common one. *)
getDMYCommon(days) ==
  LET y == walkYears(days) left == days - daysOfYears(y) m == walkMonths(left, baseYear + 1)
  IN <<left - daysOfMonths(m, y) + 1, m, y>>

(* The day is unsigned: one that is negative here wraps in the code. *)
getDMY(days) ==
  LET y == walkYears(days) left == days - daysOfYears(y) m == walkMonths(left, y)
  IN <<left - daysOfMonths(m, y) + 1, m, y>>

monthTable     == <<0, 3, 3, 6, 1, 4, 6, 2, 5, 0, 3, 5>>
monthTableLeap == <<6, 2, 3, 6, 1, 4, 6, 2, 5, 0, 3, 5>>

(* The rest of an unsigned number, which is x + 2^32 where x is negative *)
modSeven(x) == IF x < 0 THEN (x + 4) % 7 ELSE x % 7

(* Counted from Monday, 0 *)
getWeekDay(days) ==
  LET dmy == getDMY(days) y == dmy[3]
      century == 2 * (3 - ((y \div 100) % 4))
      year    == (y % 100) + ((y % 100) \div 4)
      month   == (IF leapYear(y) THEN monthTableLeap ELSE monthTable)[dmy[2]]
  IN modSeven(dmy[1] + century + year + month + 6)

Init == date = 0 /\ other = 0
-----------------------------------------------------------------------------
(* The constructors, and the assignment of the second date; a date that    *)
(* does not exist is 1/1/1000.                                             *)
Construct(dmy) ==
  LET days == dmy2dsbd(dmy[1], dmy[2], dmy[3])
  IN \/ date' = days /\ UNCHANGED other
     \/ other' = days /\ UNCHANGED date

addDays(n) ==
  /\ date + n \in Days /\ date' = date + n
  /\ UNCHANGED other

Next == (\E dmy \in Given : Construct(dmy)) \/ (\E n \in Steps : addDays(n))

Spec == Init /\ [][Next]_datevars

lessThan == date < other
-----------------------------------------------------------------------------
TypeOK == {date, other} \subseteq Int

(* The day after a date, as the calendar has it *)
DayAfter(d, m, y) ==
  IF d < monthDays(m, y) THEN <<d + 1, m, y>>
  ELSE IF m < 12 THEN <<1, m + 1, y>> ELSE <<1, 1, y + 1>>

(* From the base date on, the two conversions are inverse to each other,   *)
(* the result is a date of the calendar, and the comparisons by number are *)
(* those of the dates.                                                     *)
RoundTrip ==
  LET a == getDMY(date) b == getDMY(other)
  IN /\ date >= 0 => Valid(a[1], a[2], a[3]) /\ dmy2dsbd(a[1], a[2], a[3]) = date
     /\ date >= 0 /\ other >= 0 =>
          (lessThan <=> \/ a[3] < b[3]
                        \/ a[3] = b[3] /\ a[2] < b[2]
                        \/ a[3] = b[3] /\ a[2] = b[2] /\ a[1] < b[1])

(* The weekdays follow each other through every end of a month, leap year  *)
(* and century, and nine days further back than there are dates; 1/1/1000  *)
(* is a Wednesday.                                                         *)
WeekDays == date >= -9 => getWeekDay(date) = (date + 2) % 7

(* A day more is the next date of the calendar, also at the end of a       *)
(* month.  The test of today's date expects tm_mday+9 of the same month    *)
(* after nine days, and is wrong there.                                    *)
NextDay ==
  LET a == getDMY(date)
  IN date >= 0 => getDMY(date + 1) = DayAfter(a[1], a[2], a[3])
=============================================================================
