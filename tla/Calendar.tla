------------------------------ MODULE Calendar ------------------------------
(* The date arithmetic the age gate and the conditional requests rest on: the *)
(* pubtime of a version (src/src/cooldown.rs) and the Last-Modified date      *)
(* (src/src/http/httpdate.rs).  The reference is the Gregorian calendar,      *)
(* walked one day at a time.                                                  *)
EXTENDS Integers

CONSTANTS
  None,        \* the absent value
  FirstYear,   \* the walk starts on 1 January of this year ...
  FirstDay,    \* ... which is this many days after 1970-01-01
  LastYear,    \* and ends with this year
  Clocks       \* the seconds of a day that are formatted and parsed

ASSUME CalendarAssumption ==
  /\ FirstYear \in Nat \ {0} /\ LastYear \in Nat
  /\ LET past == FirstYear - 1   \* 719162 days end with the year 1969
     IN  FirstDay = 365 * past + past \div 4 - past \div 100 + past \div 400 - 719162
  /\ \A clock \in Clocks : clock \in Nat /\ clock < 86400

SecsPerDay == 86400

-----------------------------------------------------------------------------
(* The algorithms.  A date is [y, m, d].                                      *)

(* The number of days from 1 March to the first of the month, in a year that  *)
(* starts in March.                                                           *)
DaysBeforeMonth(m) == (153 * (IF m > 2 THEN m - 3 ELSE m + 9) + 2) \div 5

(* Mutant: the year starts in January.                                        *)
DaysFromCivilOfJanuary(date) ==
  LET y   == date.y
      era == IF y >= 0 THEN y \div 400 ELSE -((399 - y) \div 400)
      yoe == y - era * 400
      doy == DaysBeforeMonth(date.m) + date.d - 1
  IN  era * 146097 + yoe * 365 + yoe \div 4 - yoe \div 100 + doy - 719468

(* days_from_civil, and days_since_epoch, its twin in cooldown.rs; the code   *)
(* divides towards zero.                                                      *)
DaysFromCivil(date) ==
  LET y   == IF date.m <= 2 THEN date.y - 1 ELSE date.y
      era == IF y >= 0 THEN y \div 400 ELSE -((399 - y) \div 400)
      yoe == y - era * 400
      doy == DaysBeforeMonth(date.m) + date.d - 1
  IN  era * 146097 + yoe * 365 + yoe \div 4 - yoe \div 100 + doy - 719468

(* Mutant: the last day of a 400-year era is not special.                     *)
YearOfEraUncorrected(doe) == (doe - doe \div 1460 + doe \div 36524) \div 365

YearOfEra(doe) ==
  (doe - doe \div 1460 + doe \div 36524 - doe \div 146096) \div 365

(* The date of a day of a year that starts in March.                          *)
CivilOfYear(year, doy) ==
  LET mp == (5 * doy + 2) \div 153
      m  == IF mp < 10 THEN mp + 3 ELSE mp - 9
  IN  [y |-> IF m <= 2 THEN year + 1 ELSE year,
       m |-> m,
       d |-> doy - (153 * mp + 2) \div 5 + 1]

CivilOfEra(era, doe) ==
  LET yoe == YearOfEra(doe)
  IN  CivilOfYear(yoe + era * 400, doe - (365 * yoe + yoe \div 4 - yoe \div 100))

CivilFromDays(days) ==
  LET z   == days + 719468
      era == IF z >= 0 THEN z \div 146097 ELSE -((146096 - z) \div 146097)
  IN  CivilOfEra(era, z - era * 146097)

(* The fields of an IMF-fixdate: weekday, date and clock (0 is Sunday).  A     *)
(* time is its days since the epoch and its second of the day, the quotient   *)
(* and the remainder the code takes apart first.                              *)
FmtHttpDate(time) ==
  [weekday |-> (time.day + 4) % 7,
   date    |-> CivilFromDays(time.day),
   h       |-> time.second \div 3600,
   mi      |-> (time.second % 3600) \div 60,
   s       |-> time.second % 60]

(* What both parsers make of a date and a clock: the fields have their ranges *)
(* (a leap second, and any day up to 31 in any month, pass), and a day before *)
(* 1970 is no date.                                                           *)
ParseFields(t) ==
  IF \/ t.h > 23 \/ t.mi > 59 \/ t.s > 60
     \/ t.date.m \notin 1..12 \/ t.date.d \notin 1..31
     \/ DaysFromCivil(t.date) < 0
  THEN None
  ELSE LET second == t.h * 3600 + t.mi * 60 + t.s
       IN  [day    |-> DaysFromCivil(t.date) + second \div SecsPerDay,
            second |-> second % SecsPerDay]

-----------------------------------------------------------------------------
(* The calendar.                                                              *)

VARIABLES
  date,     \* today
  days,     \* the days since 1970-01-01
  weekday   \* the day of the week, 0 for Sunday

Leap(y) == y % 4 = 0 /\ (y % 100 # 0 \/ y % 400 = 0)

MonthLength(y, m) ==
  CASE m \in {4, 6, 9, 11} -> 30
    [] m = 2 -> IF Leap(y) THEN 29 ELSE 28
    [] OTHER -> 31

Init ==
  /\ date = [y |-> FirstYear, m |-> 1, d |-> 1]
  /\ days = FirstDay
  /\ weekday = (FirstDay + 4) % 7

Tomorrow ==
  CASE date.d < MonthLength(date.y, date.m) -> [date EXCEPT !.d = @ + 1]
    [] date.d = MonthLength(date.y, date.m) /\ date.m < 12 ->
         [date EXCEPT !.d = 1, !.m = @ + 1]
    [] OTHER -> [y |-> date.y + 1, m |-> 1, d |-> 1]

Next ==
  /\ Tomorrow.y <= LastYear
  /\ date' = Tomorrow
  /\ days' = days + 1
  /\ weekday' = (weekday + 1) % 7

Spec == Init /\ [][Next]_<<date, days, weekday>>

-----------------------------------------------------------------------------
(* Both conversions agree with the calendar on every day, leap years, century *)
(* years and era boundaries included: a pubtime is never a day early or late. *)
ConversionsAgree ==
  DaysFromCivil(date) = days /\ CivilFromDays(days) = date

(* A Last-Modified date survives being stored as a file time, formatted and   *)
(* parsed again, so a validator this proxy hands out is recognised when it    *)
(* comes back; and a date before 1970 is never taken for one.                 *)
HttpDateRoundTrip ==
  \A clock \in Clocks :
    LET time == [day |-> days, second |-> clock]
        t    == FmtHttpDate(time)
    IN  IF days >= 0
        THEN t.weekday = weekday /\ ParseFields(t) = time
        ELSE ParseFields([t EXCEPT !.date = date]) = None
=============================================================================
