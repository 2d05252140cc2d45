--------------------------- MODULE CalendarProofs ---------------------------
(* Theorems about the date arithmetic: the two conversions agree with the     *)
(* Gregorian calendar on every day of every year, and dates survive being     *)
(* formatted and parsed again.  A year that starts in March is taken apart    *)
(* into its era of 400 years, centuries c, leap cycles b and years a.         *)
EXTENDS Calendar, TLAPS

Date == [y : Nat \ {0}, m : 1..12, d : 1..31]

ValidDate(t) == t \in Date /\ t.d <= MonthLength(t.y, t.m)

(* The year that starts in March, and the day in it.                          *)
MarchYear(t) == IF t.m <= 2 THEN t.y - 1 ELSE t.y

MarchDay(t) == DaysBeforeMonth(t.m) + t.d - 1

DayOfEra(c, b, a, doy) == 36524 * c + 1461 * b + 365 * a + doy

YearInEra(c, b, a) == 100 * c + 4 * b + a

LastDayOfEra == 146096

(* The days of the years before one, leap days included.                      *)
DaysBeforeYear(y) == 365 * y + y \div 4 - y \div 100 + y \div 400

(* The days since 1970 of a day of an era.                                    *)
DayNumber(era, doe) == 146097 * era + doe - 719468

(* A leap day ends the fourth year of a cycle, unless the century ends with   *)
(* it and the era does not.                                                   *)
IsDayOfEra(c, b, a, doy) ==
  /\ c \in 0..3 /\ b \in 0..24 /\ a \in 0..3 /\ doy \in 0..365
  /\ doy = 365 => a = 3 /\ (b # 24 \/ c = 3)

-----------------------------------------------------------------------------
(* Facts about the operators.                                                 *)

(* The days before each month.                                                *)
LEMMA MonthTable ==
  /\ DaysBeforeMonth(3) = 0    /\ DaysBeforeMonth(4) = 31
  /\ DaysBeforeMonth(5) = 61   /\ DaysBeforeMonth(6) = 92
  /\ DaysBeforeMonth(7) = 122  /\ DaysBeforeMonth(8) = 153
  /\ DaysBeforeMonth(9) = 184  /\ DaysBeforeMonth(10) = 214
  /\ DaysBeforeMonth(11) = 245 /\ DaysBeforeMonth(12) = 275
  /\ DaysBeforeMonth(1) = 306  /\ DaysBeforeMonth(2) = 337
BY DEF DaysBeforeMonth

(* A year of an era in centuries, leap cycles and years.                      *)
LEMMA YearParts ==
  ASSUME NEW year \in Nat
  PROVE  \E era \in Nat, c \in 0..3, b \in 0..24, a \in 0..3 :
           year = YearInEra(c, b, a) + era * 400
<1> DEFINE yoe == year % 400
<1>1. /\ year \div 400 \in Nat /\ year = 400 * (year \div 400) + yoe
      /\ yoe \in 0..399
  OBVIOUS
<1>2. /\ yoe \div 100 \in 0..3 /\ (yoe % 100) \div 4 \in 0..24 /\ yoe % 4 \in 0..3
      /\ yoe = 100 * (yoe \div 100) + 4 * ((yoe % 100) \div 4) + (yoe % 4)
  BY <1>1
<1> HIDE DEF yoe
<1> QED
  BY <1>1, <1>2 DEF YearInEra

(* A leap day is the last day of a year that starts in March.                 *)
LEMMA MarchDayRange ==
  ASSUME NEW t, ValidDate(t)
  PROVE  /\ MarchYear(t) \in Nat
         /\ MarchDay(t) \in 0..365
         /\ MarchDay(t) = 365 => t.m = 2 /\ Leap(t.y)
<1>1. t.y \in Nat \ {0} /\ t.m \in 1..12 /\ t.d \in 1..31 /\ t.d <= MonthLength(t.y, t.m)
  BY DEF ValidDate, Date
<1>2. MarchYear(t) \in Nat
  BY <1>1 DEF MarchYear
<1>3. t.m = 2 => t.d \in 1..29 /\ (t.d = 29 => Leap(t.y))
  BY <1>1 DEF MonthLength
<1>4. t.m \in {1, 3, 4, 5, 6, 7, 8, 9, 10, 11, 12} => MarchDay(t) \in 0..364
  BY <1>1, MonthTable DEF MarchDay
<1>5. t.m = 2 => MarchDay(t) = 336 + t.d
  BY <1>1, MonthTable DEF MarchDay
<1> QED
  BY <1>1, <1>2, <1>3, <1>4, <1>5

(* days_from_civil of a date whose year has been taken apart.                 *)
LEMMA DaysOfParts ==
  ASSUME NEW t, ValidDate(t),
         NEW era \in Nat, NEW c \in 0..3, NEW b \in 0..24, NEW a \in 0..3,
         MarchYear(t) = YearInEra(c, b, a) + era * 400
  PROVE  DaysFromCivil(t)
           = DayNumber(era, DayOfEra(c, b, a, MarchDay(t)))
<1> USE DEF YearInEra
<1> DEFINE year == MarchYear(t)
           yoe == 100 * c + 4 * b + a
<1>1. year \in Nat /\ MarchDay(t) \in Int
  BY MarchDayRange
<1>2. year \div 400 = era
  BY <1>1
<1>3. year - era * 400 = yoe /\ yoe \div 4 = 25 * c + b /\ yoe \div 100 = c
  OBVIOUS
<1> HIDE DEF yoe
<1>4. DaysFromCivil(t) = era * 146097 + yoe * 365 + (25 * c + b) - c
                           + MarchDay(t) - 719468
  <2>1. DaysFromCivil(t)
          = LET e == (IF year >= 0 THEN year \div 400 ELSE -((399 - year) \div 400))
                q == year - e * 400
            IN  e * 146097 + q * 365 + q \div 4 - q \div 100 + MarchDay(t) - 719468
    BY SMT DEF DaysFromCivil, MarchYear, MarchDay
  <2>2. (IF year >= 0 THEN year \div 400 ELSE -((399 - year) \div 400)) = era
    BY <1>1, <1>2
  <2> QED
    BY <1>3, <2>1, <2>2
<1> QED
  BY <1>1, <1>4 DEF DayOfEra, DayNumber, yoe

(* The year of the era is recovered from the day, its last day included: the  *)
(* correction for leap days is one day ahead only where the year is not over. *)
LEMMA YearOfEraExact ==
  ASSUME NEW c, NEW b, NEW a, NEW doy, IsDayOfEra(c, b, a, doy)
  PROVE  YearOfEra(DayOfEra(c, b, a, doy)) = YearInEra(c, b, a)
<1> USE DEF IsDayOfEra
<1> DEFINE doe == 36524 * c + 1461 * b + 365 * a + doy
           leaps == doe \div 1460
           centuries == doe \div 36524
           last == doe \div 146096
<1>1. doe \in Nat /\ doe <= 146096
  BY SMT
<1>2. centuries - last = c
  <2>1. CASE doe = 146096
    <3>1. c = 3
      BY <2>1
    <3> QED
      BY <2>1, <3>1
  <2>2. CASE doe # 146096
    <3>1. last = 0
      BY <1>1, <2>2
    <3>2. 1461 * b + 365 * a + doy < 36524
      BY <2>2
    <3> QED
      BY <3>1, <3>2
  <2> QED
    BY <2>1, <2>2
<1>3. \/ leaps = 25 * c + b /\ doy # 365
      \/ leaps = 25 * c + b + 1 /\ doy # 0
  <2> DEFINE rest == 24 * c + b + 365 * a + doy
  <2>1. doe = 1460 * (25 * c + b) + rest
    OBVIOUS
  <2>2. rest \in 0..2919 /\ (rest >= 1460 => doy # 0) /\ (doy = 365 => rest >= 1460)
    OBVIOUS
  <2> HIDE DEF doe, rest
  <2>3. doy \in Int /\ c \in Int /\ b \in Int
    OBVIOUS
  <2> QED
    BY <2>1, <2>2, <2>3
<1>4. YearOfEra(doe) = (doe - leaps + centuries - last) \div 365
  BY DEF YearOfEra
<1>5. doe - leaps + centuries - last \in 365 * (100 * c + 4 * b + a) + 0 ..
        365 * (100 * c + 4 * b + a) + 364
  <2>1. leaps \in Int /\ centuries \in Int /\ last \in Int
    BY <1>1
  <2> HIDE DEF leaps, centuries, last
  <2> QED
    BY <1>2, <1>3, <2>1
<1>6. YearOfEra(doe) = 100 * c + 4 * b + a
  <2> HIDE DEF doe, leaps, centuries, last
  <2> QED
    BY <1>4, <1>5
<1> QED
  BY <1>6 DEF DayOfEra, YearInEra

(* An era has 146097 days.                                                    *)
LEMMA DayOfEraRange ==
  ASSUME NEW c, NEW b, NEW a, NEW doy, IsDayOfEra(c, b, a, doy)
  PROVE  DayOfEra(c, b, a, doy) \in Nat /\ DayOfEra(c, b, a, doy) <= LastDayOfEra
BY SMT DEF DayOfEra, LastDayOfEra, IsDayOfEra

(* The month and the day are recovered from the day of the year.              *)
LEMMA CivilOfYearExact ==
  ASSUME NEW year \in Nat, NEW m \in 1..12, NEW d \in 1..31,
         m \in {4, 6, 9, 11} => d <= 30, m = 2 => d <= 29
  PROVE  CivilOfYear(year, DaysBeforeMonth(m) + d - 1)
           = [y |-> IF m <= 2 THEN year + 1 ELSE year, m |-> m, d |-> d]
<1> DEFINE doy == DaysBeforeMonth(m) + d - 1
           mp == (5 * doy + 2) \div 153
<1>1. /\ mp = IF m > 2 THEN m - 3 ELSE m + 9
      /\ doy - (153 * mp + 2) \div 5 + 1 = d
  BY SMT DEF DaysBeforeMonth
<1>2. CivilOfYear(year, doy)
        = LET n == IF mp < 10 THEN mp + 3 ELSE mp - 9
          IN  [y |-> IF n <= 2 THEN year + 1 ELSE year, m |-> n,
               d |-> doy - (153 * mp + 2) \div 5 + 1]
  BY SMT DEF CivilOfYear
<1> HIDE DEF mp, doy
<1>3. (IF mp < 10 THEN mp + 3 ELSE mp - 9) = m
  BY <1>1
<1> QED
  BY <1>1, <1>2, <1>3 DEF doy

(* The year and its day are recovered from the day of the era.                *)
LEMMA CivilOfEraExact ==
  ASSUME NEW era \in Nat,
         NEW c, NEW b, NEW a, NEW doy, IsDayOfEra(c, b, a, doy)
  PROVE  CivilOfEra(era, DayOfEra(c, b, a, doy))
           = CivilOfYear(YearInEra(c, b, a) + era * 400, doy)
<1> DEFINE yoe == YearInEra(c, b, a)
           doe == DayOfEra(c, b, a, doy)
<1>1. YearOfEra(doe) = yoe
  BY YearOfEraExact, Zenon
<1>2. doe - (365 * yoe + yoe \div 4 - yoe \div 100) = doy
  BY SMT DEF DayOfEra, YearInEra, IsDayOfEra
<1>3. CivilOfEra(era, doe)
        = CivilOfYear(yoe + era * 400,
                      doe - (365 * yoe + yoe \div 4 - yoe \div 100))
  <2> HIDE DEF yoe, doe
  <2> QED
    BY <1>1 DEF CivilOfEra
<1> QED
  BY <1>2, <1>3

(* The era and its day are recovered from the days since 1970.                *)
LEMMA CivilFromDaysExact ==
  ASSUME NEW era \in Nat, NEW doe \in Nat, doe <= LastDayOfEra
  PROVE  CivilFromDays(DayNumber(era, doe)) = CivilOfEra(era, doe)
<1> DEFINE z == (146097 * era + doe - 719468) + 719468
<1>1. /\ (IF z >= 0 THEN z \div 146097 ELSE -((146096 - z) \div 146097)) = era
      /\ z - era * 146097 = doe
  BY SMT DEF LastDayOfEra
<1>2. CivilFromDays(DayNumber(era, doe))
        = LET e == (IF z >= 0 THEN z \div 146097 ELSE -((146096 - z) \div 146097))
          IN  CivilOfEra(e, z - e * 146097)
  BY SMT DEF CivilFromDays, DayNumber
<1> HIDE DEF z
<1> QED
  BY <1>1, <1>2

(* A date is recovered from its day.                                          *)
LEMMA CivilInverse ==
  ASSUME NEW t, ValidDate(t)
  PROVE  DaysFromCivil(t) \in Int /\ CivilFromDays(DaysFromCivil(t)) = t
<1>1. t.y \in Nat \ {0} /\ t.m \in 1..12 /\ t.d \in 1..31 /\ t.d <= MonthLength(t.y, t.m)
  BY DEF ValidDate, Date
<1>2. PICK era \in Nat, c \in 0..3, b \in 0..24, a \in 0..3 :
        MarchYear(t) = YearInEra(c, b, a) + era * 400
  BY MarchDayRange, YearParts
<1>3. MarchDay(t) \in 0..365 /\ (MarchDay(t) = 365 => t.m = 2 /\ Leap(t.y))
  BY MarchDayRange
<1>4. IsDayOfEra(c, b, a, MarchDay(t))
  <2>1. ASSUME MarchDay(t) = 365  PROVE  a = 3 /\ (b # 24 \/ c = 3)
    <3>1. t.y = 400 * era + 100 * c + 4 * b + a + 1
      BY <1>1, <1>2, <1>3, <2>1 DEF MarchYear, YearInEra
    <3>2. (t.y) % 4 = 0 /\ ((t.y) % 100 # 0 \/ (t.y) % 400 = 0)
      BY <1>3, <2>1 DEF Leap
    <3>3. a = 3
      BY <3>1, <3>2
    <3> QED
      BY <3>1, <3>2, <3>3
  <2> QED
    BY <1>3, <2>1 DEF IsDayOfEra
<1>5. DaysFromCivil(t) = DayNumber(era, DayOfEra(c, b, a, MarchDay(t)))
  BY <1>2, DaysOfParts, Zenon
<1>6. /\ DayOfEra(c, b, a, MarchDay(t)) \in Nat
      /\ DayOfEra(c, b, a, MarchDay(t)) <= LastDayOfEra
  BY <1>4, DayOfEraRange
<1>7. CivilFromDays(DaysFromCivil(t)) = CivilOfEra(era, DayOfEra(c, b, a, MarchDay(t)))
  BY <1>5, <1>6, CivilFromDaysExact
<1>8. CivilFromDays(DaysFromCivil(t)) = CivilOfYear(MarchYear(t), MarchDay(t))
  BY <1>2, <1>4, <1>7, CivilOfEraExact
<1>9. CivilOfYear(MarchYear(t), MarchDay(t)) = t
  <2>1. (t.m \in {4, 6, 9, 11} => t.d <= 30) /\ (t.m = 2 => t.d <= 29)
    BY <1>1 DEF MonthLength
  <2>2. MarchYear(t) \in Nat
    BY MarchDayRange
  <2> DEFINE year == MarchYear(t)
             m == t.m
             d == t.d
  <2>3. year \in Nat /\ m \in 1..12 /\ d \in 1..31
    BY <1>1, <2>2
  <2>4. CivilOfYear(year, DaysBeforeMonth(m) + d - 1)
          = [y |-> IF m <= 2 THEN year + 1 ELSE year, m |-> m, d |-> d]
    <3> HIDE DEF year, m, d
    <3>1. (m \in {4, 6, 9, 11} => d <= 30) /\ (m = 2 => d <= 29)
      BY <2>1 DEF m, d
    <3> QED
      BY <2>3, <3>1, CivilOfYearExact
  <2>5. (IF m <= 2 THEN year + 1 ELSE year) = t.y
    BY <1>1 DEF MarchYear
  <2>6. t = [y |-> t.y, m |-> t.m, d |-> t.d]
    BY DEF ValidDate, Date
  <2> QED
    BY <2>4, <2>5, <2>6 DEF MarchDay
<1>10. DaysFromCivil(t) \in Int
  BY <1>5, <1>6 DEF DayNumber
<1> QED
  BY <1>8, <1>9, <1>10

(* Days are counted by years and by leap days.                                *)
LEMMA DaysOfYear ==
  ASSUME NEW t, ValidDate(t)
  PROVE  DaysFromCivil(t) = DaysBeforeYear(MarchYear(t)) + MarchDay(t) - 719468
<1> DEFINE year == MarchYear(t)
           era == year \div 400
           yoe == year - era * 400
<1>1. year \in Nat /\ MarchDay(t) \in Int
  BY MarchDayRange
<1>2. DaysFromCivil(t)
        = era * 146097 + yoe * 365 + yoe \div 4 - yoe \div 100 + MarchDay(t) - 719468
  <2>1. DaysFromCivil(t)
          = LET e == (IF year >= 0 THEN year \div 400 ELSE -((399 - year) \div 400))
                q == year - e * 400
            IN  e * 146097 + q * 365 + q \div 4 - q \div 100 + MarchDay(t) - 719468
    BY SMT DEF DaysFromCivil, MarchYear, MarchDay
  <2>2. (IF year >= 0 THEN year \div 400 ELSE -((399 - year) \div 400)) = era
    BY <1>1
  <2> QED
    BY <2>1, <2>2
<1> HIDE DEF year
<1>3. /\ year \div 4 = 100 * era + yoe \div 4
      /\ year \div 100 = 4 * era + yoe \div 100
  BY <1>1
<1> DEFINE four == yoe \div 4
           hundred == yoe \div 100
<1>4. era \in Int /\ yoe \in Int /\ four \in Int /\ hundred \in Int
      /\ year = yoe + era * 400
  BY <1>1
<1>5. DaysBeforeYear(year) = 365 * year + (100 * era + four) - (4 * era + hundred) + era
  BY <1>3 DEF DaysBeforeYear
<1>6. DaysFromCivil(t) = era * 146097 + yoe * 365 + four - hundred + MarchDay(t) - 719468
  BY <1>2
<1> HIDE DEF era, yoe, four, hundred
<1>7. DaysFromCivil(t) = DaysBeforeYear(year) + MarchDay(t) - 719468
  BY <1>1, <1>4, <1>5, <1>6
<1> QED
  BY <1>7 DEF year

(* A year has 366 days if its February has 29.                                *)
LEMMA YearLength ==
  ASSUME NEW y \in Nat \ {0}
  PROVE  DaysBeforeYear(y) = DaysBeforeYear(y - 1) + (IF Leap(y) THEN 366 ELSE 365)
<1>1. y \div 4 = (y - 1) \div 4 + (IF y % 4 = 0 THEN 1 ELSE 0)
  OBVIOUS
<1>2. y \div 100 = (y - 1) \div 100 + (IF y % 100 = 0 THEN 1 ELSE 0)
  OBVIOUS
<1>3. y \div 400 = (y - 1) \div 400 + (IF y % 400 = 0 THEN 1 ELSE 0)
  OBVIOUS
<1>4. (y % 400 = 0 => y % 100 = 0) /\ (y % 100 = 0 => y % 4 = 0)
  OBVIOUS
<1> QED
  BY <1>1, <1>2, <1>3, <1>4 DEF DaysBeforeYear, Leap

(* The day after a date is a date, and its day is the next one.               *)
LEMMA TomorrowIsNext ==
  ASSUME ValidDate(date)
  PROVE  ValidDate(Tomorrow) /\ DaysFromCivil(Tomorrow) = DaysFromCivil(date) + 1
<1> DEFINE y == date.y
           m == date.m
           d == date.d
<1>1. date = [y |-> y, m |-> m, d |-> d]
  BY DEF ValidDate, Date
<1>2. Tomorrow = CASE d < MonthLength(y, m) -> [date EXCEPT !.d = d + 1]
                   [] d = MonthLength(y, m) /\ m < 12 ->
                        [date EXCEPT !.d = 1, !.m = m + 1]
                   [] OTHER -> [y |-> y + 1, m |-> 1, d |-> 1]
  BY DEF Tomorrow
<1>3. y \in Nat \ {0} /\ m \in 1..12 /\ d \in 1..31 /\ d <= MonthLength(y, m)
  BY DEF ValidDate, Date
<1> HIDE DEF y, m, d
<1>4. MonthLength(y, m) \in 28..31
  BY DEF MonthLength
<1>5. date \in [y : Nat \ {0}, m : 1..12, d : 1..31]
  BY DEF ValidDate, Date
<1>6. DaysBeforeYear(MarchYear(date)) \in Int /\ MarchDay(date) \in Int
  BY MarchDayRange DEF DaysBeforeYear
<1>7. SUFFICES /\ ValidDate(Tomorrow)
               /\ DaysBeforeYear(MarchYear(Tomorrow)) + MarchDay(Tomorrow)
                    = DaysBeforeYear(MarchYear(date)) + MarchDay(date) + 1
  <2>1. /\ MarchYear(date) \in Nat /\ MarchDay(date) \in Int
        /\ MarchYear(Tomorrow) \in Nat /\ MarchDay(Tomorrow) \in Int
    BY <1>7, MarchDayRange
  <2>2. /\ DaysFromCivil(date) = DaysBeforeYear(MarchYear(date)) + MarchDay(date) - 719468
        /\ DaysFromCivil(Tomorrow)
             = DaysBeforeYear(MarchYear(Tomorrow)) + MarchDay(Tomorrow) - 719468
    BY <1>7, DaysOfYear
  <2>3. \A n \in Nat : DaysBeforeYear(n) \in Int
    BY DEF DaysBeforeYear
  <2> QED
    BY <1>7, <2>1, <2>2, <2>3
<1>8. CASE d < MonthLength(y, m)
  <2>1. Tomorrow = [y |-> y, m |-> m, d |-> d + 1]
    BY <1>1, <1>8, <1>4, <1>2, <1>5
  <2>3. ValidDate(Tomorrow)
    BY <1>3, <1>8, <1>4, <2>1 DEF ValidDate, Date
  <2>4. MarchYear(Tomorrow) = MarchYear(date)
    BY <1>1, <2>1 DEF MarchYear
  <2>5. MarchDay(Tomorrow) = MarchDay(date) + 1
    BY <1>1, <1>3, <2>1 DEF MarchDay, DaysBeforeMonth
  <2> QED
    BY <1>6, <2>3, <2>4, <2>5
<1>9. CASE d = MonthLength(y, m) /\ m < 12
  <2>1. Tomorrow = [y |-> y, m |-> m + 1, d |-> 1]
    <3>1. Tomorrow = [date EXCEPT !.d = 1, !.m = m + 1]
      BY <1>2, <1>3, <1>4, <1>9
    <3> QED
      BY <1>1, <3>1
  <2>2. ValidDate(Tomorrow)
    BY <1>3, <1>9, <2>1 DEF ValidDate, Date, MonthLength
  <2>3. CASE m = 2
    <3>1. MarchYear(Tomorrow) = y /\ MarchDay(Tomorrow) = 0
      BY <1>3, <2>1, <2>3, MonthTable DEF MarchYear, MarchDay
    <3>2. MarchYear(date) = y - 1 /\ MarchDay(date) = 336 + d
      BY <1>1, <1>3, <2>3, MonthTable DEF MarchYear, MarchDay
    <3>3. d = IF Leap(y) THEN 29 ELSE 28
      BY <1>9, <2>3 DEF MonthLength
    <3>4. DaysBeforeYear(y - 1) \in Int
      BY <1>3 DEF DaysBeforeYear
    <3> QED
      BY <1>3, <2>2, <3>1, <3>2, <3>3, <3>4, YearLength
  <2>4. CASE m # 2
    <3>1. MarchYear(Tomorrow) = MarchYear(date)
      BY <1>1, <1>3, <1>9, <2>1, <2>4 DEF MarchYear
    <3>2. MarchDay(Tomorrow) = MarchDay(date) + 1
      BY <1>1, <1>3, <1>9, <2>1, <2>4, MonthTable DEF MarchDay, MonthLength
    <3> QED
      BY <1>6, <2>2, <3>1, <3>2
  <2> QED
    BY <2>3, <2>4
<1>10. CASE d = MonthLength(y, m) /\ m = 12
  <2>1. d = 31
    BY <1>10 DEF MonthLength
  <2>2. Tomorrow = [y |-> y + 1, m |-> 1, d |-> 1]
    BY <1>1, <1>10, <1>4, <1>2, <1>5
  <2>3. ValidDate(Tomorrow)
    BY <1>3, <2>2 DEF ValidDate, Date, MonthLength
  <2>4. MarchYear(Tomorrow) = MarchYear(date)
    BY <1>1, <1>3, <1>10, <2>2 DEF MarchYear
  <2>5. MarchDay(Tomorrow) = MarchDay(date) + 1
    BY <1>1, <1>10, <2>1, <2>2, MonthTable DEF MarchDay
  <2> QED
    BY <1>6, <2>3, <2>4, <2>5
<1> QED
  BY <1>3, <1>8, <1>9, <1>10, <1>4

-----------------------------------------------------------------------------
(* The walk.                                                                  *)

(* The inductive invariant: today is a date, its number of days is the one    *)
(* days_from_civil computes, and the weekdays follow from it.                 *)
WalkInv ==
  /\ ValidDate(date)
  /\ days = DaysFromCivil(date)
  /\ weekday = (days + 4) % 7

(* The walk starts on a date with the right number.                           *)
LEMMA WalkStarts == Init => WalkInv
<1> SUFFICES ASSUME Init  PROVE WalkInv
  OBVIOUS
<1> DEFINE past == FirstYear - 1
<1>1. ValidDate(date)
  <2>1. FirstYear \in Nat \ {0}
    BY SMT, CalendarAssumption
  <2> QED
    BY SMT, <2>1 DEF Init, ValidDate, Date, MonthLength
<1>2. MarchYear(date) = past /\ MarchDay(date) = 306
  BY MonthTable DEF Init, MarchYear, MarchDay
<1>3. DaysFromCivil(date) = DaysBeforeYear(past) + 306 - 719468
  BY <1>1, <1>2, DaysOfYear
<1>4. DaysBeforeYear(past) \in Int /\ FirstDay = DaysBeforeYear(past) - 719162
  BY CalendarAssumption DEF DaysBeforeYear
<1>5. DaysFromCivil(date) = FirstDay
  BY SMT, <1>3, <1>4
<1> QED
  BY <1>1, <1>5 DEF WalkInv, Init

(* Every day of the walk keeps the invariant.                                 *)
LEMMA WalkGoesOn == WalkInv /\ [Next]_<<date, days, weekday>> => WalkInv'
<1> SUFFICES ASSUME WalkInv, [Next]_<<date, days, weekday>>  PROVE WalkInv'
  OBVIOUS
<1> USE DEF WalkInv
<1>1. CASE Next
  <2>1. date' = Tomorrow /\ days' = days + 1 /\ weekday' = (weekday + 1) % 7
    BY <1>1 DEF Next
  <2>2. ValidDate(Tomorrow) /\ DaysFromCivil(Tomorrow) = days + 1 /\ days \in Int
    BY TomorrowIsNext, CivilInverse
  <2>3. ValidDate(date')
    BY <2>1, <2>2
  <2>4. days' = DaysFromCivil(date')
    BY <2>1, <2>2
  <2>5. weekday' = (days' + 4) % 7
    BY <2>1, <2>2
  <2> QED
    BY <2>3, <2>4, <2>5
<1>2. CASE UNCHANGED <<date, days, weekday>>
  BY <1>2
<1> QED
  BY <1>1, <1>2

(* The walk and the count of days agree for ever.                             *)
LEMMA WalkInvariant == Spec => []WalkInv
BY WalkStarts, WalkGoesOn, PTL DEF Spec

(* days_from_civil and civil_from_days agree with the Gregorian calendar on   *)
(* every day, whatever the years walked: no pubtime and no Last-Modified date *)
(* is a day off, in leap years, century years and at era boundaries too.      *)
THEOREM ConversionsAreExact == Spec => []ConversionsAgree
<1>1. WalkInv => ConversionsAgree
  BY CivilInverse DEF WalkInv, ConversionsAgree
<1> QED
  BY <1>1, WalkInvariant, PTL

(* A second of a day is recovered from its hour, minute and second.           *)
LEMMA ClockParts ==
  ASSUME NEW clock \in Nat, clock < 86400
  PROVE  LET h  == clock \div 3600
             mi == (clock % 3600) \div 60
             s  == clock % 60
         IN  /\ h \in 0..23 /\ mi \in 0..59 /\ s \in 0..59
             /\ h * 3600 + mi * 60 + s = clock
             /\ clock \div SecsPerDay = 0 /\ clock % SecsPerDay = clock
<1> DEFINE h == clock \div 3600
           rest == clock % 3600
           mi == rest \div 60
           s == clock % 60
<1>1. h \in 0..23 /\ rest \in 0..3599 /\ clock = 3600 * h + rest
  OBVIOUS
<1>2. s = rest % 60
  <2> HIDE DEF h, rest
  <2>1. clock = 60 * (60 * h) + rest
    BY <1>1
  <2> QED
    BY <1>1, <2>1
<1>3. mi \in 0..59 /\ s \in 0..59 /\ rest = 60 * mi + s
  <2> HIDE DEF h, rest
  <2>1. rest % 60 \in 0..59 /\ rest = 60 * (rest \div 60) + (rest % 60)
    BY <1>1
  <2> QED
    BY <1>1, <1>2, <2>1
<1>4. clock \div SecsPerDay = 0 /\ clock % SecsPerDay = clock
  BY DEF SecsPerDay
<1>5. h * 3600 + mi * 60 + s = clock
  <2> HIDE DEF h, rest, mi, s
  <2> QED
    BY <1>1, <1>3
<1> QED
  BY <1>1, <1>3, <1>4, <1>5

(* A Last-Modified date comes back from its text unchanged, with the weekday  *)
(* of its day, and no date before 1970 is accepted.                           *)
THEOREM HttpDatesSurvive == Spec => []HttpDateRoundTrip
<1>1. ASSUME WalkInv  PROVE HttpDateRoundTrip
  <2> SUFFICES ASSUME NEW clock \in Clocks
               PROVE  LET time == [day |-> days, second |-> clock]
                          t    == FmtHttpDate(time)
                      IN  IF days >= 0
                          THEN t.weekday = weekday /\ ParseFields(t) = time
                          ELSE ParseFields([t EXCEPT !.date = date]) = None
    BY DEF HttpDateRoundTrip
  <2>1. clock \in Nat /\ clock < 86400
    BY SMT, CalendarAssumption
  <2>2. /\ days \in Int /\ days = DaysFromCivil(date) /\ CivilFromDays(days) = date
        /\ date.m \in 1..12 /\ date.d \in 1..31
    BY <1>1, CivilInverse DEF WalkInv, ValidDate, Date
  <2> DEFINE time == [day |-> days, second |-> clock]
             h == clock \div 3600
             mi == (clock % 3600) \div 60
             s == clock % 60
             t == FmtHttpDate(time)
  <2>3. t = [weekday |-> (days + 4) % 7, date |-> date, h |-> h, mi |-> mi, s |-> s]
    BY <2>2 DEF FmtHttpDate
  <2>4. /\ h \in 0..23 /\ mi \in 0..59 /\ s \in 0..59
        /\ h * 3600 + mi * 60 + s = clock
        /\ clock \div SecsPerDay = 0 /\ clock % SecsPerDay = clock
    BY <2>1, ClockParts
  <2> HIDE DEF h, mi, s, t
  <2>5. CASE days >= 0
    <3>1. ParseFields(t) = [day    |-> days + (h * 3600 + mi * 60 + s) \div SecsPerDay,
                            second |-> (h * 3600 + mi * 60 + s) % SecsPerDay]
      BY <2>2, <2>3, <2>4, <2>5 DEF ParseFields
    <3>2. ParseFields(t) = time
      BY <2>2, <2>4, <3>1
    <3> QED
      BY <1>1, <2>3, <2>5, <3>2 DEF t, WalkInv
  <2>6. CASE ~(days >= 0)
    <3>1. [t EXCEPT !.date = date] = t
      BY <2>3
    <3>2. ParseFields(t) = None
      BY <2>2, <2>3, <2>6 DEF ParseFields
    <3> QED
      BY <2>6, <3>1, <3>2 DEF t
  <2> QED
    BY <2>5, <2>6
<1> QED
  BY <1>1, WalkInvariant, PTL
=============================================================================
