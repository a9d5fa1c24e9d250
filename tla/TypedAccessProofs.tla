-------------------------- MODULE TypedAccessProofs --------------------------
(***************************************************************************)
(* What a date or a timestamp is read as, and what comes back of a value   *)
(* that is converted to another library's, proved for every text, every    *)
(* value of a library and every width of the integers.                     *)
(***************************************************************************)
EXTENDS TypedAccess, BytesLemmas

-----------------------------------------------------------------------------
(* Dates. *)

ValidDate(y, m, k) == y \in 0 .. 9999 /\ m \in 1 .. 12 /\ k \in 1 .. days_in_month(y, m)

DateRecord(y, m, k) == [type |-> "Date", year |-> y, month |-> m, day |-> k]

LEMMA DateCases ==
  ASSUME NEW y, NEW m, NEW k
  PROVE  /\ ValidDate(y, m, k) => Date(y, m, k) = DateRecord(y, m, k)
         /\ ~ValidDate(y, m, k) => Date(y, m, k) = None
         /\ DateRecord(y, m, k) # None
<1>1. DateRecord(y, m, k).type = "Date" /\ None.type = "None"
  BY DEF DateRecord, None
<1>2. DateRecord(y, m, k) # None
  BY <1>1
<1>3. Date(y, m, k) = IF ValidDate(y, m, k) THEN DateRecord(y, m, k) ELSE None
  BY SMT DEF Date, ValidDate, DateRecord
<1> QED BY <1>2, <1>3, Zenon

LEMMA MonthLength ==
  ASSUME NEW y \in Int, NEW m \in 1 .. 12
  PROVE  /\ days_in_month(y, m) \in 28 .. 31
         /\ m = 2 => days_in_month(y, m) = IF is_leap_year(y) THEN 29 ELSE 28
         /\ m \in {1, 3, 5, 7, 8, 10, 12} => days_in_month(y, m) = 31
         /\ m \in {4, 6, 9, 11} => days_in_month(y, m) = 30
<1> QED BY DEF days_in_month

LEMMA ValidParts ==
  ASSUME NEW y, NEW m, NEW k, ValidDate(y, m, k)
  PROVE  /\ y \in Int /\ m \in 1 .. 12 /\ k \in 1 .. days_in_month(y, m)
         /\ k \in Int /\ days_in_month(y, m) \in Int
<1>1. y \in Int /\ m \in 1 .. 12 /\ k \in 1 .. days_in_month(y, m)
  BY SMT DEF ValidDate
<1> QED BY <1>1, MonthLength

\* The year that begins in March, and in it the month from March and the first
\* day of that month.
MarchYear(y, m) == IF m <= 2 THEN y - 1 ELSE y
MarchMonth(m) == (m + 9) % 12
MonthStart(p) == (153 * p + 2) \div 5
DayOfYear(m, k) == MonthStart(MarchMonth(m)) + k - 1

\* The days before the first of March of a year.
DaysBefore(Y) == 365 * Y + Y \div 4 - Y \div 100 + Y \div 400

\* A year of the calendar that ends in February has a day more if that is in a
\* leap year.
LEMMA DaysBeforeNext ==
  ASSUME NEW Y \in Int
  PROVE  /\ DaysBefore(Y) \in Int
         /\ DaysBefore(Y + 1) = DaysBefore(Y) + IF is_leap_year(Y + 1) THEN 366 ELSE 365
<1> QED BY DEF DaysBefore, is_leap_year

LEMMA DaysBeforeInEra ==
  ASSUME NEW Y \in Int, NEW e, e = Y \div 400, NEW z, z = Y % 400
  PROVE  /\ DaysBefore(Y) = e * DAYS_PER_ERA + DaysInYears(z)
         /\ e \in Int /\ z \in 0 .. 399 /\ DaysInYears(z) \in Nat
<1> QED BY DEF DaysBefore, DAYS_PER_ERA, DaysInYears

LEMMA EraType == EPOCH \in Int /\ DAYS_PER_ERA \in Int
<1> QED BY SMT DEF EPOCH, DAYS_PER_ERA

\* days_since_epoch counts days as a calendar does.
LEMMA DayCount ==
  ASSUME NEW y \in Int, NEW m \in 1 .. 12, NEW k \in Int
  PROVE  /\ days_since_epoch(DateRecord(y, m, k)) =
              DaysBefore(MarchYear(y, m)) + DayOfYear(m, k) - EPOCH
         /\ MarchYear(y, m) \in Int
<1> DEFINE Y == MarchYear(y, m)
<1>1. Y \in Int
  BY DEF MarchYear
<1>2. /\ DateRecord(y, m, k).year = y /\ DateRecord(y, m, k).month = m
      /\ DateRecord(y, m, k).day = k
  BY DEF DateRecord
<1>3. days_since_epoch(DateRecord(y, m, k)) =
        (Y \div 400) * DAYS_PER_ERA + DaysInYears(Y % 400) + (MonthStart(MarchMonth(m)) + k - 1) - EPOCH
  BY <1>2 DEF days_since_epoch, MarchYear, MonthStart, MarchMonth
<1> HIDE DEF Y
<1>4. DaysBefore(Y) = (Y \div 400) * DAYS_PER_ERA + DaysInYears(Y % 400)
  BY <1>1, DaysBeforeInEra
<1>5. DayOfYear(m, k) \in Int /\ DayOfYear(m, k) = MonthStart(MarchMonth(m)) + k - 1
  BY DEF DayOfYear, MonthStart, MarchMonth
<1>6. (Y \div 400) * DAYS_PER_ERA + DaysInYears(Y % 400) \in Int /\ EPOCH \in Int
  BY <1>1 DEF DAYS_PER_ERA, DaysInYears, EPOCH
<1> QED BY <1>1, <1>3, <1>4, <1>5, <1>6 DEF Y

\* The day of a year that begins in March, for each of its months: how many a
\* month has is what is left before the next.
LEMMA MonthOfDay ==
  ASSUME NEW y \in Int, NEW m \in 1 .. 12, NEW k \in 1 .. days_in_month(y, m)
  PROVE  LET n == DayOfYear(m, k)
         IN  /\ n \in Int /\ 0 <= n /\ n <= 365
             /\ n = 365 => is_leap_year(MarchYear(y, m) + 1)
             /\ (5 * n + 2) \div 153 = MarchMonth(m)
             /\ n - MonthStart(MarchMonth(m)) + 1 = k
             /\ m = IF MarchMonth(m) < 10 THEN MarchMonth(m) + 3 ELSE MarchMonth(m) - 9
<1> DEFINE n == DayOfYear(m, k)
<1>1. /\ k \in 1 .. 31 /\ k \in Int
      /\ m = 2 => k <= 29 /\ (k = 29 => is_leap_year(y))
      /\ m \in {4, 6, 9, 11} => k <= 30
  BY MonthLength
<1>2. \/ m = 1 /\ MarchMonth(m) = 10 /\ n = 306 + k - 1
      \/ m = 2 /\ MarchMonth(m) = 11 /\ n = 337 + k - 1
      \/ m = 3 /\ MarchMonth(m) = 0 /\ n = k - 1
      \/ m = 4 /\ MarchMonth(m) = 1 /\ n = 31 + k - 1
      \/ m = 5 /\ MarchMonth(m) = 2 /\ n = 61 + k - 1
      \/ m = 6 /\ MarchMonth(m) = 3 /\ n = 92 + k - 1
      \/ m = 7 /\ MarchMonth(m) = 4 /\ n = 122 + k - 1
      \/ m = 8 /\ MarchMonth(m) = 5 /\ n = 153 + k - 1
      \/ m = 9 /\ MarchMonth(m) = 6 /\ n = 184 + k - 1
      \/ m = 10 /\ MarchMonth(m) = 7 /\ n = 214 + k - 1
      \/ m = 11 /\ MarchMonth(m) = 8 /\ n = 245 + k - 1
      \/ m = 12 /\ MarchMonth(m) = 9 /\ n = 275 + k - 1
  BY <1>1 DEF DayOfYear, MonthStart, MarchMonth
<1>3. n - MonthStart(MarchMonth(m)) + 1 = k /\ n \in Int
  BY <1>1 DEF DayOfYear, MonthStart, MarchMonth
<1>4. MarchYear(y, m) + 1 = y \/ m > 2
  BY DEF MarchYear
<1> HIDE DEF n
<1>5. (5 * n + 2) \div 153 = MarchMonth(m)
  BY <1>1, <1>2
<1>6. 0 <= n /\ n <= 365 /\ (n = 365 => m = 2 /\ k = 29)
  BY <1>1, <1>2
<1>7. m = IF MarchMonth(m) < 10 THEN MarchMonth(m) + 3 ELSE MarchMonth(m) - 9
  BY <1>2
<1>8. n = 365 => is_leap_year(MarchYear(y, m) + 1)
  BY <1>1, <1>4, <1>6
<1> QED BY <1>3, <1>5, <1>6, <1>7, <1>8 DEF n

\* The year of an era a day falls in: the corrections for every fourth,
\* hundredth and four hundredth year leave a number of days that is less than
\* a year short of the next multiple of 365.
YearOfEra(n) == (n - (n \div 1460) + (n \div 36524) - (n \div 146096)) \div 365

LEMMA YearOfDay ==
  ASSUME NEW y \in 0 .. 399, NEW n \in Int, 0 <= n, n <= 365,
         n = 365 => is_leap_year(y + 1)
  PROVE  LET day == DaysInYears(y) + n
         IN  /\ day \in Nat /\ day < DAYS_PER_ERA
             /\ YearOfEra(day) = y
<1> DEFINE c == y \div 100
           q == (y % 100) \div 4
           r == y % 4
           day == DaysInYears(y) + n
           rest == 1461 * q + 365 * r + n
<1>0. y \in Int /\ n \in Int /\ 0 <= y /\ y < 400 /\ 0 <= n /\ n <= 365
  OBVIOUS
<1>1. /\ c \in Int /\ 0 <= c /\ c <= 3 /\ q \in Int /\ 0 <= q /\ q <= 24
      /\ r \in Int /\ 0 <= r /\ r <= 3 /\ y = 100 * c + 4 * q + r
  BY <1>0
<1>2. y \div 4 = 25 * c + q /\ y \div 100 = c
  BY <1>0
<1>3. n = 365 => r = 3 /\ (q = 24 => c = 3)
  BY <1>0 DEF is_leap_year
<1> HIDE DEF c, q, r
<1>4. day = 36524 * c + rest /\ rest \in Int
  BY <1>0, <1>1, <1>2 DEF DaysInYears
<1>5. 0 <= rest /\ rest <= 36524 /\ (rest = 36524 => c = 3)
  BY <1>0, <1>1, <1>3
<1>6. day = 1460 * (25 * c + q) + (24 * c + q + 365 * r + n)
  BY <1>0, <1>1, <1>4
<1> HIDE DEF day, rest
<1>7. day \in Int /\ 0 <= day /\ day <= 146096
  BY <1>1, <1>4, <1>5
<1>8. (day \div 36524) - (day \div 146096) = c
  <2>1. CASE rest = 36524
    <3>1. day = 146096 /\ c = 3
      BY <1>4, <1>5, <2>1
    <3> QED BY <3>1
  <2>2. CASE rest < 36524
    <3>1. day \div 36524 = c
      BY <1>1, <1>4, <1>5, <2>2
    <3>2. day \div 146096 = 0
      BY <1>1, <1>4, <1>5, <2>2
    <3> QED BY <1>1, <3>1, <3>2
  <2> QED BY <1>4, <1>5, <2>1, <2>2
<1> DEFINE left == 24 * c + q + 365 * r + n
           corrected == day - (day \div 1460) + (day \div 36524) - (day \div 146096)
<1>9. left \in Int /\ 0 <= left /\ left <= 1556 /\ day = 1460 * (25 * c + q) + left
      /\ (n = 365 => left >= 1460) /\ (n = 0 => left < 1460)
  BY <1>0, <1>1, <1>3, <1>6
<1>10. corrected = 36524 * c + rest - (day \div 1460) + c
  <2>1. day \div 36524 \in Int /\ day \div 146096 \in Int /\ day \div 1460 \in Int
    BY <1>7
  <2> QED BY <1>1, <1>4, <1>7, <1>8, <2>1
<1>11. 36524 * c + rest = 365 * y + n + 24 * c + q
  BY <1>0, <1>1 DEF rest
<1> HIDE DEF left, corrected
<1>12. CASE left < 1460
  <2>1. day \div 1460 = 25 * c + q
    BY <1>1, <1>9, <1>12
  <2>2. corrected = 365 * y + n
    BY <1>0, <1>1, <1>4, <1>10, <1>11, <2>1
  <2>3. (365 * y + n) \div 365 = y
    BY <1>0, <1>9, <1>12
  <2> QED BY <1>7, <2>2, <2>3 DEF YearOfEra, DAYS_PER_ERA, day, corrected
<1>13. CASE left >= 1460
  <2>1. day \div 1460 = 25 * c + q + 1
    BY <1>1, <1>9, <1>13
  <2>2. corrected = 365 * y + n - 1
    BY <1>0, <1>1, <1>4, <1>10, <1>11, <2>1
  <2>3. (365 * y + n - 1) \div 365 = y
    BY <1>0, <1>9, <1>13
  <2> QED BY <1>7, <2>2, <2>3 DEF YearOfEra, DAYS_PER_ERA, day, corrected
<1> QED BY <1>9, <1>12, <1>13

\* from_days_since_epoch, of a day of an era.
DateOfDay(e, day) ==
  LET z == YearOfEra(day)
      n == day - DaysInYears(z)
      p == (5 * n + 2) \div 153
      m == IF p < 10 THEN p + 3 ELSE p - 9
  IN  Date(e * 400 + z + (IF m <= 2 THEN 1 ELSE 0), m, n - MonthStart(p) + 1)

LEMMA DateOfDayOfEra ==
  ASSUME NEW days
  PROVE  from_days_since_epoch(days) =
           DateOfDay((days + EPOCH) \div DAYS_PER_ERA, (days + EPOCH) % DAYS_PER_ERA)
<1> QED BY SMT DEF from_days_since_epoch, DateOfDay, YearOfEra, MonthStart

\* from_days_since_epoch undoes days_since_epoch.
LEMMA DaysGiveTheDate ==
  ASSUME NEW y \in Int, NEW m \in 1 .. 12, NEW k \in 1 .. days_in_month(y, m)
  PROVE  from_days_since_epoch(days_since_epoch(DateRecord(y, m, k))) = Date(y, m, k)
<1> DEFINE Y == MarchYear(y, m)
           e == Y \div 400
           z == Y % 400
           n == DayOfYear(m, k)
           day == DaysInYears(z) + n
           days == days_since_epoch(DateRecord(y, m, k))
<1>0. k \in Int
  BY MonthLength
<1>1. days = DaysBefore(Y) + n - EPOCH /\ Y \in Int
  BY <1>0, DayCount
<1>2. y = Y + (IF m <= 2 THEN 1 ELSE 0)
  BY DEF MarchYear
<1>3. /\ n \in Int /\ 0 <= n /\ n <= 365
      /\ n = 365 => is_leap_year(Y + 1)
      /\ (5 * n + 2) \div 153 = MarchMonth(m)
      /\ n - MonthStart(MarchMonth(m)) + 1 = k
      /\ m = IF MarchMonth(m) < 10 THEN MarchMonth(m) + 3 ELSE MarchMonth(m) - 9
  BY MonthOfDay
<1> HIDE DEF Y, n, days
<1>4. /\ DaysBefore(Y) = e * DAYS_PER_ERA + DaysInYears(z)
      /\ e \in Int /\ z \in 0 .. 399 /\ DaysInYears(z) \in Nat
  BY <1>1, DaysBeforeInEra
<1>5. Y = e * 400 + z /\ (is_leap_year(Y + 1) <=> is_leap_year(z + 1))
  BY <1>1 DEF is_leap_year
<1> HIDE DEF e, z
<1>6. day \in Nat /\ day < DAYS_PER_ERA /\ YearOfEra(day) = z
  <2>1. n = 365 => is_leap_year(z + 1)
    BY <1>3, <1>5
  <2> QED BY <1>3, <1>4, <2>1, YearOfDay
<1>7. day - DaysInYears(z) = n /\ day \in Int
  BY <1>3, <1>4
<1>8. days + EPOCH = e * DAYS_PER_ERA + day
  <2>1. days = e * DAYS_PER_ERA + DaysInYears(z) + n - EPOCH
    BY <1>1, <1>4
  <2>2. e * DAYS_PER_ERA \in Int /\ EPOCH \in Int
    BY <1>4, EraType
  <2> QED BY <1>3, <1>4, <2>1, <2>2
<1> HIDE DEF day
<1>9. (days + EPOCH) \div DAYS_PER_ERA = e /\ (days + EPOCH) % DAYS_PER_ERA = day
  BY <1>4, <1>6, <1>7, <1>8, SMT DEF DAYS_PER_ERA
<1>10. e * 400 + z + (IF m <= 2 THEN 1 ELSE 0) = y
  BY <1>1, <1>2, <1>4, <1>5
<1>11. from_days_since_epoch(days) = Date(y, m, k)
  <2> DEFINE p == MarchMonth(m)
             g == IF p < 10 THEN p + 3 ELSE p - 9
  <2>0. from_days_since_epoch(days) = DateOfDay(e, day)
    BY <1>9, DateOfDayOfEra, Zenon
  <2>1. DateOfDay(e, day) = Date(e * 400 + z + (IF g <= 2 THEN 1 ELSE 0), g, n - MonthStart(p) + 1)
    BY <1>3, <1>6, <1>7 DEF DateOfDay
  <2>2. g = m
    BY <1>3
  <2> HIDE DEF g, p
  <2> QED BY <1>3, <1>10, <2>0, <2>1, <2>2 DEF p
<1> QED BY <1>11 DEF days

\* Every day of an era is one of a year of it, and the last of that only if the
\* year has 366.
LEMMA EraYears ==
  ASSUME NEW day \in Int, 0 <= day, day <= 146096
  PROVE  \E z, n \in Int :
            /\ 0 <= z /\ z < 400 /\ 0 <= n /\ n <= 365 /\ (n = 365 => is_leap_year(z + 1))
            /\ day = DaysInYears(z) + n
<1>1. CASE day = 146096
  <2>1. DaysInYears(399) = 145731 /\ is_leap_year(399 + 1) /\ 399 \in Int /\ 0 <= 399 /\ 399 < 400
    BY DEF DaysInYears, is_leap_year
  <2>2. day = DaysInYears(399) + 365 /\ 365 \in Int /\ 0 <= 365
    BY <1>1, <2>1
  <2> QED BY <2>1, <2>2
<1>2. CASE day < 146096
  <2> DEFINE c == day \div 36524
             rest == day - 36524 * c
             q == rest \div 1461
             left == rest - 1461 * q
             r == IF left = 1460 THEN 3 ELSE left \div 365
             z == 100 * c + 4 * q + r
             n == left - 365 * r
  <2>1. c \in Int /\ 0 <= c /\ c <= 3 /\ rest \in Int /\ 0 <= rest /\ rest <= 36523
    BY <1>2
  <2> HIDE DEF c, rest
  <2>2. q \in Int /\ 0 <= q /\ q <= 24 /\ left \in Int /\ 0 <= left /\ left <= 1460
        /\ (left = 1460 => q < 24) /\ rest = 1461 * q + left
    BY <2>1
  <2> HIDE DEF q, left
  <2>3. r \in Int /\ 0 <= r /\ r <= 3 /\ n \in Int /\ 0 <= n /\ n <= 365
        /\ (n = 365 => r = 3 /\ q < 24) /\ left = 365 * r + n
    BY <2>2
  <2> HIDE DEF r, n
  <2>4. z \in Int /\ 0 <= z /\ z < 400 /\ z \div 4 = 25 * c + q /\ z \div 100 = c
    BY <2>1, <2>2, <2>3
  <2>5. day = 36524 * c + rest
    BY <1>2, <2>1 DEF rest
  <2>6. day = DaysInYears(z) + n
    BY <2>1, <2>2, <2>3, <2>4, <2>5 DEF DaysInYears
  <2>7. n = 365 => is_leap_year(z + 1)
    <3> SUFFICES ASSUME n = 365 PROVE is_leap_year(z + 1)
      OBVIOUS
    <3>1. z + 1 = 100 * c + 4 * (q + 1) /\ q + 1 <= 24 /\ q + 1 >= 1
      BY <2>1, <2>2, <2>3
    <3>2. (z + 1) % 4 = 0 /\ (z + 1) % 100 # 0
      BY <2>1, <2>2, <3>1
    <3> QED BY <3>2 DEF is_leap_year
  <2> HIDE DEF z
  <2> QED BY <2>3, <2>4, <2>6, <2>7
<1> QED BY <1>1, <1>2

\* Every day of a year that begins in March is one of a month.
LEMMA YearMonths ==
  ASSUME NEW Y \in Int, NEW n \in Int, 0 <= n, n <= 365, n = 365 => is_leap_year(Y + 1)
  PROVE  \E y \in Int, m \in 1 .. 12 : \E k \in 1 .. days_in_month(y, m) :
            MarchYear(y, m) = Y /\ DayOfYear(m, k) = n
<1> DEFINE IsDay(y, m, k) == /\ k \in 1 .. days_in_month(y, m)
                             /\ MarchYear(y, m) = Y /\ DayOfYear(m, k) = n
           Found == \E y \in Int, m \in 1 .. 12 : \E k \in 1 .. days_in_month(y, m) :
                       MarchYear(y, m) = Y /\ DayOfYear(m, k) = n
<1>1. ASSUME NEW y \in Int, NEW m \in 1 .. 12, NEW k, IsDay(y, m, k) PROVE Found
  BY <1>1
<1> SUFFICES Found
  OBVIOUS
<1> HIDE DEF Found
<1>2. CASE n < 31
  <2>1. IsDay(Y, 3, n + 1)
    BY <1>2 DEF days_in_month, MarchYear, DayOfYear, MonthStart, MarchMonth
  <2> HIDE DEF IsDay
  <2>2. Y \in Int /\ 3 \in 1 .. 12
    OBVIOUS
  <2> QED BY <1>1, <2>1, <2>2, Zenon
<1>3. CASE 31 <= n /\ n < 61
  <2>1. IsDay(Y, 4, n - 30)
    BY <1>3 DEF days_in_month, MarchYear, DayOfYear, MonthStart, MarchMonth
  <2> HIDE DEF IsDay
  <2>2. Y \in Int /\ 4 \in 1 .. 12
    OBVIOUS
  <2> QED BY <1>1, <2>1, <2>2, Zenon
<1>4. CASE 61 <= n /\ n < 92
  <2>1. IsDay(Y, 5, n - 60)
    BY <1>4 DEF days_in_month, MarchYear, DayOfYear, MonthStart, MarchMonth
  <2> HIDE DEF IsDay
  <2>2. Y \in Int /\ 5 \in 1 .. 12
    OBVIOUS
  <2> QED BY <1>1, <2>1, <2>2, Zenon
<1>5. CASE 92 <= n /\ n < 122
  <2>1. IsDay(Y, 6, n - 91)
    BY <1>5 DEF days_in_month, MarchYear, DayOfYear, MonthStart, MarchMonth
  <2> HIDE DEF IsDay
  <2>2. Y \in Int /\ 6 \in 1 .. 12
    OBVIOUS
  <2> QED BY <1>1, <2>1, <2>2, Zenon
<1>6. CASE 122 <= n /\ n < 153
  <2>1. IsDay(Y, 7, n - 121)
    BY <1>6 DEF days_in_month, MarchYear, DayOfYear, MonthStart, MarchMonth
  <2> HIDE DEF IsDay
  <2>2. Y \in Int /\ 7 \in 1 .. 12
    OBVIOUS
  <2> QED BY <1>1, <2>1, <2>2, Zenon
<1>7. CASE 153 <= n /\ n < 184
  <2>1. IsDay(Y, 8, n - 152)
    BY <1>7 DEF days_in_month, MarchYear, DayOfYear, MonthStart, MarchMonth
  <2> HIDE DEF IsDay
  <2>2. Y \in Int /\ 8 \in 1 .. 12
    OBVIOUS
  <2> QED BY <1>1, <2>1, <2>2, Zenon
<1>8. CASE 184 <= n /\ n < 214
  <2>1. IsDay(Y, 9, n - 183)
    BY <1>8 DEF days_in_month, MarchYear, DayOfYear, MonthStart, MarchMonth
  <2> HIDE DEF IsDay
  <2>2. Y \in Int /\ 9 \in 1 .. 12
    OBVIOUS
  <2> QED BY <1>1, <2>1, <2>2, Zenon
<1>9. CASE 214 <= n /\ n < 245
  <2>1. IsDay(Y, 10, n - 213)
    BY <1>9 DEF days_in_month, MarchYear, DayOfYear, MonthStart, MarchMonth
  <2> HIDE DEF IsDay
  <2>2. Y \in Int /\ 10 \in 1 .. 12
    OBVIOUS
  <2> QED BY <1>1, <2>1, <2>2, Zenon
<1>10. CASE 245 <= n /\ n < 275
  <2>1. IsDay(Y, 11, n - 244)
    BY <1>10 DEF days_in_month, MarchYear, DayOfYear, MonthStart, MarchMonth
  <2> HIDE DEF IsDay
  <2>2. Y \in Int /\ 11 \in 1 .. 12
    OBVIOUS
  <2> QED BY <1>1, <2>1, <2>2, Zenon
<1>11. CASE 275 <= n /\ n < 306
  <2>1. IsDay(Y, 12, n - 274)
    BY <1>11 DEF days_in_month, MarchYear, DayOfYear, MonthStart, MarchMonth
  <2> HIDE DEF IsDay
  <2>2. Y \in Int /\ 12 \in 1 .. 12
    OBVIOUS
  <2> QED BY <1>1, <2>1, <2>2, Zenon
<1>12. CASE 306 <= n /\ n < 337
  <2>1. IsDay(Y + 1, 1, n - 305)
    BY <1>12 DEF days_in_month, MarchYear, DayOfYear, MonthStart, MarchMonth
  <2> HIDE DEF IsDay
  <2>2. Y + 1 \in Int /\ 1 \in 1 .. 12
    OBVIOUS
  <2> QED BY <1>1, <2>1, <2>2, Zenon
<1>13. CASE 337 <= n
  <2>1. n - 336 \in 1 .. days_in_month(Y + 1, 2)
    <3>1. CASE n = 365
      BY <3>1 DEF days_in_month
    <3>2. CASE n # 365
      BY <1>13, <3>2 DEF days_in_month
    <3> QED BY <3>1, <3>2
  <2>2. IsDay(Y + 1, 2, n - 336)
    BY <1>13, <2>1 DEF MarchYear, DayOfYear, MonthStart, MarchMonth
  <2> HIDE DEF IsDay
  <2>3. Y + 1 \in Int /\ 2 \in 1 .. 12
    OBVIOUS
  <2> QED BY <1>1, <2>2, <2>3
<1> QED BY <1>2, <1>3, <1>4, <1>5, <1>6, <1>7, <1>8, <1>9, <1>10, <1>11, <1>12, <1>13

-----------------------------------------------------------------------------
(* Counting one day at a time. *)

\* The first day of a month comes after the last of the month before.
LEMMA MonthAfterMonth ==
  ASSUME NEW y \in Int, NEW m \in 1 .. 11, NEW k, k = days_in_month(y, m)
  PROVE  days_since_epoch(DateRecord(y, m + 1, 1)) = days_since_epoch(DateRecord(y, m, k)) + 1
<1>1. k \in Int /\ m \in 1 .. 12 /\ m + 1 \in 1 .. 12 /\ 1 \in Int
  BY MonthLength
<1>2. /\ days_since_epoch(DateRecord(y, m, k)) =
           DaysBefore(MarchYear(y, m)) + DayOfYear(m, k) - EPOCH
      /\ MarchYear(y, m) \in Int
  BY <1>1, DayCount
<1>3. /\ days_since_epoch(DateRecord(y, m + 1, 1)) =
           DaysBefore(MarchYear(y, m + 1)) + DayOfYear(m + 1, 1) - EPOCH
      /\ MarchYear(y, m + 1) \in Int
  BY <1>1, DayCount
<1>4. DaysBefore(MarchYear(y, m + 1)) + DayOfYear(m + 1, 1) =
        DaysBefore(MarchYear(y, m)) + DayOfYear(m, k) + 1
  <2>1. CASE m = 2
    <3>1. MarchYear(y, m + 1) = y /\ MarchYear(y, m) = y - 1
      BY <2>1 DEF MarchYear
    <3>2. DayOfYear(m + 1, 1) = 0 /\ DayOfYear(m, k) = 337 + k - 1
      BY <1>1, <2>1 DEF DayOfYear, MonthStart, MarchMonth
    <3>3. k = IF is_leap_year(y) THEN 29 ELSE 28
      BY <1>1, <2>1, MonthLength
    <3>4. /\ DaysBefore(y - 1) \in Int
          /\ DaysBefore(y) = DaysBefore(y - 1) + IF is_leap_year(y) THEN 366 ELSE 365
      BY DaysBeforeNext, y - 1 \in Int, (y - 1) + 1 = y
    <3> QED BY <3>1, <3>2, <3>3, <3>4
  <2>2. CASE m # 2
    <3>1. MarchYear(y, m + 1) = MarchYear(y, m)
      BY <2>2 DEF MarchYear
    <3>2. DayOfYear(m + 1, 1) = DayOfYear(m, k) + 1
      BY <2>2 DEF DayOfYear, MonthStart, MarchMonth, days_in_month
    <3>3. DayOfYear(m, k) \in Int /\ DaysBefore(MarchYear(y, m)) \in Int
      BY <1>1, <1>2, DaysBeforeNext DEF DayOfYear, MonthStart, MarchMonth
    <3> QED BY <3>1, <3>2, <3>3
  <2> QED BY <2>1, <2>2
<1>5. /\ DayOfYear(m, k) \in Int /\ DaysBefore(MarchYear(y, m)) \in Int
      /\ DayOfYear(m + 1, 1) \in Int /\ DaysBefore(MarchYear(y, m + 1)) \in Int
  BY <1>1, <1>2, <1>3, DaysBeforeNext DEF DayOfYear, MonthStart, MarchMonth
<1> QED BY <1>2, <1>3, <1>4, <1>5, EraType

\* The day after one of the month, of the year, and of the last of December.
LEMMA DayAfterDay ==
  ASSUME NEW y \in Int, NEW m \in 1 .. 12, NEW k \in Int
  PROVE  /\ days_since_epoch(DateRecord(y, m, k + 1)) = days_since_epoch(DateRecord(y, m, k)) + 1
         /\ days_since_epoch(DateRecord(y + 1, 1, 1)) = days_since_epoch(DateRecord(y, 12, 31)) + 1
         /\ days_since_epoch(DateRecord(y, m, k)) \in Int
<1>1. /\ days_since_epoch(DateRecord(y, m, k)) =
           DaysBefore(MarchYear(y, m)) + DayOfYear(m, k) - EPOCH
      /\ MarchYear(y, m) \in Int
  BY DayCount
<1>2. days_since_epoch(DateRecord(y, m, k + 1)) =
        DaysBefore(MarchYear(y, m)) + DayOfYear(m, k + 1) - EPOCH
  <2>1. k + 1 \in Int
    OBVIOUS
  <2> QED BY <2>1, DayCount, Zenon
<1>3. days_since_epoch(DateRecord(y, 12, 31)) =
        DaysBefore(MarchYear(y, 12)) + DayOfYear(12, 31) - EPOCH
  BY DayCount
<1>4. days_since_epoch(DateRecord(y + 1, 1, 1)) =
        DaysBefore(MarchYear(y + 1, 1)) + DayOfYear(1, 1) - EPOCH
  BY DayCount
<1>5. MarchYear(y, 12) = y /\ MarchYear(y + 1, 1) = y
  BY DEF MarchYear
<1>6. /\ DayOfYear(m, k) \in Int /\ DayOfYear(m, k + 1) = DayOfYear(m, k) + 1
      /\ DayOfYear(12, 31) = 305 /\ DayOfYear(1, 1) = 306
  BY DEF DayOfYear, MonthStart, MarchMonth
<1>7. DaysBefore(y) \in Int /\ DaysBefore(MarchYear(y, m)) \in Int
  BY <1>1, DaysBeforeNext
<1> QED BY <1>1, <1>2, <1>3, <1>4, <1>5, <1>6, <1>7, EraType

LEMMA NextDayIsNext ==
  ASSUME NEW y, NEW m, NEW k, ValidDate(y, m, k)
  PROVE  LET days == days_since_epoch(DateRecord(y, m, k))
             next == NextDay(DateRecord(y, m, k))
         IN  /\ from_days_since_epoch(days + 1) = next
             /\ next # None => days_since_epoch(next) = days + 1
<1> DEFINE days == days_since_epoch(DateRecord(y, m, k))
           next == NextDay(DateRecord(y, m, k))
           IsNext(yy, mm, kk) == /\ yy \in Int /\ mm \in 1 .. 12 /\ kk \in 1 .. days_in_month(yy, mm)
                               /\ next = Date(yy, mm, kk)
                               /\ days_since_epoch(DateRecord(yy, mm, kk)) = days + 1
           Goal == /\ from_days_since_epoch(days + 1) = next
                   /\ next # None => days_since_epoch(next) = days + 1
<1> SUFFICES Goal
  OBVIOUS
<1>0. y \in Int /\ m \in 1 .. 12 /\ k \in 1 .. days_in_month(y, m) /\ k \in Int
      /\ days_in_month(y, m) \in Int
  BY ValidParts
<1>1. next = IF Date(y, m, k + 1) # None THEN Date(y, m, k + 1)
             ELSE IF Date(y, m + 1, 1) # None THEN Date(y, m + 1, 1)
             ELSE Date(y + 1, 1, 1)
  BY DEF NextDay, DateRecord
<1>2. ASSUME NEW yy, NEW mm, NEW kk, IsNext(yy, mm, kk)
      PROVE  Goal
  <2>1. from_days_since_epoch(days_since_epoch(DateRecord(yy, mm, kk))) = Date(yy, mm, kk)
    BY <1>2, DaysGiveTheDate
  <2>2. next # None => next = DateRecord(yy, mm, kk)
    BY <1>2, DateCases
  <2> HIDE DEF days, next
  <2> QED BY <1>2, <2>1, <2>2
<1>3. CASE k < days_in_month(y, m)
  <2>1. ValidDate(y, m, k + 1) /\ k + 1 \in 1 .. days_in_month(y, m)
    BY <1>0, <1>3, SMT DEF ValidDate
  <2>2. next = Date(y, m, k + 1)
    BY <1>1, <2>1, DateCases, Zenon
  <2>3. days_since_epoch(DateRecord(y, m, k + 1)) = days + 1
    BY <1>0, DayAfterDay, Zenon
  <2>4. IsNext(y, m, k + 1)
    BY <1>0, <2>1, <2>2, <2>3, Zenon
  <2> HIDE DEF days, next, IsNext, Goal
  <2> QED BY <1>2, <2>4, Zenon
<1>4. CASE k = days_in_month(y, m) /\ m < 12
  <2>1. ~ValidDate(y, m, k + 1) /\ m + 1 \in 1 .. 12 /\ m \in 1 .. 11
    BY <1>0, <1>4, SMT DEF ValidDate
  <2>2. 1 \in 1 .. days_in_month(y, m + 1)
    BY <1>0, <2>1, MonthLength
  <2>3. ValidDate(y, m + 1, 1)
    BY <1>0, <2>1, <2>2 DEF ValidDate
  <2>4. next = Date(y, m + 1, 1)
    BY <1>1, <2>1, <2>3, DateCases, Zenon
  <2>5. days_since_epoch(DateRecord(y, m + 1, 1)) = days + 1
    BY <1>0, <1>4, <2>1, MonthAfterMonth, Zenon
  <2>6. IsNext(y, m + 1, 1)
    BY <1>0, <2>1, <2>2, <2>4, <2>5, Zenon
  <2> HIDE DEF days, next, IsNext, Goal
  <2> QED BY <1>2, <2>6, Zenon
<1>5. CASE k = days_in_month(y, m) /\ m = 12
  <2>1. k = 31
    BY <1>0, <1>5, MonthLength
  <2>2. ~ValidDate(y, m, k + 1) /\ ~ValidDate(y, m + 1, 1)
    BY <1>0, <1>5, SMT DEF ValidDate
  <2>3. next = Date(y + 1, 1, 1)
    BY <1>1, <2>2, DateCases, Zenon
  <2>4. days_since_epoch(DateRecord(y + 1, 1, 1)) = days + 1
    BY <1>0, <1>5, <2>1, DayAfterDay
  <2>5. 1 \in 1 .. days_in_month(y + 1, 1) /\ 1 \in 1 .. 12 /\ y + 1 \in Int
    BY <1>0, MonthLength
  <2>6. IsNext(y + 1, 1, 1)
    BY <2>3, <2>4, <2>5, Zenon
  <2> HIDE DEF days, next, IsNext, Goal
  <2> QED BY <1>2, <2>6, Zenon
<1>6. k < days_in_month(y, m) \/ (k = days_in_month(y, m) /\ m < 12)
      \/ (k = days_in_month(y, m) /\ m = 12)
  BY <1>0
<1> QED BY <1>3, <1>4, <1>5, <1>6, Zenon

LEMMA EpochIsDayZero == days_since_epoch(Date(1970, 1, 1)) = 0
<1>1. Date(1970, 1, 1).year = 1970 /\ Date(1970, 1, 1).month = 1 /\ Date(1970, 1, 1).day = 1
  BY SMT DEF Date, days_in_month
<1> QED BY <1>1, SMT DEF days_since_epoch, DaysInYears, EPOCH, DAYS_PER_ERA

-----------------------------------------------------------------------------
(* The days of a timestamp. *)

\* The days of a timestamp all have a date, which from_days_since_epoch finds.
LAST_DAY == 106751

LEMMA DaysHaveADate ==
  ASSUME NEW days \in Int, -LAST_DAY - 1 <= days, days <= LAST_DAY
  PROVE  \E y, m, k :
            /\ ValidDate(y, m, k)
            /\ days_since_epoch(DateRecord(y, m, k)) = days
            /\ from_days_since_epoch(days) = DateRecord(y, m, k)
<1> DEFINE e == (days + EPOCH) \div DAYS_PER_ERA
           day == (days + EPOCH) % DAYS_PER_ERA
<1>1. /\ e \in Int /\ day \in Int /\ 0 <= day /\ day <= 146096
      /\ days + EPOCH = e * DAYS_PER_ERA + day
  BY SMT DEF EPOCH, DAYS_PER_ERA
<1> HIDE DEF e, day
<1>2. PICK z, n \in Int : /\ 0 <= z /\ z < 400
                         /\ 0 <= n /\ n <= 365 /\ (n = 365 => is_leap_year(z + 1))
                         /\ day = DaysInYears(z) + n
  BY <1>1, EraYears
<1> DEFINE Y == 400 * e + z
<1>3. Y \in Int /\ Y \div 400 = e /\ Y % 400 = z
  BY <1>1, <1>2, SMT
<1>4. days = DaysBefore(Y) + n - EPOCH /\ DaysBefore(Y) \in Int
  <2> HIDE DEF Y
  <2>1. DaysBefore(Y) = e * DAYS_PER_ERA + DaysInYears(z) /\ DaysInYears(z) \in Nat
    <3>1. Y \in Int /\ e = Y \div 400 /\ z = Y % 400
      BY <1>3
    <3>2. DaysBefore(Y) = e * DAYS_PER_ERA + DaysInYears(z)
      BY <3>1, SMT DEF DaysBefore, DAYS_PER_ERA, DaysInYears
    <3>3. DaysInYears(z) \in Nat
      BY <3>1, DaysBeforeInEra, ZenonT(40)
    <3> QED BY <3>2, <3>3
  <2>2. e * DAYS_PER_ERA \in Int /\ EPOCH \in Int
    BY <1>1, EraType
  <2> DEFINE before == DaysBefore(Y)
             rest == DaysInYears(z)
             whole == e * DAYS_PER_ERA
  <2>3. before = whole + rest /\ rest \in Int /\ whole \in Int
    BY <2>1, <2>2
  <2>4. days + EPOCH = whole + (rest + n)
    BY <1>1, <1>2
  <2> HIDE DEF before, rest, whole
  <2>5. days = before + n - EPOCH /\ before \in Int
    BY <1>2, <2>2, <2>3, <2>4, SMT
  <2> QED BY <2>5 DEF before
<1> HIDE DEF Y
<1>5. n = 365 => is_leap_year(Y + 1)
  <2>1. (Y + 1) % 4 = (z + 1) % 4 /\ (Y + 1) % 400 = (z + 1) % 400 /\ (Y + 1) % 100 = (z + 1) % 100
    BY <1>1, <1>2, SMT DEF Y
  <2> QED BY <1>2, <2>1, SMT DEF is_leap_year
<1>6. PICK y \in Int, m \in 1 .. 12 : \E k \in 1 .. days_in_month(y, m) :
                                         MarchYear(y, m) = Y /\ DayOfYear(m, k) = n
  BY <1>2, <1>3, <1>5, YearMonths
<1>7. PICK k \in 1 .. days_in_month(y, m) : MarchYear(y, m) = Y /\ DayOfYear(m, k) = n
  BY <1>6
<1>8. days_since_epoch(DateRecord(y, m, k)) = days
  <2>1. k \in Int
    BY MonthLength
  <2>2. days_since_epoch(DateRecord(y, m, k)) =
          DaysBefore(MarchYear(y, m)) + DayOfYear(m, k) - EPOCH
    BY <2>1, DayCount
  <2> QED BY <1>4, <1>7, <2>2
<1>9. from_days_since_epoch(days) = Date(y, m, k)
  BY <1>8, DaysGiveTheDate
<1>10. y \in 0 .. 9999
  <2>1. 0 < Y /\ Y < 9000
    BY <1>2, <1>3, <1>4, SMT DEF DaysBefore, EPOCH, LAST_DAY
  <2>2. Y = y \/ Y = y - 1
    BY <1>7 DEF MarchYear
  <2>3. 0 <= y /\ y <= 9999
    BY <1>3, <2>1, <2>2
  <2> QED BY <2>3, SMTT(30)
<1>11. ValidDate(y, m, k)
  BY <1>7, <1>10, SMT DEF ValidDate
<1>12. Date(y, m, k) = DateRecord(y, m, k)
  BY <1>11, DateCases
<1> QED BY <1>8, <1>9, <1>11, <1>12, Zenon

\* A date that has more days than another is later than that.
LEMMA DaysOrderDates ==
  ASSUME NEW y1 \in Int, NEW m1 \in 1 .. 12, NEW k1 \in 1 .. days_in_month(y1, m1),
         NEW y2 \in Int, NEW m2 \in 1 .. 12, NEW k2 \in 1 .. days_in_month(y2, m2),
         days_since_epoch(DateRecord(y1, m1, k1)) < days_since_epoch(DateRecord(y2, m2, k2))
  PROVE  \/ y1 < y2
         \/ y1 = y2 /\ m1 < m2
         \/ y1 = y2 /\ m1 = m2 /\ k1 < k2
<1> DEFINE Y1 == MarchYear(y1, m1)
           Y2 == MarchYear(y2, m2)
           n1 == DayOfYear(m1, k1)
           n2 == DayOfYear(m2, k2)
<1>1. k1 \in Int /\ k2 \in Int
  BY MonthLength
<1>2. /\ days_since_epoch(DateRecord(y1, m1, k1)) = DaysBefore(Y1) + n1 - EPOCH
      /\ days_since_epoch(DateRecord(y2, m2, k2)) = DaysBefore(Y2) + n2 - EPOCH
      /\ Y1 \in Int /\ Y2 \in Int
  BY <1>1, DayCount
<1>3. /\ n1 \in Int /\ 0 <= n1 /\ n1 <= 365 /\ n2 \in Int /\ 0 <= n2 /\ n2 <= 365
      /\ n1 = 365 => is_leap_year(Y1 + 1)
      /\ n2 = 365 => is_leap_year(Y2 + 1)
      /\ (5 * n1 + 2) \div 153 = MarchMonth(m1) /\ (5 * n2 + 2) \div 153 = MarchMonth(m2)
  <2>1. /\ n1 \in Int /\ 0 <= n1 /\ n1 <= 365
        /\ n1 = 365 => is_leap_year(Y1 + 1)
        /\ (5 * n1 + 2) \div 153 = MarchMonth(m1)
    BY MonthOfDay, SMTT(30)
  <2>2. /\ n2 \in Int /\ 0 <= n2 /\ n2 <= 365
        /\ n2 = 365 => is_leap_year(Y2 + 1)
        /\ (5 * n2 + 2) \div 153 = MarchMonth(m2)
    BY MonthOfDay, SMTT(30)
  <2> HIDE DEF n1, n2, Y1, Y2
  <2> QED BY <2>1, <2>2
<1>4. DaysBefore(Y1) + n1 < DaysBefore(Y2) + n2
  <2>1. DaysBefore(Y1) \in Int /\ DaysBefore(Y2) \in Int /\ EPOCH \in Int
    BY <1>2, DaysBeforeNext, EraType
  <2> HIDE DEF Y1, Y2, n1, n2
  <2> QED BY <1>2, <1>3, <2>1
<1>5. Y1 < Y2 \/ (Y1 = Y2 /\ n1 < n2)
  <2> HIDE DEF Y1, Y2, n1, n2
  <2>1. DaysBefore(Y1) \in Int /\ DaysBefore(Y2) \in Int
        /\ DaysBefore(Y2 + 1) = DaysBefore(Y2) + IF is_leap_year(Y2 + 1) THEN 366 ELSE 365
    BY <1>2, DaysBeforeNext
  <2>2. ASSUME Y2 < Y1 PROVE DaysBefore(Y2 + 1) <= DaysBefore(Y1)
    BY <1>2, <2>2 DEF DaysBefore
  <2>3. n2 < IF is_leap_year(Y2 + 1) THEN 366 ELSE 365
    BY <1>3
  <2>4. ~(Y2 < Y1)
    BY <1>2, <1>3, <1>4, <2>1, <2>2, <2>3
  <2> QED BY <1>2, <1>3, <1>4, <2>1, <2>4
<1>6. CASE Y1 < Y2
  BY <1>2, <1>6 DEF MarchYear
<1>7. CASE Y1 = Y2 /\ n1 < n2
  <2>1. MarchMonth(m1) <= MarchMonth(m2)
    <3> HIDE DEF n1, n2
    <3> QED BY <1>3, <1>7
  <2>2. CASE m1 = m2
    <3>1. y1 = y2
      BY <1>7, <2>2 DEF MarchYear
    <3>2. k1 < k2
      BY <1>1, <1>7, <2>2 DEF DayOfYear, MonthStart, MarchMonth
    <3> QED BY <2>2, <3>1, <3>2
  <2>3. CASE m1 # m2
    <3>1. MarchMonth(m1) # MarchMonth(m2)
      BY <2>3 DEF MarchMonth
    <3>2. \/ m1 > 2 /\ m2 > 2 /\ m1 < m2
          \/ m1 > 2 /\ m2 <= 2
          \/ m1 <= 2 /\ m2 <= 2 /\ m1 < m2
      BY <2>1, <3>1 DEF MarchMonth
    <3> QED BY <1>7, <3>2 DEF MarchYear
  <2> QED BY <2>2, <2>3
<1> QED BY <1>5, <1>6, <1>7
-----------------------------------------------------------------------------
(* The powers of ten, of which a second has one in nanoseconds. *)

IsPower(f, n) == \A k \in 0 .. n : f[k] = IF k = 0 THEN 1 ELSE 10 * f[k - 1]

LEMMA PowerExists ==
  ASSUME NEW N \in Nat
  PROVE  \E f : IsPower(f, N)
<1> DEFINE T == {n \in Nat : ~\E f : IsPower(f, n)}
<1> SUFFICES T = {}
  OBVIOUS
<1>1. ASSUME T # {} PROVE FALSE
  <2>1. PICK n \in T : \A m \in T : n <= m
    <3>1. T \subseteq Nat
      OBVIOUS
    <3> HIDE DEF T
    <3> QED BY <1>1, <3>1, LeastProperties
  <2>2. n \in Nat /\ ~\E f : IsPower(f, n)
    OBVIOUS
  <2>3. n # 0
    <3> DEFINE g == [k \in 0 .. 0 |-> 1]
    <3>1. IsPower(g, 0)
      BY DEF IsPower
    <3> QED BY <2>2, <3>1
  <2>4. n - 1 \in Nat /\ n - 1 \notin T
    BY <2>1, <2>2, <2>3
  <2>5. PICK f : IsPower(f, n - 1)
    BY <2>4
  <2> DEFINE g == [k \in 0 .. n |-> IF k = n THEN 10 * f[n - 1] ELSE f[k]]
  <2>6. IsPower(g, n)
    <3> SUFFICES ASSUME NEW k \in 0 .. n
                 PROVE  g[k] = IF k = 0 THEN 1 ELSE 10 * g[k - 1]
      BY DEF IsPower
    <3>1. CASE k = n
      <4>1. g[n] = 10 * f[n - 1] /\ g[n - 1] = f[n - 1]
        BY <2>2, <2>3
      <4> QED BY <2>3, <3>1, <4>1
    <3>2. CASE k # n
      <4>1. k \in 0 .. n - 1 /\ g[k] = f[k]
        BY <2>2, <3>2
      <4>2. f[k] = IF k = 0 THEN 1 ELSE 10 * f[k - 1]
        BY <2>5, <4>1 DEF IsPower
      <4>3. k # 0 => g[k - 1] = f[k - 1]
        BY <2>2, <4>1
      <4> QED BY <4>1, <4>2, <4>3
    <3> QED BY <3>1, <3>2
  <2> QED BY <2>2, <2>6
<1> QED BY <1>1

LEMMA PowerIsPositive ==
  ASSUME NEW N \in Nat, NEW f, IsPower(f, N)
  PROVE  \A n \in 0 .. N : f[n] \in Nat /\ f[n] > 0
<1> DEFINE T == {n \in 0 .. N : ~(f[n] \in Nat /\ f[n] > 0)}
<1> SUFFICES T = {}
  OBVIOUS
<1>1. ASSUME T # {} PROVE FALSE
  <2>1. PICK n \in T : \A m \in T : n <= m
    <3>1. T \subseteq Nat
      OBVIOUS
    <3> HIDE DEF T
    <3> QED BY <1>1, <3>1, LeastProperties
  <2>2. n \in 0 .. N /\ ~(f[n] \in Nat /\ f[n] > 0)
    OBVIOUS
  <2>3. f[n] = IF n = 0 THEN 1 ELSE 10 * f[n - 1]
    BY <2>2 DEF IsPower
  <2>4. n # 0
    BY <2>2, <2>3
  <2>5. n - 1 \in 0 .. N /\ n - 1 \notin T
    BY <2>1, <2>2, <2>4
  <2>6. f[n - 1] \in Nat /\ f[n - 1] > 0
    BY <2>5
  <2> QED BY <2>2, <2>3, <2>4, <2>6
<1> QED BY <1>1

LEMMA PowerIsUnique ==
  ASSUME NEW N \in Nat, NEW f, IsPower(f, N), NEW g, IsPower(g, N)
  PROVE  \A n \in 0 .. N : f[n] = g[n]
<1> DEFINE T == {n \in 0 .. N : f[n] # g[n]}
<1> SUFFICES T = {}
  OBVIOUS
<1>1. ASSUME T # {} PROVE FALSE
  <2>1. PICK n \in T : \A m \in T : n <= m
    <3>1. T \subseteq Nat
      OBVIOUS
    <3> HIDE DEF T
    <3> QED BY <1>1, <3>1, LeastProperties
  <2>2. n \in 0 .. N /\ f[n] # g[n]
    OBVIOUS
  <2>3. /\ f[n] = IF n = 0 THEN 1 ELSE 10 * f[n - 1]
        /\ g[n] = IF n = 0 THEN 1 ELSE 10 * g[n - 1]
    BY <2>2 DEF IsPower
  <2>4. n # 0
    BY <2>2, <2>3
  <2>5. n - 1 \in 0 .. N /\ n - 1 \notin T
    BY <2>1, <2>2, <2>4
  <2>6. f[n - 1] = g[n - 1]
    BY <2>5
  <2> QED BY <2>2, <2>3, <2>4, <2>6
<1> QED BY <1>1

LEMMA PowerEquation ==
  \A n \in Nat : Pow10[n] = IF n = 0 THEN 1 ELSE 10 * Pow10[n - 1]
<1> DEFINE upto(n) == CHOOSE f : IsPower(f, n)
           F == [n \in Nat |-> upto(n)[n]]
<1>1. \A n \in Nat : IsPower(upto(n), n)
  BY PowerExists
<1> HIDE DEF upto
<1>2. ASSUME NEW n \in Nat
      PROVE  F[n] = IF n = 0 THEN 1 ELSE 10 * F[n - 1]
  <2>1. upto(n)[n] = IF n = 0 THEN 1 ELSE 10 * upto(n)[n - 1]
    <3>1. n \in 0 .. n
      OBVIOUS
    <3> QED BY <1>1, <3>1 DEF IsPower
  <2>2. CASE n = 0
    BY <2>1, <2>2
  <2>3. CASE n # 0
    <3>1. n - 1 \in Nat /\ n - 1 \in 0 .. n - 1
      BY <2>3
    <3>2. IsPower(upto(n), n - 1)
      BY <1>1 DEF IsPower
    <3>3. IsPower(upto(n - 1), n - 1)
      BY <1>1, <3>1
    <3>4. upto(n)[n - 1] = upto(n - 1)[n - 1]
      BY <3>1, <3>2, <3>3, PowerIsUnique
    <3> QED BY <2>1, <2>3, <3>1, <3>4
  <2> QED BY <2>2, <2>3
<1>3. F = [n \in Nat |-> IF n = 0 THEN 1 ELSE 10 * F[n - 1]]
  <2>1. F = [n \in Nat |-> F[n]]
    OBVIOUS
  <2> HIDE DEF F
  <2> QED BY <1>2, <2>1
<1> HIDE DEF F
<1>4. Pow10 = [n \in Nat |-> IF n = 0 THEN 1 ELSE 10 * Pow10[n - 1]]
  BY <1>3 DEF Pow10
<1> QED BY <1>4

LEMMA PowersOfTen ==
  \A n \in Nat : Pow10[n] \in Nat /\ Pow10[n] > 0
<1>1. \A n \in Nat : IsPower(Pow10, n)
  <2> SUFFICES ASSUME NEW n \in Nat PROVE IsPower(Pow10, n)
    OBVIOUS
  <2>1. \A k \in 0 .. n : k \in Nat
    OBVIOUS
  <2> QED BY <2>1, PowerEquation DEF IsPower
<1> QED BY <1>1, PowerIsPositive

LEMMA PowerSum ==
  \A a, b \in Nat : Pow10[a + b] = Pow10[a] * Pow10[b]
<1> SUFFICES ASSUME NEW a \in Nat PROVE \A b \in Nat : Pow10[a + b] = Pow10[a] * Pow10[b]
  OBVIOUS
<1> DEFINE T == {b \in Nat : Pow10[a + b] # Pow10[a] * Pow10[b]}
<1> SUFFICES T = {}
  OBVIOUS
<1>1. ASSUME T # {} PROVE FALSE
  <2>1. PICK b \in T : \A m \in T : b <= m
    <3>1. T \subseteq Nat
      OBVIOUS
    <3> HIDE DEF T
    <3> QED BY <1>1, <3>1, LeastProperties
  <2>2. b \in Nat /\ Pow10[a + b] # Pow10[a] * Pow10[b]
    OBVIOUS
  <2>3. b # 0
    <3>1. ASSUME b = 0 PROVE FALSE
      <4>1. a + b = a /\ Pow10[b] = 1 /\ Pow10[a] \in Nat
        BY <3>1, PowerEquation, PowersOfTen
      <4> QED BY <2>2, <4>1
    <3> QED BY <3>1
  <2>4. b - 1 \in Nat /\ b - 1 \notin T
    BY <2>1, <2>2, <2>3
  <2>5. Pow10[a + (b - 1)] = Pow10[a] * Pow10[b - 1]
    BY <2>4
  <2>6. Pow10[b] = 10 * Pow10[b - 1]
    BY <2>2, <2>3, PowerEquation
  <2>7. Pow10[a + b] = 10 * Pow10[a + (b - 1)]
    <3>1. a + b \in Nat /\ a + b # 0 /\ (a + b) - 1 = a + (b - 1)
      BY <2>2, <2>3
    <3> QED BY <3>1, PowerEquation
  <2>8. Pow10[a] \in Nat /\ Pow10[b - 1] \in Nat
    BY <2>4, PowersOfTen
  <2>9. \A p, q \in Nat : 10 * (p * q) = p * (10 * q)
    BY SMT
  <2> QED BY <2>2, <2>5, <2>6, <2>7, <2>8, <2>9
<1> QED BY <1>1

-----------------------------------------------------------------------------
(* Timestamps. *)

LEMMA DayOfNanos ==
  /\ Second \in Int /\ Second > 0
  /\ NANOS_PER_DAY \in Int /\ NANOS_PER_DAY > 0 /\ Second < NANOS_PER_DAY
<1>1. Second \in Int /\ Second > 0
  <2>1. NANOS \in Nat
    BY ValuesAssumption DEF NANOS
  <2> QED BY <2>1, PowersOfTen DEF Second
<1> QED BY <1>1, SMT DEF NANOS_PER_DAY

\* What dividing a number by the nanoseconds of a day gives.
LEMMA DivideByDay ==
  ASSUME NEW days \in Int, NEW nanos \in Int, 0 <= nanos, nanos < NANOS_PER_DAY
  PROVE  /\ (days * NANOS_PER_DAY + nanos) \div NANOS_PER_DAY = days
         /\ (days * NANOS_PER_DAY + nanos) % NANOS_PER_DAY = nanos
<1> DEFINE N == NANOS_PER_DAY
           x == days * N + nanos
<1>1. N \in Int /\ N > 0
  BY DayOfNanos
<1> HIDE DEF N
<1>2. x \in Int /\ x = N * days + nanos
  BY <1>1
<1> HIDE DEF x
<1>3. x % N = nanos
  BY <1>1, <1>2, SMTT(30) DEF N
<1>4. x \div N = days
  BY <1>1, <1>2, SMTT(30) DEF N
<1> QED BY <1>3, <1>4 DEF x, N

LEMMA DaysOfNanos ==
  ASSUME NEW x \in Int
  PROVE  /\ x \div NANOS_PER_DAY \in Int
         /\ x % NANOS_PER_DAY \in Int
         /\ 0 <= x % NANOS_PER_DAY /\ x % NANOS_PER_DAY < NANOS_PER_DAY
<1> DEFINE N == NANOS_PER_DAY
<1>1. N \in Int /\ N > 0
  BY DayOfNanos
<1> HIDE DEF N
<1>2. x \div N \in Int /\ x % N \in Int /\ 0 <= x % N /\ x % N < N
  BY <1>1, SMTT(30)
<1> QED BY <1>2 DEF N

TimeRecord(nanos, precision) ==
  [type |-> "Time", nanos_since_midnight |-> nanos, precision |-> precision]

LEMMA TimeCases ==
  ASSUME NEW nanos, NEW precision
  PROVE  /\ Time(nanos, precision) # None =>
              /\ Time(nanos, precision) = TimeRecord(nanos, precision)
              /\ nanos \in Int /\ 0 <= nanos /\ nanos < NANOS_PER_DAY + Second
         /\ (nanos \in Int /\ 0 <= nanos /\ nanos < NANOS_PER_DAY) =>
              Time(nanos, precision).nanos_since_midnight = nanos
<1> DEFINE Fits == nanos \in 0 .. 86401 * Second - 1
<1>1. Time(nanos, precision) = IF Fits THEN TimeRecord(nanos, precision) ELSE None
  BY DEF Time, TimeRecord
<1>2. Fits <=> nanos \in Int /\ 0 <= nanos /\ nanos < NANOS_PER_DAY + Second
  BY DayOfNanos, SMT DEF NANOS_PER_DAY
<1> HIDE DEF Fits
<1>3. TimeRecord(nanos, precision).nanos_since_midnight = nanos
  BY DEF TimeRecord
<1>4. nanos \in Int /\ nanos < NANOS_PER_DAY => nanos < NANOS_PER_DAY + Second
  BY DayOfNanos, SMT
<1> QED BY <1>1, <1>2, <1>3, <1>4, Zenon

\* The parts of a timestamp's text, as the property names them.
DatePart(text) == ParseDate(Slice(text, 0, 8))
TimePart(text) == ParseTime(Slice(text, 9, Len(text)))
WellFormed(text) ==
  Len(text) >= 9 /\ At(text, 8) = MINUS /\ DatePart(text) # None /\ TimePart(text) # None
Leap(text) == TimePart(text).nanos_since_midnight >= NANOS_PER_DAY
DayOf(text) == IF Leap(text) THEN NextDay(DatePart(text)) ELSE DatePart(text)
NanosOf(text) ==
  IF Leap(text) THEN TimePart(text).nanos_since_midnight - NANOS_PER_DAY
  ELSE TimePart(text).nanos_since_midnight
\* The day the timestamp falls on, counted from the epoch.
DaysOf(text) ==
  IF Leap(text) THEN days_since_epoch(DatePart(text)) + 1 ELSE days_since_epoch(DatePart(text))

LEMMA PartsOfStamp ==
  ASSUME NEW text, WellFormed(text)
  PROVE  /\ DaysOf(text) \in Int /\ NanosOf(text) \in Int
         /\ 0 <= NanosOf(text) /\ NanosOf(text) < NANOS_PER_DAY
         /\ days_since_epoch(DatePart(text)) * NANOS_PER_DAY
              + TimePart(text).nanos_since_midnight
              = DaysOf(text) * NANOS_PER_DAY + NanosOf(text)
         /\ from_days_since_epoch(DaysOf(text)) = DayOf(text)
         /\ DayOf(text) # None => days_since_epoch(DayOf(text)) = DaysOf(text)
         /\ DayOf(text) # None => \E y, m, k : ValidDate(y, m, k) /\ DayOf(text) = DateRecord(y, m, k)
         /\ days_since_epoch(DatePart(text)) \in Int
         /\ TimePart(text).nanos_since_midnight \in Int
<1> DEFINE N == NANOS_PER_DAY
           nanos == TimePart(text).nanos_since_midnight
           days == days_since_epoch(DatePart(text))
<1>1. PICK y, m, k : ValidDate(y, m, k) /\ DatePart(text) = DateRecord(y, m, k)
  <2>1. DatePart(text) # None
    BY DEF WellFormed
  <2>2. PICK y, m, k : DatePart(text) = Date(y, m, k)
    BY <2>1, Zenon DEF DatePart, ParseDate
  <2>3. ValidDate(y, m, k) /\ DatePart(text) = DateRecord(y, m, k)
    BY <2>1, <2>2, DateCases, Zenon
  <2> QED BY <2>3
<1>2. nanos \in Int /\ 0 <= nanos /\ nanos < N + Second
  <2>1. TimePart(text) # None
    BY DEF WellFormed
  <2>2. PICK n, p : TimePart(text) = Time(n, p)
    <3> HIDE DEF N
    <3> QED BY <2>1 DEF TimePart, ParseTime
  <2>3. TimePart(text) = TimeRecord(n, p) /\ n \in Int /\ 0 <= n /\ n < N + Second
    BY <2>1, <2>2, TimeCases, Zenon
  <2> QED BY <2>3 DEF TimeRecord
<1>3. days \in Int
  <2>1. y \in Int /\ m \in 1 .. 12 /\ k \in Int
    BY <1>1, ValidParts, Zenon
  <2> QED BY <1>1, <2>1, DayAfterDay, Zenon
<1>4. N \in Int /\ N > 0 /\ Second \in Int /\ Second < N
  BY DayOfNanos
<1>5. /\ from_days_since_epoch(days) = DatePart(text)
      /\ from_days_since_epoch(days + 1) = NextDay(DatePart(text))
      /\ NextDay(DatePart(text)) # None => days_since_epoch(NextDay(DatePart(text))) = days + 1
  <2>1. from_days_since_epoch(days) = DatePart(text)
    <3>1. y \in Int /\ m \in 1 .. 12 /\ k \in 1 .. days_in_month(y, m)
      BY <1>1, ValidParts, Zenon
    <3>2. Date(y, m, k) = DateRecord(y, m, k)
      BY <1>1, DateCases, Zenon
    <3> QED BY <1>1, <3>1, <3>2, DaysGiveTheDate, Zenon
  <2> QED BY <1>1, <2>1, NextDayIsNext, Zenon
<1>6. NextDay(DatePart(text)) # None =>
        \E yy, mm, kk : ValidDate(yy, mm, kk) /\ NextDay(DatePart(text)) = DateRecord(yy, mm, kk)
  <2> SUFFICES ASSUME NextDay(DatePart(text)) # None
               PROVE  \E yy, mm, kk : /\ ValidDate(yy, mm, kk)
                                      /\ NextDay(DatePart(text)) = DateRecord(yy, mm, kk)
    OBVIOUS
  <2>1. PICK yy, mm, kk : NextDay(DatePart(text)) = Date(yy, mm, kk)
    BY Zenon DEF NextDay
  <2>2. ValidDate(yy, mm, kk) /\ NextDay(DatePart(text)) = DateRecord(yy, mm, kk)
    BY <2>1, DateCases, Zenon
  <2> QED BY <2>2
<1>7. CASE Leap(text)
  <2>1. NanosOf(text) = nanos - N /\ DaysOf(text) = days + 1 /\ DayOf(text) = NextDay(DatePart(text))
    BY <1>7, Zenon DEF NanosOf, DaysOf, DayOf
  <2>2. nanos >= N
    BY <1>7 DEF Leap
  <2> HIDE DEF N, nanos, days
  <2>3. days * N + nanos = (days + 1) * N + (nanos - N)
    BY <1>2, <1>3, <1>4, SMTT(30)
  <2>4. days + 1 \in Int /\ nanos - N \in Int /\ 0 <= nanos - N /\ nanos - N < N
    BY <1>2, <1>3, <1>4, <2>2
  <2> QED BY <1>2, <1>3, <1>5, <1>6, <2>1, <2>3, <2>4, Zenon DEF N, nanos, days
<1>8. CASE ~Leap(text)
  <2>1. NanosOf(text) = nanos /\ DaysOf(text) = days /\ DayOf(text) = DatePart(text)
    BY <1>8, Zenon DEF NanosOf, DaysOf, DayOf
  <2>2. ~(nanos >= N)
    BY <1>8 DEF Leap
  <2> HIDE DEF N, nanos, days
  <2>4. nanos < N
    BY <1>2, <1>4, <2>2
  <2> QED BY <1>1, <1>2, <1>3, <1>5, <2>1, <2>4, Zenon DEF N, nanos, days
<1> QED BY <1>7, <1>8

\* What UtcTimestamp reads is the day and the time of the day.
LEMMA StampKeeps ==
  ASSUME NEW text, ParseUtcTimestamp(text) # None
  PROVE  /\ WellFormed(text)
         /\ ParseUtcTimestamp(text).type = "UtcTimestamp"
         /\ DateOf(ParseUtcTimestamp(text)) = DayOf(text)
         /\ TimeOf(ParseUtcTimestamp(text)) = Time(NanosOf(text), TimePart(text).precision)
<1> DEFINE got == ParseUtcTimestamp(text)
<1>1. /\ WellFormed(text)
      /\ got = UtcTimestamp(days_since_epoch(DatePart(text)) * NANOS_PER_DAY
                              + TimePart(text).nanos_since_midnight, TimePart(text).precision)
  BY DEF ParseUtcTimestamp, WellFormed, DatePart, TimePart
<1> HIDE DEF got
<1>2. got = UtcTimestamp(DaysOf(text) * NANOS_PER_DAY + NanosOf(text), TimePart(text).precision)
  BY <1>1, PartsOfStamp, Zenon
<1>3. /\ got.type = "UtcTimestamp" /\ got.precision = TimePart(text).precision
      /\ got.unix_nanos = DaysOf(text) * NANOS_PER_DAY + NanosOf(text)
  BY <1>2 DEF UtcTimestamp
<1>4. got.unix_nanos \div NANOS_PER_DAY = DaysOf(text) /\ got.unix_nanos % NANOS_PER_DAY = NanosOf(text)
  BY <1>1, <1>3, PartsOfStamp, DivideByDay, Zenon
<1>5. DateOf(got) = DayOf(text)
  BY <1>1, <1>4, PartsOfStamp, Zenon DEF DateOf
<1>6. TimeOf(got) = Time(NanosOf(text), TimePart(text).precision)
  BY <1>3, <1>4, Zenon DEF TimeOf
<1> QED BY <1>1, <1>3, <1>5, <1>6 DEF got

\* The order of dates and times of day, as the property compares them.
DateOrder(d, n) == <<d.year, d.month, d.day, n>>
StampOrder(n) == DateOrder(DateOf(UtcTimestamp(n, 0)), TimeOf(UtcTimestamp(n, 0)).nanos_since_midnight)
Earlier(s, t) == \E i \in 1 .. 4 : s[i] < t[i] /\ \A j \in 1 .. i - 1 : s[j] = t[j]

LEMMA EarlierStamp ==
  ASSUME NEW y1, NEW m1, NEW k1, ValidDate(y1, m1, k1), NEW n1 \in Int,
         NEW y2, NEW m2, NEW k2, ValidDate(y2, m2, k2), NEW n2 \in Int,
         \/ days_since_epoch(DateRecord(y1, m1, k1)) < days_since_epoch(DateRecord(y2, m2, k2))
         \/ /\ days_since_epoch(DateRecord(y1, m1, k1)) = days_since_epoch(DateRecord(y2, m2, k2))
            /\ n1 < n2
  PROVE  Earlier(DateOrder(DateRecord(y1, m1, k1), n1), DateOrder(DateRecord(y2, m2, k2), n2))
<1>1. /\ y1 \in Int /\ m1 \in 1 .. 12 /\ k1 \in 1 .. days_in_month(y1, m1) /\ k1 \in Int
      /\ y2 \in Int /\ m2 \in 1 .. 12 /\ k2 \in 1 .. days_in_month(y2, m2) /\ k2 \in Int
  BY ValidParts, Zenon
<1>2. CASE days_since_epoch(DateRecord(y1, m1, k1)) < days_since_epoch(DateRecord(y2, m2, k2))
  <2>1. \/ y1 < y2
        \/ y1 = y2 /\ m1 < m2
        \/ y1 = y2 /\ m1 = m2 /\ k1 < k2
    BY <1>1, <1>2, DaysOrderDates
  <2> QED BY <1>1, <2>1 DEF Earlier, DateOrder, DateRecord
<1>3. CASE /\ days_since_epoch(DateRecord(y1, m1, k1)) = days_since_epoch(DateRecord(y2, m2, k2))
           /\ n1 < n2
  <2>1. DateRecord(y1, m1, k1) = DateRecord(y2, m2, k2)
    <3>1. from_days_since_epoch(days_since_epoch(DateRecord(y1, m1, k1))) = DateRecord(y1, m1, k1)
      <4>1. Date(y1, m1, k1) = DateRecord(y1, m1, k1)
        BY DateCases, Zenon
      <4> QED BY <1>1, <4>1, DaysGiveTheDate, Zenon
    <3>2. from_days_since_epoch(days_since_epoch(DateRecord(y2, m2, k2))) = DateRecord(y2, m2, k2)
      <4>1. Date(y2, m2, k2) = DateRecord(y2, m2, k2)
        BY DateCases, Zenon
      <4> QED BY <1>1, <4>1, DaysGiveTheDate, Zenon
    <3> QED BY <1>3, <3>1, <3>2
  <2>2. DateOrder(DateRecord(y1, m1, k1), n1) = <<y1, m1, k1, n1>>
        /\ DateOrder(DateRecord(y2, m2, k2), n2) = <<y1, m1, k1, n2>>
    <3>1. DateOrder(DateRecord(y2, m2, k2), n2) = DateOrder(DateRecord(y1, m1, k1), n2)
      BY <2>1, Zenon
    <3> QED BY <3>1 DEF DateOrder, DateRecord
  <2> QED BY <1>1, <1>3, <2>2 DEF Earlier
<1> QED BY <1>2, <1>3

LEMMA StampOfNanos ==
  ASSUME NEW n \in Int,
         -LAST_DAY - 1 <= n \div NANOS_PER_DAY, n \div NANOS_PER_DAY <= LAST_DAY
  PROVE  \E y, m, k :
            /\ ValidDate(y, m, k)
            /\ days_since_epoch(DateRecord(y, m, k)) = n \div NANOS_PER_DAY
            /\ StampOrder(n) = DateOrder(DateRecord(y, m, k), n % NANOS_PER_DAY)
<1> DEFINE stamp == UtcTimestamp(n, 0)
           days == n \div NANOS_PER_DAY
           nanos == n % NANOS_PER_DAY
<1>1. stamp.unix_nanos = n /\ stamp.precision = 0
  BY DEF UtcTimestamp
<1>2. days \in Int /\ nanos \in Int /\ 0 <= nanos /\ nanos < NANOS_PER_DAY
  BY DaysOfNanos
<1>3. DateOf(stamp) = from_days_since_epoch(days)
  BY <1>1, Zenon DEF DateOf
<1>4. TimeOf(stamp).nanos_since_midnight = nanos
  <2>1. TimeOf(stamp) = Time(nanos, 0)
    BY <1>1, Zenon DEF TimeOf
  <2> HIDE DEF nanos
  <2> QED BY <1>2, <2>1, TimeCases, Zenon
<1> HIDE DEF days
<1>5. PICK y, m, k : /\ ValidDate(y, m, k)
                     /\ days_since_epoch(DateRecord(y, m, k)) = days
                     /\ from_days_since_epoch(days) = DateRecord(y, m, k)
  BY <1>2, DaysHaveADate DEF days
<1>6. StampOrder(n) = DateOrder(DateRecord(y, m, k), nanos)
  BY <1>3, <1>4, <1>5, Zenon DEF StampOrder
<1> QED BY <1>5, <1>6 DEF days

\* The first and the last day of an i64 of nanoseconds.
LEMMA DaysOf64 ==
  LET lastDay == I64_MAX \div NANOS_PER_DAY
      firstDay == (-I64_MAX - 1) \div NANOS_PER_DAY
  IN  /\ lastDay \in Int /\ 0 <= lastDay /\ lastDay <= LAST_DAY
      /\ firstDay = -lastDay - 1
<1> DEFINE N == NANOS_PER_DAY
           q == I64_MAX \div N
           r == I64_MAX % N
<1>1. N \in Int /\ N > 0 /\ I64_MAX \in Int /\ I64_MAX >= 0
  BY DayOfNanos, ValuesAssumption
<1>2. q <= LAST_DAY
  BY RangeAssumption DEF LAST_DAY
<1> HIDE DEF N
<1>3. q \in Int /\ r \in Int /\ 0 <= r /\ r < N
  BY <1>1, SMTT(30)
<1>4. I64_MAX = N * q + r
  <2>1. ASSUME NEW qq \in Int, NEW rr \in Int, qq = I64_MAX \div N, rr = I64_MAX % N
        PROVE  I64_MAX = N * qq + rr
    BY <1>1, <2>1, SMTT(30)
  <2> QED BY <1>3, <2>1
<1> HIDE DEF q, r
<1>5. 0 <= q
  BY <1>1, <1>3, <1>4, SMTT(30)
<1>6. -I64_MAX - 1 = N * (-q - 1) + (N - r - 1)
  BY <1>1, <1>3, <1>4, SMTT(30)
<1>7. (-I64_MAX - 1) \div N = -q - 1
  <2>1. ASSUME NEW x \in Int, NEW qq \in Int, NEW rr \in Int, 0 <= rr, rr < N, x = N * qq + rr
        PROVE  x \div N = qq
    BY <1>1, <2>1, SMTT(30)
  <2>2. -I64_MAX - 1 \in Int /\ -q - 1 \in Int /\ N - r - 1 \in Int /\ 0 <= N - r - 1 /\ N - r - 1 < N
    BY <1>1, <1>3
  <2> QED BY <1>6, <2>1, <2>2, Zenon
<1> QED BY <1>2, <1>3, <1>5, <1>7 DEF q, N

\* A timestamp is refused when it falls before the least or after the
\* largest i64, or on no day there is.
LEMMA RefusedStamp ==
  ASSUME NEW text, WellFormed(text), ParseUtcTimestamp(text) = None
  PROVE  \/ DayOf(text) = None
         \/ Earlier(StampOrder(I64_MAX), DateOrder(DayOf(text), NanosOf(text)))
         \/ Earlier(DateOrder(DayOf(text), NanosOf(text)), StampOrder(-I64_MAX - 1))
<1> SUFFICES ASSUME DayOf(text) # None
             PROVE  \/ Earlier(StampOrder(I64_MAX), DateOrder(DayOf(text), NanosOf(text)))
                    \/ Earlier(DateOrder(DayOf(text), NanosOf(text)), StampOrder(-I64_MAX - 1))
  OBVIOUS
<1> DEFINE lastDay == I64_MAX \div NANOS_PER_DAY
           firstDay == (-I64_MAX - 1) \div NANOS_PER_DAY
           days == DaysOf(text)
           nanos == NanosOf(text)
<1>1. days \in Int /\ nanos \in Int /\ days_since_epoch(DayOf(text)) = days
  BY PartsOfStamp, Zenon
<1>2. PICK y, m, k : ValidDate(y, m, k) /\ DayOf(text) = DateRecord(y, m, k)
  BY PartsOfStamp, Zenon
<1>3. /\ lastDay \in Int /\ 0 <= lastDay /\ lastDay <= LAST_DAY /\ firstDay = -lastDay - 1
      /\ I64_MAX \in Int /\ -I64_MAX - 1 \in Int /\ LAST_DAY \in Int
  BY DaysOf64, ValuesAssumption, SMT DEF LAST_DAY
<1>4. -LAST_DAY - 1 <= lastDay /\ firstDay <= LAST_DAY /\ -LAST_DAY - 1 <= firstDay /\ firstDay \in Int
  <2> HIDE DEF lastDay, firstDay
  <2> QED BY <1>3
<1>5. PICK y1, m1, k1 : /\ ValidDate(y1, m1, k1)
                        /\ days_since_epoch(DateRecord(y1, m1, k1)) = lastDay
                        /\ StampOrder(I64_MAX) = DateOrder(DateRecord(y1, m1, k1), I64_MAX % NANOS_PER_DAY)
  BY <1>3, <1>4, StampOfNanos, Zenon
<1>6. PICK y2, m2, k2 : /\ ValidDate(y2, m2, k2)
                        /\ days_since_epoch(DateRecord(y2, m2, k2)) = firstDay
                        /\ StampOrder(-I64_MAX - 1) =
                             DateOrder(DateRecord(y2, m2, k2), (-I64_MAX - 1) % NANOS_PER_DAY)
  BY <1>3, <1>4, StampOfNanos, Zenon
<1>7. I64_MAX % NANOS_PER_DAY \in Int /\ (-I64_MAX - 1) % NANOS_PER_DAY \in Int
  BY <1>3, DaysOfNanos, Zenon
<1>8. ~FitsI64(days_since_epoch(DatePart(text)), TimePart(text).nanos_since_midnight)
  <2>1. UtcTimestamp(days_since_epoch(DatePart(text)) * NANOS_PER_DAY
                       + TimePart(text).nanos_since_midnight, TimePart(text).precision) # None
    <3>1. \A n, p : UtcTimestamp(n, p).type = "UtcTimestamp" /\ None.type = "None"
      BY DEF UtcTimestamp, None
    <3> QED BY <3>1
  <2> QED BY <2>1 DEF ParseUtcTimestamp, WellFormed, DatePart, TimePart
<1>9. ~ /\ firstDay <= days /\ days <= lastDay
        /\ days = lastDay => nanos <= I64_MAX % NANOS_PER_DAY
        /\ days = firstDay => nanos >= (-I64_MAX - 1) % NANOS_PER_DAY
  <2> DEFINE time == TimePart(text).nanos_since_midnight
  <2>1. time \in Int /\ NANOS_PER_DAY \in Int
    BY PartsOfStamp, DayOfNanos, Zenon
  <2>2. ~(time < NANOS_PER_DAY) <=> Leap(text)
    <3> HIDE DEF time
    <3> QED BY <2>1 DEF Leap, time
  <2>3. days = IF time < NANOS_PER_DAY THEN days_since_epoch(DatePart(text))
               ELSE days_since_epoch(DatePart(text)) + 1
    BY <2>2, Zenon DEF DaysOf
  <2>4. nanos = IF time < NANOS_PER_DAY THEN time ELSE time - NANOS_PER_DAY
    BY <2>2, Zenon DEF NanosOf
  <2>5. FitsI64(days_since_epoch(DatePart(text)), time) <=>
          /\ firstDay <= days /\ days <= lastDay
          /\ days = lastDay => nanos <= I64_MAX % NANOS_PER_DAY
          /\ days = firstDay => nanos >= (-I64_MAX - 1) % NANOS_PER_DAY
    <3> DEFINE before == days_since_epoch(DatePart(text))
    <3> HIDE DEF time, before
    <3>1. CASE time < NANOS_PER_DAY
      <4>1. days = before /\ nanos = time
        BY <2>3, <2>4, <3>1, Zenon DEF before
      <4>2. FitsI64(before, time) <=>
              /\ firstDay <= before /\ before <= lastDay
              /\ before = lastDay => time <= I64_MAX % NANOS_PER_DAY
              /\ before = firstDay => time >= (-I64_MAX - 1) % NANOS_PER_DAY
        BY <3>1, Zenon DEF FitsI64
      <4> QED BY <4>1, <4>2, Zenon DEF before
    <3>2. CASE ~(time < NANOS_PER_DAY)
      <4>1. days = before + 1 /\ nanos = time - NANOS_PER_DAY
        BY <2>3, <2>4, <3>2, Zenon DEF before
      <4>2. FitsI64(before, time) <=>
              /\ firstDay <= before + 1 /\ before + 1 <= lastDay
              /\ before + 1 = lastDay => time - NANOS_PER_DAY <= I64_MAX % NANOS_PER_DAY
              /\ before + 1 = firstDay => time - NANOS_PER_DAY >= (-I64_MAX - 1) % NANOS_PER_DAY
        BY <3>2, Zenon DEF FitsI64
      <4> QED BY <4>1, <4>2, Zenon DEF before
    <3> QED BY <3>1, <3>2
  <2> QED BY <1>8, <2>5, Zenon
<1> DEFINE top == I64_MAX % NANOS_PER_DAY
           bottom == (-I64_MAX - 1) % NANOS_PER_DAY
<1>10. \/ days < firstDay \/ lastDay < days
       \/ days = lastDay /\ top < nanos
       \/ days = firstDay /\ nanos < bottom
  <2> HIDE DEF lastDay, firstDay, days, nanos, top, bottom
  <2> QED BY <1>1, <1>3, <1>4, <1>7, <1>9 DEF top, bottom
<1>11. CASE lastDay < days \/ (days = lastDay /\ top < nanos)
  <2>1. Earlier(DateOrder(DateRecord(y1, m1, k1), top), DateOrder(DateRecord(y, m, k), nanos))
    BY <1>1, <1>2, <1>5, <1>7, <1>11, EarlierStamp
  <2> QED BY <1>2, <1>5, <2>1, Zenon
<1>12. CASE days < firstDay \/ (days = firstDay /\ nanos < bottom)
  <2>1. Earlier(DateOrder(DateRecord(y, m, k), nanos), DateOrder(DateRecord(y2, m2, k2), bottom))
    BY <1>1, <1>2, <1>6, <1>7, <1>12, EarlierStamp
  <2> QED BY <1>2, <1>6, <2>1, Zenon
<1> QED BY <1>10, <1>11, <1>12

-----------------------------------------------------------------------------
(* What was read stays at the head of the chain. *)

\* The chain begins with what the getter returned, whatever is made of it
\* afterwards, and the message and the scope are still those it read.
ReadFirst ==
  /\ chain \in Seq({chain[i] : i \in DOMAIN chain})
  /\ asked # <<>> => /\ Len(chain) >= 1
                     /\ asked \in Getters \X Tags
                     /\ chain[1] = Get(asked[1], asked[2])

LEMMA ElementsOf ==
  ASSUME NEW S, NEW s \in Seq(S)
  PROVE  s \in Seq({s[i] : i \in DOMAIN s})
<1>1. DOMAIN s = 1 .. Len(s) /\ Len(s) \in Nat
  OBVIOUS
<1>2. s = [i \in 1 .. Len(s) |-> s[i]]
  OBVIOUS
<1>3. [i \in 1 .. Len(s) |-> s[i]] \in [1 .. Len(s) -> {s[i] : i \in DOMAIN s}]
  BY <1>1
<1> DEFINE T == {s[i] : i \in DOMAIN s}
<1>4. s \in [1 .. Len(s) -> T]
  BY <1>2, <1>3, Zenon
<1> HIDE DEF T
<1>5. s \in Seq(T)
  BY <1>1, <1>4, IsASeq
<1> QED BY <1>5 DEF T

LEMMA Step == ReadFirst /\ [Next]_vars => ReadFirst'
<1> SUFFICES ASSUME ReadFirst, [Next]_vars PROVE ReadFirst'
  OBVIOUS
<1>1. CASE \E start, end \in 0 .. Len(fields) + 1 : scope_between(start, end)
  <2>1. chain = <<>> /\ chain' = chain /\ asked' = asked
    BY <1>1 DEF scope_between
  <2>2. asked = <<>>
    BY <2>1 DEF ReadFirst
  <2> QED BY <2>1, <2>2 DEF ReadFirst
<1>2. CASE Read
  <2>1. PICK getter \in Getters, tag \in Tags :
               asked' = <<getter, tag>> /\ chain' = <<Get(getter, tag)>>
    BY <1>2 DEF Read
  <2>2. fields' = fields /\ scope' = scope
    BY <1>2 DEF Read
  <2>3. Get(getter, tag)' = Get(getter, tag)
    BY <2>2 DEF Get, get_str, get_int, get_bool, get_decimal, get_utc_timestamp, get_date, get_time,
                get_month_year, get_multiple_values, Outcome, get, find, Slots
  <2>4. Get(asked[1], asked[2])' = Get(getter, tag)
    <3>1. asked'[1] = getter /\ asked'[2] = tag
      BY <2>1
    <3> QED BY <2>2, <3>1 DEF Get, get_str, get_int, get_bool, get_decimal, get_utc_timestamp,
                get_date, get_time, get_month_year, get_multiple_values, Outcome, get, find, Slots
  <2>5. chain' \in Seq({Get(getter, tag)}) /\ Len(chain') = 1 /\ chain'[1] = Get(getter, tag)
    BY <2>1
  <2>6. chain' \in Seq({chain'[i] : i \in DOMAIN chain'})
    BY <2>5, ElementsOf
  <2>7. asked' \in Getters \X Tags
    BY <2>1
  <2> QED BY <2>4, <2>5, <2>6, <2>7 DEF ReadFirst
<1>3. CASE Bring
  <2>1. PICK value \in LibraryValues : chain' = <<value>>
    BY <1>3 DEF Bring
  <2>2. chain = <<>> /\ asked' = asked
    BY <1>3 DEF Bring
  <2>3. asked = <<>>
    BY <2>2 DEF ReadFirst
  <2>4. chain' \in Seq({value})
    BY <2>1
  <2>5. chain' \in Seq({chain'[i] : i \in DOMAIN chain'})
    BY <2>4, ElementsOf
  <2> QED BY <2>2, <2>3, <2>5 DEF ReadFirst
<1>4. CASE Convert
  <2>1. PICK v : chain' = Append(chain, v)
    BY <1>4 DEF Convert
  <2>2. fields' = fields /\ scope' = scope /\ asked' = asked
    BY <1>4 DEF Convert
  <2> DEFINE S == {chain[i] : i \in DOMAIN chain} \cup {v}
  <2>3. chain \in Seq({chain[i] : i \in DOMAIN chain})
    BY DEF ReadFirst
  <2>4. chain \in Seq(S) /\ v \in S
    <3>1. {chain[i] : i \in DOMAIN chain} \subseteq S /\ v \in S
      OBVIOUS
    <3> HIDE DEF S
    <3>2. \A i \in 1 .. Len(chain) : chain[i] \in {chain[j] : j \in DOMAIN chain}
      BY <2>3
    <3>3. chain \in Seq(S)
      BY <2>3, <3>1, SeqMonotonic
    <3> QED BY <3>1, <3>3
  <2>5. /\ chain' \in Seq(S) /\ Len(chain') = Len(chain) + 1
        /\ Len(chain) >= 1 => chain'[1] = chain[1]
    <3> HIDE DEF S
    <3> QED BY <2>1, <2>4, AppendProperties
  <2>6. chain' \in Seq({chain'[i] : i \in DOMAIN chain'})
    BY <2>5, ElementsOf
  <2>7. Len(chain) \in Nat
    BY <2>4
  <2>8. Get(asked[1], asked[2])' = Get(asked[1], asked[2])
    BY <2>2 DEF Get, get_str, get_int, get_bool, get_decimal, get_utc_timestamp, get_date, get_time,
                get_month_year, get_multiple_values, Outcome, get, find, Slots
  <2> HIDE DEF S
  <2> QED BY <2>2, <2>5, <2>6, <2>7, <2>8 DEF ReadFirst
<1>5. CASE UNCHANGED vars
  BY <1>5 DEF ReadFirst, vars, Get, get_str, get_int, get_bool, get_decimal, get_utc_timestamp,
              get_date, get_time, get_month_year, get_multiple_values, Outcome, get, find, Slots
<1> QED BY <1>1, <1>2, <1>3, <1>4, <1>5 DEF Next

LEMMA ReadFirstHolds == Spec => []ReadFirst
<1>1. Init => ReadFirst
  <2> SUFFICES ASSUME Init PROVE ReadFirst
    OBVIOUS
  <2>1. chain = <<>> /\ asked = <<>>
    BY DEF Init
  <2>2. chain \in Seq({})
    BY <2>1
  <2>3. chain \in Seq({chain[i] : i \in DOMAIN chain})
    BY <2>2, ElementsOf
  <2> QED BY <2>1, <2>3 DEF ReadFirst
<1> QED BY <1>1, Step, PTL DEF Spec

\* A getter of a field that is there returns what its text is read as, or an
\* error of that tag.
LEMMA GottenIsRead ==
  ASSUME ReadFirst, NEW getter, AskedFor(getter)
  PROVE  /\ getter = "Date" => Outcome(asked[2], ParseDate(Text)) = chain[1]
         /\ getter = "UtcTimestamp" => Outcome(asked[2], ParseUtcTimestamp(Text)) = chain[1]
         /\ Slots(asked[2]) # {}
<1>1. asked[1] = getter /\ chain[1] = Get(asked[1], asked[2]) /\ chain[1] # Absent
      /\ getter \in Getters
  BY DEF ReadFirst, AskedFor
<1>2. getter = "Date" => chain[1] = get_date(asked[2])
  BY <1>1 DEF Get
<1>3. getter = "UtcTimestamp" => chain[1] = get_utc_timestamp(asked[2])
  BY <1>1 DEF Get
<1>4. \E parsed : chain[1] = Outcome(asked[2], parsed)
  BY <1>1 DEF Get, Getters, get_str, get_int, get_bool, get_decimal, get_utc_timestamp, get_date, get_time,
              get_month_year, get_multiple_values
<1>5. Slots(asked[2]) # {}
  BY <1>1, <1>4 DEF Outcome
<1> QED BY <1>2, <1>3, <1>5 DEF get_date, get_utc_timestamp, Text

\* A date read from a field has the number of days since 1970-01-01 that
\* counting one day at a time gives, and that number gives the date back: of
\* every text of a date (date.rs:54, date.rs:70).
THEOREM DatesAreDays == Spec => []DatesCountTheDays
<1>1. ReadFirst => DatesCountTheDays
  <2> SUFFICES ASSUME ReadFirst, AskedFor("Date"), chain[1].type = "Date"
               PROVE  LET days == days_since_epoch(chain[1])
                          next == NextDay(chain[1])
                      IN  /\ from_days_since_epoch(days) = chain[1]
                          /\ next # None => /\ days_since_epoch(next) = days + 1
                                            /\ from_days_since_epoch(days + 1) = next
                          /\ days_since_epoch(Date(1970, 1, 1)) = 0
    BY SMT DEF DatesCountTheDays
  <2>1. Outcome(asked[2], ParseDate(Text)) = chain[1]
    BY GottenIsRead
  <2>2. chain[1] = ParseDate(Text) /\ ParseDate(Text) # None
    <3>1. CASE Slots(asked[2]) = {}
      BY <2>1, <3>1, GottenIsRead
    <3>2. CASE ParseDate(Text) = None
      <4>1. chain[1] = [type |-> "InvalidValue", tag |-> asked[2]]
        BY <2>1, <3>2, GottenIsRead DEF Outcome
      <4>2. chain[1].type = "InvalidValue"
        BY <4>1
      <4> QED BY <4>2
    <3> QED BY <2>1, <3>1, <3>2, Zenon DEF Outcome
  <2>3. PICK y, m, k : ParseDate(Text) = Date(y, m, k)
    BY <2>2, Zenon DEF ParseDate
  <2>4. ValidDate(y, m, k) /\ chain[1] = DateRecord(y, m, k)
    BY <2>2, <2>3, DateCases, Zenon
  <2>5. y \in Int /\ m \in 1 .. 12 /\ k \in 1 .. days_in_month(y, m)
    BY <2>4, ValidParts, Zenon
  <2>6. from_days_since_epoch(days_since_epoch(chain[1])) = chain[1]
    BY <2>2, <2>3, <2>4, <2>5, DaysGiveTheDate, Zenon
  <2>7. /\ from_days_since_epoch(days_since_epoch(chain[1]) + 1) = NextDay(chain[1])
        /\ NextDay(chain[1]) # None =>
             days_since_epoch(NextDay(chain[1])) = days_since_epoch(chain[1]) + 1
    BY <2>4, NextDayIsNext, Zenon
  <2> DEFINE zero == days_since_epoch(Date(1970, 1, 1))
  <2>8. zero = 0
    BY EpochIsDayZero
  <2> HIDE DEF zero
  <2>9. /\ from_days_since_epoch(days_since_epoch(chain[1])) = chain[1]
        /\ NextDay(chain[1]) # None =>
             /\ days_since_epoch(NextDay(chain[1])) = days_since_epoch(chain[1]) + 1
             /\ from_days_since_epoch(days_since_epoch(chain[1]) + 1) = NextDay(chain[1])
        /\ zero = 0
    BY <2>6, <2>7, <2>8, Zenon
  <2> QED BY <2>9 DEF zero
<1> QED BY <1>1, ReadFirstHolds, PTL

\* A timestamp is read exactly when its date and its time are and an i64 of
\* nanoseconds holds it, with its date and time, but that a leap second is the
\* first of the next day: of every text, for every width of an i64 that spans
\* only years a date has (utc_timestamp.rs:48).
THEOREM TimestampsAreKept == Spec => []TimestampsKeepDateAndTime
<1>1. ReadFirst => TimestampsKeepDateAndTime
  <2> SUFFICES ASSUME ReadFirst, AskedFor("UtcTimestamp") PROVE TimestampsKeepDateAndTime
    BY DEF TimestampsKeepDateAndTime
  <2> DEFINE parsed == ParseUtcTimestamp(Text)
  <2>1. chain[1] = IF parsed = None THEN [type |-> "InvalidValue", tag |-> asked[2]] ELSE parsed
    BY GottenIsRead, Zenon DEF Outcome
  <2>2. parsed = None => chain[1].type # "UtcTimestamp"
    BY <2>1
  <2>3. parsed # None => /\ chain[1] = parsed /\ WellFormed(Text)
                         /\ parsed.type = "UtcTimestamp"
                         /\ DateOf(parsed) = DayOf(Text)
                         /\ TimeOf(parsed) = Time(NanosOf(Text), TimePart(Text).precision)
    BY <2>1, StampKeeps, Zenon
  <2>4. chain[1].type = "UtcTimestamp" => /\ WellFormed(Text)
                                          /\ DateOf(chain[1]) = DayOf(Text)
                                          /\ TimeOf(chain[1]) = Time(NanosOf(Text), TimePart(Text).precision)
    BY <2>2, <2>3, Zenon
  <2>5. (WellFormed(Text) /\ chain[1].type # "UtcTimestamp") =>
          \/ DayOf(Text) = None
          \/ Earlier(StampOrder(I64_MAX), DateOrder(DayOf(Text), NanosOf(Text)))
          \/ Earlier(DateOrder(DayOf(Text), NanosOf(Text)), StampOrder(-I64_MAX - 1))
    BY <2>3, RefusedStamp, Zenon
  <2> HIDE DEF parsed
  <2> QED BY <2>4, <2>5, Zenon DEF TimestampsKeepDateAndTime, WellFormed, DayOf, NanosOf, Leap,
        DatePart, TimePart, Earlier, StampOrder, DateOrder
<1> QED BY <1>1, ReadFirstHolds, PTL

-----------------------------------------------------------------------------
(* Conversions: the values that are converted. *)

Libs == {"chrono", "jiff", "time"}

TimeRange(n) == n \in Int /\ 0 <= n /\ n < NANOS_PER_DAY + Second

\* Seconds and nanoseconds of chrono, and a clock of the other two.
ChronoRange(s, o) ==
  /\ s \in Int /\ 0 <= s /\ s <= LAST_SECOND
  /\ o \in Int /\ 0 <= o /\ o < 2 * Second
  /\ o >= Second => s % 60 = 59
ClockRange(h, i, s, o) ==
  /\ h \in 0 .. 23 /\ i \in 0 .. 59 /\ s \in 0 .. 59
  /\ o \in Int /\ 0 <= o /\ o < Second

ClockSeconds(h, i, s) == h * 3600 + i * 60 + s

LibraryDateRecord(library, y, m, k) ==
  [type |-> "LibraryDate", library |-> library, year |-> y, month |-> m, day |-> k]
ChronoRecord(s, o) ==
  [type |-> "LibraryTime", library |-> "chrono", seconds |-> s, nano |-> o]
ClockRecord(library, h, i, s, o) ==
  [type |-> "LibraryTime", library |-> library, hour |-> h, minute |-> i, second |-> s, nano |-> o]
RustRecord(m, s) == [type |-> "RustDecimal", mantissa |-> m, scale |-> s]

IsDate(v) == \E y, m, k : ValidDate(y, m, k) /\ v = DateRecord(y, m, k)
IsTime(v) == \E n, p : TimeRange(n) /\ v = TimeRecord(n, p)
IsStamp(v) == \E n, p : n \in Int /\ I64(n) /\ v = UtcTimestamp(n, p)
IsDecimal(v) == \E m, e : m \in Int /\ I64(m) /\ e \in Int /\ I8(e) /\ v = Decimal(m, e)

IsLibraryDate(v) ==
  \E library \in Libs : \E y, m, k : /\ y \in 0 .. 9999 => ValidDate(y, m, k)
                                     /\ v = LibraryDateRecord(library, y, m, k)
IsChronoTime(v) == \E s, o : ChronoRange(s, o) /\ v = ChronoRecord(s, o)
IsClockTime(v) ==
  \E library \in {"jiff", "time"} : \E h, i, s, o :
    ClockRange(h, i, s, o) /\ v = ClockRecord(library, h, i, s, o)
IsLibraryStamp(v) == \E library \in Libs : \E n \in Int : v = LibraryTimestamp(library, n)
IsBigDecimal(v) == \E d, s \in Int : v = BigDecimal(d, s)
IsRustDecimal(v) == \E m \in Int, s \in Nat : s <= I8_MAX /\ v = RustRecord(m, s)

IsOfLibrary(v) ==
  \/ IsLibraryDate(v) \/ IsChronoTime(v) \/ IsClockTime(v) \/ IsLibraryStamp(v)
  \/ IsBigDecimal(v) \/ IsRustDecimal(v)

\* What a value is converted to.
Converted(v) == IntoLibrary(v) \cup FromLibrary(v)

\* Values there is no conversion of.
Finals ==
  {"PyDate", "PyTime", "PyDateTime", "PyInt", "PyDecimal", "OutOfRange", "InvalidValue",
   "Absent", "Str", "Int", "Bool", "MonthYear", "MultipleValues"}

\* What a getter returns, and what a chain holds.
IsRead(v) ==
  \/ IsDate(v) \/ IsTime(v) \/ IsStamp(v)
  \/ IsDecimal(v) /\ v.exponent <= 0
  \/ v.type \in Finals
IsConvertible(v) ==
  \/ IsDate(v) \/ IsTime(v) \/ IsStamp(v) \/ IsDecimal(v)
  \/ IsOfLibrary(v)
  \/ v.type \in Finals

LEMMA TypesOf ==
  ASSUME NEW v
  PROVE  /\ IsDate(v) => v.type = "Date"
         /\ IsTime(v) => v.type = "Time"
         /\ IsStamp(v) => v.type = "UtcTimestamp"
         /\ IsDecimal(v) => v.type = "Decimal"
         /\ IsLibraryDate(v) => v.type = "LibraryDate"
         /\ IsChronoTime(v) => v.type = "LibraryTime" /\ v.library = "chrono"
         /\ IsClockTime(v) => v.type = "LibraryTime" /\ v.library # "chrono"
         /\ IsLibraryStamp(v) => v.type = "LibraryTimestamp"
         /\ IsBigDecimal(v) => v.type = "BigDecimal"
         /\ IsRustDecimal(v) => v.type = "RustDecimal"
<1>1. ASSUME IsDate(v) PROVE v.type = "Date"
  BY <1>1 DEF IsDate, DateRecord
<1>2. ASSUME IsTime(v) PROVE v.type = "Time"
  BY <1>2 DEF IsTime, TimeRecord
<1>3. ASSUME IsStamp(v) PROVE v.type = "UtcTimestamp"
  BY <1>3 DEF IsStamp, UtcTimestamp
<1>4. ASSUME IsDecimal(v) PROVE v.type = "Decimal"
  BY <1>4 DEF IsDecimal, Decimal
<1>5. ASSUME IsLibraryDate(v) PROVE v.type = "LibraryDate"
  BY <1>5 DEF IsLibraryDate, LibraryDateRecord
<1>6. ASSUME IsChronoTime(v) PROVE v.type = "LibraryTime" /\ v.library = "chrono"
  BY <1>6 DEF IsChronoTime, ChronoRecord
<1>7. ASSUME IsClockTime(v) PROVE v.type = "LibraryTime" /\ v.library # "chrono"
  <2>1. PICK library \in {"jiff", "time"} : \E h, i, s, o : v = ClockRecord(library, h, i, s, o)
    BY <1>7 DEF IsClockTime
  <2>2. v.type = "LibraryTime" /\ v.library = library
    BY <2>1 DEF ClockRecord
  <2> QED BY <2>2
<1>8. ASSUME IsLibraryStamp(v) PROVE v.type = "LibraryTimestamp"
  BY <1>8 DEF IsLibraryStamp, LibraryTimestamp
<1>9. ASSUME IsBigDecimal(v) PROVE v.type = "BigDecimal"
  BY <1>9 DEF IsBigDecimal, BigDecimal
<1>10. ASSUME IsRustDecimal(v) PROVE v.type = "RustDecimal"
  BY <1>10 DEF IsRustDecimal, RustRecord
<1> QED BY <1>1, <1>2, <1>3, <1>4, <1>5, <1>6, <1>7, <1>8, <1>9, <1>10

\* A value is no panic and no exception.
LEMMA ValuesAreNoPanic ==
  ASSUME NEW v, IsConvertible(v)
  PROVE  v \notin {Panic, ValueError}
<1>1. Panic.type = "Panic" /\ ValueError.type = "ValueError"
  BY DEF Panic, ValueError
<1>2. (IsDate(v) \/ IsTime(v) \/ IsStamp(v) \/ IsDecimal(v)) =>
        v.type \in {"Date", "Time", "UtcTimestamp", "Decimal"}
  BY TypesOf, Zenon
<1>3. IsOfLibrary(v) => v.type \in {"LibraryDate", "LibraryTime", "LibraryTimestamp", "BigDecimal", "RustDecimal"}
  BY TypesOf, Zenon DEF IsOfLibrary
<1>4. \/ v.type \in Finals
      \/ v.type \in {"Date", "Time", "UtcTimestamp", "Decimal"}
      \/ v.type \in {"LibraryDate", "LibraryTime", "LibraryTimestamp", "BigDecimal", "RustDecimal"}
  BY <1>2, <1>3, Zenon DEF IsConvertible
<1>5. v.type # "Panic" /\ v.type # "ValueError"
  BY <1>4, Zenon DEF Finals
<1> QED BY <1>1, <1>5, Zenon

\* Which conversions there are of each type.
LEMMA FinalsStay ==
  ASSUME NEW v, v.type \in Finals
  PROVE  IntoLibrary(v) = {} /\ FromLibrary(v) = {}
<1>1. /\ v.type # "Date" /\ v.type # "Time" /\ v.type # "UtcTimestamp" /\ v.type # "Decimal"
      /\ v.type # "LibraryDate" /\ v.type # "LibraryTime" /\ v.type # "LibraryTimestamp"
      /\ v.type # "BigDecimal" /\ v.type # "RustDecimal"
  BY Zenon DEF Finals
<1>2. IntoLibrary(v) = {}
  BY <1>1, Zenon DEF IntoLibrary
<1>3. FromLibrary(v) = {}
  BY <1>1, Zenon DEF FromLibrary
<1> QED BY <1>2, <1>3

LEMMA OfDate ==
  ASSUME NEW v, v.type = "Date"
  PROVE  /\ IntoLibrary(v) = {IntoChronoDate(v), IntoJiffDate(v), IntoTimeDate(v), PyDate(v)}
         /\ FromLibrary(v) = {}
<1>1. IntoLibrary(v) = {IntoChronoDate(v), IntoJiffDate(v), IntoTimeDate(v), PyDate(v)}
  BY Zenon DEF IntoLibrary
<1>2. FromLibrary(v) = {}
  BY Zenon DEF FromLibrary
<1> QED BY <1>1, <1>2, Zenon

LEMMA OfTime ==
  ASSUME NEW v, v.type = "Time"
  PROVE  /\ IntoLibrary(v) = {IntoChronoTime(v), IntoJiffTime(v), IntoTimeTime(v), PyTime(v), PyNanos(v)}
         /\ FromLibrary(v) = {}
<1>1. IntoLibrary(v) = {IntoChronoTime(v), IntoJiffTime(v), IntoTimeTime(v), PyTime(v), PyNanos(v)}
  BY Zenon DEF IntoLibrary
<1>2. FromLibrary(v) = {}
  BY Zenon DEF FromLibrary
<1> QED BY <1>1, <1>2, Zenon

LEMMA OfStamp ==
  ASSUME NEW v, v.type = "UtcTimestamp"
  PROVE  /\ IntoLibrary(v) = {IntoChronoTimestamp(v), IntoJiffTimestamp(v), IntoUtcDateTime(v),
                              PyDateTime(v), PyNanos(v)}
         /\ FromLibrary(v) = {}
<1>1. IntoLibrary(v) = {IntoChronoTimestamp(v), IntoJiffTimestamp(v), IntoUtcDateTime(v),
                        PyDateTime(v), PyNanos(v)}
  BY Zenon DEF IntoLibrary
<1>2. FromLibrary(v) = {}
  BY Zenon DEF FromLibrary
<1> QED BY <1>1, <1>2, Zenon

LEMMA OfDecimal ==
  ASSUME NEW v, v.type = "Decimal"
  PROVE  /\ IntoLibrary(v) = {IntoBigDecimal(v), IntoRustDecimal(v), PyDecimal(v)}
         /\ FromLibrary(v) = {}
<1>1. IntoLibrary(v) = {IntoBigDecimal(v), IntoRustDecimal(v), PyDecimal(v)}
  BY Zenon DEF IntoLibrary
<1>2. FromLibrary(v) = {}
  BY Zenon DEF FromLibrary
<1> QED BY <1>1, <1>2, Zenon

LEMMA OfLibraryDate ==
  ASSUME NEW v, v.type = "LibraryDate"
  PROVE  /\ IntoLibrary(v) = {}
         /\ FromLibrary(v) \subseteq {FromChronoDate(v), FromJiffDate(v), FromTimeDate(v)}
<1>1. IntoLibrary(v) = {}
  BY Zenon DEF IntoLibrary
<1>2. FromLibrary(v) \subseteq {FromChronoDate(v), FromJiffDate(v), FromTimeDate(v)}
  BY Zenon DEF FromLibrary
<1> QED BY <1>1, <1>2, Zenon

LEMMA OfLibraryTime ==
  ASSUME NEW v, v.type = "LibraryTime"
  PROVE  /\ IntoLibrary(v) = {}
         /\ v.library = "chrono" => FromLibrary(v) = {FromChronoTime(v)}
         /\ v.library # "chrono" => FromLibrary(v) \subseteq {FromJiffTime(v), FromTimeTime(v)}
<1>1. IntoLibrary(v) = {}
  BY Zenon DEF IntoLibrary
<1>2. v.library = "chrono" => FromLibrary(v) = {FromChronoTime(v)}
  BY Zenon DEF FromLibrary
<1>3. v.library # "chrono" => FromLibrary(v) \subseteq {FromJiffTime(v), FromTimeTime(v)}
  BY Zenon DEF FromLibrary
<1> QED BY <1>1, <1>2, <1>3, Zenon

LEMMA OfLibraryStamp ==
  ASSUME NEW v, v.type = "LibraryTimestamp"
  PROVE  /\ IntoLibrary(v) = {}
         /\ FromLibrary(v) \subseteq {FromChronoTimestamp(v), FromJiffTimestamp(v), FromUtcDateTime(v)}
<1>1. IntoLibrary(v) = {}
  BY Zenon DEF IntoLibrary
<1>2. FromLibrary(v) \subseteq {FromChronoTimestamp(v), FromJiffTimestamp(v), FromUtcDateTime(v)}
  BY Zenon DEF FromLibrary
<1> QED BY <1>1, <1>2, Zenon

LEMMA OfLibraryDecimal ==
  ASSUME NEW v
  PROVE  /\ v.type = "BigDecimal" => IntoLibrary(v) = {} /\ FromLibrary(v) = {FromBigDecimal(v)}
         /\ v.type = "RustDecimal" => IntoLibrary(v) = {} /\ FromLibrary(v) = {FromRustDecimal(v)}
<1>1. ASSUME v.type = "BigDecimal" PROVE IntoLibrary(v) = {} /\ FromLibrary(v) = {FromBigDecimal(v)}
  <2>1. IntoLibrary(v) = {}
    BY <1>1, Zenon DEF IntoLibrary
  <2>2. FromLibrary(v) = {FromBigDecimal(v)}
    BY <1>1, Zenon DEF FromLibrary
  <2> QED BY <2>1, <2>2
<1>2. ASSUME v.type = "RustDecimal" PROVE IntoLibrary(v) = {} /\ FromLibrary(v) = {FromRustDecimal(v)}
  <2>1. IntoLibrary(v) = {}
    BY <1>2, Zenon DEF IntoLibrary
  <2>2. FromLibrary(v) = {FromRustDecimal(v)}
    BY <1>2, Zenon DEF FromLibrary
  <2> QED BY <2>1, <2>2
<1> QED BY <1>1, <1>2

-----------------------------------------------------------------------------
(* Dates, there and back. *)

LEMMA LibraryDateFields ==
  ASSUME NEW library, NEW y, NEW m, NEW k
  PROVE  /\ LibraryDateRecord(library, y, m, k).type = "LibraryDate"
         /\ LibraryDateRecord(library, y, m, k).library = library
         /\ LibraryDateRecord(library, y, m, k).year = y
         /\ LibraryDateRecord(library, y, m, k).month = m
         /\ LibraryDateRecord(library, y, m, k).day = k
         /\ LibraryDateRecord(library, y, m, k) # None
<1>1. None.type = "None"
  BY DEF None
<1> QED BY <1>1 DEF LibraryDateRecord

\* Every date is one of each library.
LEMMA DateGoes ==
  ASSUME NEW y, NEW m, NEW k, ValidDate(y, m, k), NEW library
  PROVE  LibraryDate(library, y, m, k) = LibraryDateRecord(library, y, m, k)
<1> DEFINE InYears == y \in FirstYear(library) .. LastYear(library)
           InMonth == m \in 1 .. 12 /\ k \in 1 .. days_in_month(y, m)
<1>1. InMonth
  BY SMT DEF ValidDate
<1>2. InYears
  <2>1. y \in Int /\ 0 <= y /\ y <= 9999
    BY SMT DEF ValidDate
  <2>2. /\ FirstYear(library) \in Int /\ FirstYear(library) <= 0
        /\ LastYear(library) \in Int /\ LastYear(library) >= 9999
    BY SMT DEF FirstYear, LastYear
  <2> QED BY <2>1, <2>2, SMT
<1>3. LibraryDate(library, y, m, k) =
        IF InYears /\ InMonth THEN LibraryDateRecord(library, y, m, k) ELSE None
  BY SMT DEF LibraryDate, LibraryDateRecord
<1> HIDE DEF InYears, InMonth
<1> QED BY <1>1, <1>2, <1>3, Zenon

\* A date goes to each library, and into Python but for year 0.
LEMMA DateInto ==
  ASSUME NEW y, NEW m, NEW k, ValidDate(y, m, k), NEW w \in Converted(DateRecord(y, m, k))
  PROVE  \/ w.type \in Finals
         \/ \E library \in Libs : w = LibraryDateRecord(library, y, m, k)
<1> DEFINE v == DateRecord(y, m, k)
<1>1. v.type = "Date" /\ v.year = y /\ v.month = m /\ v.day = k
  BY DEF DateRecord
<1>2. w \in IntoLibrary(v) \cup FromLibrary(v)
  BY DEF Converted
<1> HIDE DEF v
<1>3. w \in {IntoChronoDate(v), IntoJiffDate(v), IntoTimeDate(v), PyDate(v)}
  BY <1>1, <1>2, OfDate, Zenon
<1>4. /\ IntoChronoDate(v) = LibraryDateRecord("chrono", y, m, k)
      /\ IntoJiffDate(v) = LibraryDateRecord("jiff", y, m, k)
      /\ IntoTimeDate(v) = LibraryDateRecord("time", y, m, k)
  <2>1. \A library : expect(LibraryDate(library, v.year, v.month, v.day)) =
                       LibraryDateRecord(library, y, m, k)
    <3>1. TAKE library
    <3>2. LibraryDate(library, v.year, v.month, v.day) = LibraryDateRecord(library, y, m, k)
      BY <1>1, DateGoes, Zenon
    <3>3. LibraryDateRecord(library, y, m, k) # None
      BY LibraryDateFields
    <3> QED BY <3>2, <3>3, Zenon DEF expect
  <2> QED BY <2>1, Zenon DEF IntoChronoDate, IntoJiffDate, IntoTimeDate
<1>5. PyDate(v).type \in Finals
  <2>1. CASE y = 0
    <3>1. InvalidValue.type = "InvalidValue"
      BY DEF InvalidValue
    <3>2. PyDate(v) = InvalidValue
      BY <1>1, <2>1, Zenon DEF PyDate
    <3> QED BY <3>1, <3>2, Zenon DEF Finals
  <2>2. CASE y # 0
    <3> DEFINE d == [type |-> "PyDate", year |-> y, month |-> m, day |-> k]
    <3>1. y \in 1 .. 9999 /\ m \in 1 .. 12 /\ k \in 1 .. days_in_month(y, m)
      BY <2>2, SMT DEF ValidDate
    <3>2. d.type = "PyDate" /\ None.type = "None"
      BY DEF None
    <3>3. PyDateOf(y, m, k) = d
      <4> DEFINE Fits == y \in 1 .. 9999 /\ m \in 1 .. 12 /\ k \in 1 .. days_in_month(y, m)
      <4>1. PyDateOf(y, m, k) = IF Fits THEN d ELSE None
        BY SMT DEF PyDateOf
      <4>2. Fits
        BY <3>1, SMT
      <4> HIDE DEF d, Fits
      <4> QED BY <4>1, <4>2, Zenon
    <3> HIDE DEF d
    <3>4. PyDate(v) = d
      BY <1>1, <2>2, <3>2, <3>3, Zenon DEF PyDate, Some
    <3> QED BY <3>2, <3>4, Zenon DEF Finals
  <2> QED BY <2>1, <2>2
<1> QED BY <1>3, <1>4, <1>5, Zenon DEF Libs

\* A library's date comes back as the same date, or is out of range.
LEMMA DateFrom ==
  ASSUME NEW library \in Libs, NEW y, NEW m, NEW k, NEW w \in Converted(LibraryDateRecord(library, y, m, k))
  PROVE  \/ w = OutOfRange /\ ~ValidDate(y, m, k)
         \/ w = DateRecord(y, m, k) /\ ValidDate(y, m, k)
<1> DEFINE v == LibraryDateRecord(library, y, m, k)
<1>1. /\ v.type = "LibraryDate" /\ v.library = library
      /\ v.year = y /\ v.month = m /\ v.day = k
  BY DEF LibraryDateRecord
<1>2. w \in IntoLibrary(v) \cup FromLibrary(v)
  BY DEF Converted
<1> HIDE DEF v
<1>3. w \in {FromChronoDate(v), FromJiffDate(v), FromTimeDate(v)}
  BY <1>1, <1>2, OfLibraryDate, Zenon
<1>4. w = ok_or_out_of_range(Date(y, m, k))
  BY <1>1, <1>3, Zenon DEF FromChronoDate, FromJiffDate, FromTimeDate
<1> QED BY <1>4, DateCases, Zenon DEF ok_or_out_of_range

-----------------------------------------------------------------------------
(* Times, there and back. *)

LEMMA DivideBySecond ==
  ASSUME NEW q \in Int, NEW r \in Int, 0 <= r, r < Second
  PROVE  (q * Second + r) \div Second = q /\ (q * Second + r) % Second = r
<1> DEFINE S == Second
           x == q * S + r
<1>1. S \in Int /\ S > 0
  BY DayOfNanos
<1> HIDE DEF S
<1>2. x \in Int /\ x = S * q + r
  BY <1>1
<1> HIDE DEF x
<1>3. x % S = r
  BY <1>1, <1>2, SMTT(30) DEF S
<1>4. x \div S = q
  BY <1>1, <1>2, SMTT(30) DEF S
<1> QED BY <1>3, <1>4 DEF S, x

\* The seconds of a time, and what is left.
LEMMA SecondsOf ==
  ASSUME NEW n \in Int, 0 <= n
  PROVE  /\ n \div Second \in Int /\ 0 <= n \div Second
         /\ n % Second \in Int /\ 0 <= n % Second /\ n % Second < Second
         /\ n = (n \div Second) * Second + (n % Second)
<1> DEFINE S == Second
<1>1. S \in Int /\ S > 0
  BY DayOfNanos
<1> HIDE DEF S
<1>2. n \div S \in Int /\ n % S \in Int /\ 0 <= n % S /\ n % S < S
  BY <1>1, SMTT(30)
<1>3. \A q, r \in Int : q = n \div S /\ r = n % S => n = q * S + r
  BY <1>1, SMTT(30)
<1> DEFINE Q == n \div S
           R == n % S
<1>4. Q \in Int /\ R \in Int /\ 0 <= R /\ R < S
  BY <1>2
<1>5. n = Q * S + R
  <2>1. Q = n \div S /\ R = n % S
    OBVIOUS
  <2> HIDE DEF Q, R
  <2> QED BY <1>3, <1>4, <2>1
<1> HIDE DEF Q, R
<1>6. 0 <= Q
  <2>1. ASSUME Q < 0 PROVE FALSE
    <3>1. \A q \in Int : q < 0 => q * S + S <= 0
      BY <1>1, SMTT(30)
    <3>2. Q * S + S <= 0 /\ Q * S \in Int
      BY <1>1, <1>4, <2>1, <3>1
    <3> DEFINE x == Q * S
    <3> HIDE DEF x
    <3>3. x + S <= 0 /\ x \in Int /\ n = x + R
      BY <1>5, <3>2 DEF x
    <3> QED BY <1>1, <1>4, <3>3
  <2> QED BY <1>4, <2>1
<1> QED BY <1>4, <1>5, <1>6 DEF Q, R, S

\* A time before midnight has less than 86,400 seconds.
LEMMA SecondsBelow ==
  ASSUME NEW q \in Int, NEW r \in Int, 0 <= r, r < Second, NEW t \in Int
  PROVE  q * Second + r < t * Second <=> q < t
<1> DEFINE S == Second
<1>1. S \in Int /\ S > 0
  BY DayOfNanos
<1>0. r < S
  OBVIOUS
<1> HIDE DEF S
<1>2. ASSUME q < t PROVE q * S + r < t * S
  <2>1. (t - q) * S >= S
    BY <1>1, <1>2, SMTT(30)
  <2>2. (t - q) * S = t * S - q * S
    BY <1>1, SMTT(30)
  <2>3. t * S \in Int /\ q * S \in Int
    BY <1>1
  <2> QED BY <1>0, <1>1, <2>1, <2>2, <2>3
<1>3. ASSUME q >= t PROVE ~(q * S + r < t * S)
  <2>1. (q - t) * S >= 0
    BY <1>1, <1>3, SMTT(30)
  <2>2. (q - t) * S = q * S - t * S
    BY <1>1, SMTT(30)
  <2>3. t * S \in Int /\ q * S \in Int
    BY <1>1
  <2> QED BY <1>1, <2>1, <2>2, <2>3
<1> QED BY <1>2, <1>3 DEF S

\* The hours, minutes and seconds of a number of seconds.
LEMMA ClockOfSeconds ==
  ASSUME NEW t \in Int, 0 <= t, t < 86400
  PROVE  /\ t \div 3600 \in 0 .. 23 /\ (t \div 60) % 60 \in 0 .. 59 /\ t % 60 \in 0 .. 59
         /\ ClockSeconds(t \div 3600, (t \div 60) % 60, t % 60) = t
<1> QED BY SMTT(30) DEF ClockSeconds

LEMMA TimeFields ==
  ASSUME NEW n, NEW p
  PROVE  /\ TimeRecord(n, p).type = "Time" /\ TimeRecord(n, p).nanos_since_midnight = n
         /\ TimeRecord(n, p).precision = p
<1> QED BY DEF TimeRecord

LEMMA ChronoFields ==
  ASSUME NEW s, NEW o
  PROVE  /\ ChronoRecord(s, o).type = "LibraryTime" /\ ChronoRecord(s, o).library = "chrono"
         /\ ChronoRecord(s, o).seconds = s /\ ChronoRecord(s, o).nano = o
         /\ ChronoRecord(s, o) # None
<1>1. None.type = "None"
  BY DEF None
<1> QED BY <1>1 DEF ChronoRecord

LEMMA ClockFields ==
  ASSUME NEW library, NEW h, NEW i, NEW s, NEW o
  PROVE  /\ ClockRecord(library, h, i, s, o).type = "LibraryTime"
         /\ ClockRecord(library, h, i, s, o).library = library
         /\ ClockRecord(library, h, i, s, o).hour = h /\ ClockRecord(library, h, i, s, o).minute = i
         /\ ClockRecord(library, h, i, s, o).second = s /\ ClockRecord(library, h, i, s, o).nano = o
         /\ ClockRecord(library, h, i, s, o) # None
<1>1. None.type = "None"
  BY DEF None
<1> QED BY <1>1 DEF ClockRecord

LEMMA NaiveTimeIs ==
  ASSUME NEW s, NEW o
  PROVE  /\ ChronoRange(s, o) => NaiveTime(s, o) = ChronoRecord(s, o)
         /\ ~ChronoRange(s, o) => NaiveTime(s, o) = None
<1> DEFINE Fits == /\ s \in 0 .. LAST_SECOND /\ o \in 0 .. 2 * Second - 1
                   /\ o >= Second => s % 60 = 59
<1>1. NaiveTime(s, o) = IF Fits THEN ChronoRecord(s, o) ELSE None
  BY SMT DEF NaiveTime, ChronoRecord
<1>2. Fits <=> ChronoRange(s, o)
  <2>1. o \in 0 .. 2 * Second - 1 <=> o \in Int /\ 0 <= o /\ o < 2 * Second
    BY DayOfNanos, SMT
  <2> DEFINE InDay == s \in 0 .. LAST_SECOND
             InSecond == o \in 0 .. 2 * Second - 1
  <2>2. InDay <=> s \in Int /\ 0 <= s /\ s <= LAST_SECOND
    <3>1. LAST_SECOND \in Int
      BY SMT DEF LAST_SECOND
    <3> QED BY <3>1, SMT
  <2>3. InSecond <=> o \in Int /\ 0 <= o /\ o < 2 * Second
    BY <2>1
  <2>4. Fits <=> InDay /\ InSecond /\ (o >= Second => s % 60 = 59)
    OBVIOUS
  <2> HIDE DEF InDay, InSecond, Fits
  <2> QED BY <2>2, <2>3, <2>4, SMT DEF ChronoRange
<1> HIDE DEF Fits
<1> QED BY <1>1, <1>2, Zenon

LEMMA CivilTimeIs ==
  ASSUME NEW library, NEW h, NEW i, NEW s, NEW o
  PROVE  /\ ClockRange(h, i, s, o) => CivilTime(library, h, i, s, o) = ClockRecord(library, h, i, s, o)
         /\ ~ClockRange(h, i, s, o) => CivilTime(library, h, i, s, o) = None
<1> DEFINE Fits == h \in 0 .. 23 /\ i \in 0 .. 59 /\ s \in 0 .. 59 /\ o \in 0 .. Second - 1
<1>1. CivilTime(library, h, i, s, o) = IF Fits THEN ClockRecord(library, h, i, s, o) ELSE None
  BY SMT DEF CivilTime, ClockRecord
<1>2. Fits <=> ClockRange(h, i, s, o)
  <2> DEFINE InSecond == o \in 0 .. Second - 1
  <2>1. InSecond <=> o \in Int /\ 0 <= o /\ o < Second
    BY DayOfNanos, SMT
  <2> HIDE DEF InSecond
  <2> QED BY <2>1, SMT DEF ClockRange, InSecond
<1> HIDE DEF Fits
<1> QED BY <1>1, <1>2, Zenon

\* The clock of a time before midnight.
LEMMA ClockOfNanos ==
  ASSUME NEW library, NEW n \in Int, 0 <= n, n < NANOS_PER_DAY
  PROVE  \E h, i, s, o : /\ ClockRange(h, i, s, o)
                         /\ ClockSeconds(h, i, s) * Second + o = n
                         /\ Clock(library, n) = ClockRecord(library, h, i, s, o)
<1> DEFINE t == n \div Second
           o == n % Second
           h == t \div 3600
           i == (t \div 60) % 60
           s == t % 60
<1>1. /\ t \in Int /\ 0 <= t /\ o \in Int /\ 0 <= o /\ o < Second
      /\ n = t * Second + o
  BY SecondsOf
<1>2. Clock(library, n) = CivilTime(library, h, i, s, o)
  BY Zenon DEF Clock
<1> HIDE DEF t, o
<1>3. t < 86400
  <2>1. t * Second + o < 86400 * Second
    BY <1>1, SMT DEF NANOS_PER_DAY
  <2>2. 86400 \in Int
    BY SMT
  <2> QED BY <1>1, <2>1, <2>2, SecondsBelow, SMT
<1>4. h \in 0 .. 23 /\ i \in 0 .. 59 /\ s \in 0 .. 59 /\ ClockSeconds(h, i, s) = t
  BY <1>1, <1>3, ClockOfSeconds
<1> HIDE DEF h, i, s
<1>5. ClockRange(h, i, s, o)
  BY <1>1, <1>4 DEF ClockRange
<1>6. ClockSeconds(h, i, s) * Second + o = n
  BY <1>1, <1>4, Zenon
<1>7. Clock(library, n) = ClockRecord(library, h, i, s, o)
  BY <1>2, <1>5, CivilTimeIs, Zenon
<1> QED BY <1>5, <1>6, <1>7, Zenon

\* The time of a clock.
LEMMA NanosOfClock ==
  ASSUME NEW h, NEW i, NEW s, NEW o, ClockRange(h, i, s, o)
  PROVE  /\ ClockSeconds(h, i, s) * Second + o \in Int
         /\ 0 <= ClockSeconds(h, i, s) * Second + o
         /\ ClockSeconds(h, i, s) * Second + o < NANOS_PER_DAY
         /\ \A library : Clock(library, ClockSeconds(h, i, s) * Second + o)
                           = ClockRecord(library, h, i, s, o)
<1> DEFINE t == ClockSeconds(h, i, s)
           n == t * Second + o
<1>1. h \in 0 .. 23 /\ i \in 0 .. 59 /\ s \in 0 .. 59 /\ o \in Int /\ 0 <= o /\ o < Second
  BY DEF ClockRange
<1>2. /\ t \in Int /\ 0 <= t /\ t < 86400
      /\ t \div 3600 = h /\ (t \div 60) % 60 = i /\ t % 60 = s
  <2>1. h \in 0 .. 23 /\ i \in 0 .. 59 /\ s \in 0 .. 59
    BY <1>1
  <2> QED BY <2>1, SMTT(30) DEF ClockSeconds
<1> HIDE DEF t
<1>3. n \div Second = t /\ n % Second = o
  BY <1>1, <1>2, DivideBySecond
<1>4. n \in Int /\ 0 <= n
  <2>1. \A a, b \in Nat : a * b \in Nat
    BY SMT
  <2>2. t \in Nat /\ Second \in Nat
    BY <1>2, DayOfNanos
  <2>3. t * Second \in Nat
    BY <2>1, <2>2, Zenon
  <2> QED BY <1>1, <2>3
<1>5. n < NANOS_PER_DAY
  <2>1. 86400 \in Int
    BY SMT
  <2>2. \A x \in Int : t * Second + o < x * Second <=> t < x
    BY <1>1, <1>2, SecondsBelow
  <2>3. n < 86400 * Second
    BY <1>2, <2>1, <2>2, SMT
  <2> HIDE DEF n
  <2> QED BY <2>3, SMT DEF NANOS_PER_DAY
<1> HIDE DEF n
<1>6. ASSUME NEW library PROVE Clock(library, n) = ClockRecord(library, h, i, s, o)
  <2> DEFINE q == n \div Second
             r == n % Second
  <2>0. Clock(library, n) = CivilTime(library, q \div 3600, (q \div 60) % 60, q % 60, r)
    BY Zenon DEF Clock
  <2> HIDE DEF q, r
  <2>1. Clock(library, n) = CivilTime(library, t \div 3600, (t \div 60) % 60, t % 60, o)
    BY <1>3, <2>0, SMT DEF q, r
  <2>2. Clock(library, n) = CivilTime(library, h, i, s, o)
    BY <1>2, <2>1, SMT
  <2> QED BY <2>2, CivilTimeIs, Zenon
<1> QED BY <1>4, <1>5, <1>6 DEF n, t

\* The microseconds of a second are fewer than there are in one.
LEMMA MicrosFit ==
  ASSUME NEW x \in Int, 0 <= x, x < Second
  PROVE  x \div unit_nanos(MICROS) \in 0 .. Pow10[MICROS] - 1
<1> DEFINE U == Pow10[DIGITS]
           M == Pow10[MICROS]
           q == x \div U
           r == x % U
<1>1. unit_nanos(MICROS) = U /\ Second = U * M
  <2>1. DIGITS \in Nat /\ MICROS \in Nat
    BY ValuesAssumption DEF MICROS
  <2>2. NANOS - MICROS = DIGITS /\ NANOS = DIGITS + MICROS
    BY <2>1 DEF NANOS, MICROS
  <2> QED BY <2>1, <2>2, PowerSum, Zenon DEF unit_nanos, Second
<1>2. U \in Nat /\ U > 0 /\ M \in Nat /\ M > 0
  <2>1. DIGITS \in Nat /\ MICROS \in Nat
    BY ValuesAssumption DEF MICROS
  <2> QED BY <2>1, PowersOfTen
<1> HIDE DEF U, M
<1>3. q \in Int /\ r \in Int /\ 0 <= r /\ r < U
  BY <1>2, SMTT(30)
<1>4. x = q * U + r
  <2>1. \A a, b \in Int : a = x \div U /\ b = x % U => x = a * U + b
    BY <1>2, SMTT(30)
  <2>2. q = x \div U /\ r = x % U
    OBVIOUS
  <2> HIDE DEF q, r
  <2> QED BY <1>3, <2>1, <2>2
<1> HIDE DEF q, r
<1>5. 0 <= q
  <2>1. ASSUME q < 0 PROVE FALSE
    <3>1. q * U + U <= 0 /\ q * U \in Int
      BY <1>2, <1>3, <2>1, SMTT(30)
    <3> DEFINE y == q * U
    <3> HIDE DEF y
    <3>2. y + U <= 0 /\ y \in Int /\ x = y + r
      BY <1>4, <3>1 DEF y
    <3> QED BY <1>2, <1>3, <3>2
  <2> QED BY <1>3, <2>1
<1>6. q < M
  <2>1. ASSUME q >= M PROVE FALSE
    <3>1. q * U >= U * M /\ q * U \in Int /\ U * M \in Int
      <4>1. (q - M) * U \in Nat
        <5>1. \A a, b \in Nat : a * b \in Nat
          BY SMT
        <5>2. q - M \in Nat
          BY <1>2, <1>3, <2>1
        <5> QED BY <1>2, <5>1, <5>2, Zenon
      <4>2. (q - M) * U = q * U - U * M /\ q * U \in Int /\ U * M \in Int
        BY <1>2, <1>3, SMTT(30)
      <4> QED BY <4>1, <4>2
    <3> DEFINE y == q * U
               z == U * M
    <3> HIDE DEF y, z
    <3>2. y >= z /\ y \in Int /\ z \in Int /\ x = y + r /\ x < z
      BY <1>1, <1>4, <3>1 DEF y, z
    <3> QED BY <1>3, <3>2
  <2> QED BY <1>2, <1>3, <2>1
<1>7. q \in 0 .. M - 1
  BY <1>2, <1>3, <1>5, <1>6
<1> QED BY <1>1, <1>7, Zenon DEF q, M

\* Python has every time before midnight.
LEMMA PyTimeIs ==
  ASSUME NEW n \in Int, 0 <= n, n < NANOS_PER_DAY
  PROVE  ClockTime(n).type = "PyTime" /\ ClockTime(n) # None
<1> DEFINE t == n \div Second
           h == t \div 3600
           i == (t \div 60) % 60
           s == t % 60
           m == (n % Second) \div unit_nanos(MICROS)
           hms == <<h, i, s>>
           v == [type |-> "PyTime", hms |-> hms, microsecond |-> m]
<1>1. m \in 0 .. Pow10[MICROS] - 1
  <2>1. n % Second \in Int /\ 0 <= n % Second /\ n % Second < Second
    BY SecondsOf
  <2> QED BY <2>1, MicrosFit
<1>2. t \in Int /\ 0 <= t /\ t < 86400
  <2> DEFINE r == n % Second
  <2>1. t \in Int /\ 0 <= t /\ r \in Int /\ 0 <= r /\ r < Second /\ n = t * Second + r
    BY SecondsOf
  <2> HIDE DEF t, r
  <2>2. \A x \in Int : t * Second + r < x * Second <=> t < x
    BY <2>1, SecondsBelow
  <2>3. t * Second + r < 86400 * Second /\ 86400 \in Int
    BY <2>1, SMT DEF NANOS_PER_DAY
  <2> QED BY <2>1, <2>2, <2>3, SMT
<1>3. ClockTime(n) = PyTimeOf(hms, m)
  BY Zenon DEF ClockTime
<1> HIDE DEF t, m
<1>4. h \in 0 .. 23 /\ i \in 0 .. 59 /\ s \in 0 .. 59
  BY <1>2, ClockOfSeconds
<1>5. hms[1] = h /\ hms[2] = i /\ hms[3] = s
  <2> HIDE DEF h, i, s
  <2> QED OBVIOUS
<1> HIDE DEF h, i, s, hms
<1>6. PyTimeOf(hms, m) = v
  <2> DEFINE Fits == /\ hms[1] \in 0 .. 23 /\ hms[2] \in 0 .. 59 /\ hms[3] \in 0 .. 59
                     /\ m \in 0 .. Pow10[MICROS] - 1
  <2>1. PyTimeOf(hms, m) = IF Fits THEN v ELSE None
    BY SMT DEF PyTimeOf
  <2>2. Fits
    BY <1>1, <1>4, <1>5, Zenon
  <2> HIDE DEF Fits
  <2> QED BY <2>1, <2>2, Zenon
<1>7. v.type = "PyTime" /\ None.type = "None"
  BY DEF None
<1> HIDE DEF v
<1>8. v # None
  BY <1>7
<1> QED BY <1>3, <1>6, <1>7, <1>8, Zenon

\* The last nanosecond of a day, where a leap second is clamped to.
Clamped(n) == Lesser(n, NANOS_PER_DAY - 1)

LEMMA ClampedIs ==
  ASSUME NEW n, TimeRange(n)
  PROVE  /\ Clamped(n) \in Int /\ 0 <= Clamped(n) /\ Clamped(n) < NANOS_PER_DAY
         /\ n < NANOS_PER_DAY => Clamped(n) = n
         /\ ~(n < NANOS_PER_DAY) => Clamped(n) = NANOS_PER_DAY - 1
<1> QED BY DayOfNanos DEF Clamped, Lesser, TimeRange

\* chrono's seconds and nanoseconds of a time.
ChronoSeconds(n) == Lesser(n \div Second, LAST_SECOND)

LEMMA ChronoOfNanos ==
  ASSUME NEW n, TimeRange(n)
  PROVE  /\ ChronoRange(ChronoSeconds(n), n - ChronoSeconds(n) * Second)
         /\ ChronoSeconds(n) * Second + (n - ChronoSeconds(n) * Second) = n
<1> DEFINE q == n \div Second
           r == n % Second
           s == ChronoSeconds(n)
<1>1. n \in Int /\ 0 <= n /\ n < NANOS_PER_DAY + Second
  BY DEF TimeRange
<1>2. q \in Int /\ 0 <= q /\ r \in Int /\ 0 <= r /\ r < Second /\ n = q * Second + r
  BY <1>1, SecondsOf
<1>3. s = Lesser(q, LAST_SECOND)
  BY DEF ChronoSeconds
<1> HIDE DEF q, r, s
<1>4. q <= 86400
  <2>1. \A x \in Int : q * Second + r < x * Second <=> q < x
    BY <1>2, SecondsBelow
  <2>2. q * Second + r < 86401 * Second /\ 86401 \in Int
    BY <1>1, <1>2, DayOfNanos, SMT DEF NANOS_PER_DAY
  <2> QED BY <1>2, <2>1, <2>2, SMT
<1>5. Second \in Int /\ Second > 0
  BY DayOfNanos
<1>6. s \in Int /\ 0 <= s /\ s <= LAST_SECOND /\ (s = q \/ (s = LAST_SECOND /\ q = LAST_SECOND + 1))
  BY <1>2, <1>3, <1>4, SMT DEF Lesser, LAST_SECOND
<1>7. CASE s = q
  <2> DEFINE y == q * Second
  <2>1. y \in Int /\ n = y + r
    BY <1>2, <1>5
  <2>2. s * Second = y
    BY <1>7
  <2> HIDE DEF y
  <2>3. n - s * Second = r /\ s * Second + (n - s * Second) = n
    BY <1>2, <2>1, <2>2
  <2>4. r < 2 * Second /\ ~(r >= Second)
    BY <1>2, <1>5
  <2> QED BY <1>2, <1>6, <2>3, <2>4, SMT DEF ChronoRange, s
<1>8. CASE s = LAST_SECOND /\ q = LAST_SECOND + 1
  <2> DEFINE y == s * Second
  <2>1. y \in Int /\ n = y + Second + r
    <3>1. q * Second = s * Second + Second
      BY <1>5, <1>6, <1>8, SMTT(30)
    <3> QED BY <1>2, <1>5, <1>6, <3>1
  <2> HIDE DEF y
  <2>3. n - y = Second + r /\ y + (n - y) = n
    BY <1>2, <1>5, <2>1
  <2>4. Second + r < 2 * Second /\ Second + r \in Int /\ 0 <= Second + r
    BY <1>2, <1>5
  <2>5. s % 60 = 59
    BY <1>8, SMT DEF LAST_SECOND
  <2>6. ChronoRange(s, n - y)
    BY <1>6, <2>3, <2>4, <2>5, SMT DEF ChronoRange
  <2> QED BY <2>3, <2>6, Zenon DEF y, s
<1> QED BY <1>6, <1>7, <1>8

LEMMA PyNanosIs ==
  ASSUME NEW v
  PROVE  PyNanos(v).type \in Finals
<1>1. \E x : PyNanos(v) = [type |-> "PyInt", value |-> x]
  BY Zenon DEF PyNanos
<1>2. \A x : [type |-> "PyInt", value |-> x].type = "PyInt"
  OBVIOUS
<1> QED BY <1>1, <1>2, Zenon DEF Finals

\* A time goes to chrono whole, and to the others and Python as the last
\* nanosecond of the day if it is a leap second.
LEMMA TimeInto ==
  ASSUME NEW n, NEW p, TimeRange(n), NEW w \in Converted(TimeRecord(n, p))
  PROVE  \/ w.type \in Finals
         \/ w = ChronoRecord(ChronoSeconds(n), n - ChronoSeconds(n) * Second)
         \/ \E library \in {"jiff", "time"} : \E h, i, s, o :
              /\ ClockRange(h, i, s, o)
              /\ ClockSeconds(h, i, s) * Second + o = Clamped(n)
              /\ Clock(library, Clamped(n)) = ClockRecord(library, h, i, s, o)
              /\ w = ClockRecord(library, h, i, s, o)
<1> DEFINE v == TimeRecord(n, p)
<1>1. v.type = "Time" /\ v.nanos_since_midnight = n
  BY TimeFields
<1>2. w \in IntoLibrary(v) \cup FromLibrary(v)
  BY DEF Converted
<1> HIDE DEF v
<1>3. w \in {IntoChronoTime(v), IntoJiffTime(v), IntoTimeTime(v), PyTime(v), PyNanos(v)}
  BY <1>1, <1>2, OfTime, Zenon
<1>4. ClampedToDay(v) = Clamped(n)
  BY <1>1, SMT DEF ClampedToDay, Clamped
<1>5. IntoChronoTime(v) = ChronoRecord(ChronoSeconds(n), n - ChronoSeconds(n) * Second)
  <2>1. IntoChronoTime(v) = expect(NaiveTime(ChronoSeconds(n), n - ChronoSeconds(n) * Second))
    BY <1>1, SMT DEF IntoChronoTime, ChronoSeconds
  <2>2. NaiveTime(ChronoSeconds(n), n - ChronoSeconds(n) * Second) =
          ChronoRecord(ChronoSeconds(n), n - ChronoSeconds(n) * Second)
    BY ChronoOfNanos, NaiveTimeIs, Zenon
  <2>3. ChronoRecord(ChronoSeconds(n), n - ChronoSeconds(n) * Second) # None
    BY ChronoFields
  <2> QED BY <2>1, <2>2, <2>3, Zenon DEF expect
<1>6. PyTime(v).type \in Finals
  <2>1. ClockTime(Clamped(n)).type = "PyTime" /\ ClockTime(Clamped(n)) # None
    BY ClampedIs, PyTimeIs, Zenon
  <2>2. PyTime(v) = ClockTime(Clamped(n))
    BY <1>4, <2>1, Zenon DEF PyTime, Some
  <2> QED BY <2>1, <2>2, Zenon DEF Finals
<1>7. PyNanos(v).type \in Finals
  BY PyNanosIs
<1>8. \A library : \E h, i, s, o :
        /\ ClockRange(h, i, s, o)
        /\ ClockSeconds(h, i, s) * Second + o = Clamped(n)
        /\ Clock(library, Clamped(n)) = ClockRecord(library, h, i, s, o)
        /\ expect(Clock(library, Clamped(n))) = ClockRecord(library, h, i, s, o)
  <2>1. TAKE library
  <2>2. PICK h, i, s, o : /\ ClockRange(h, i, s, o)
                          /\ ClockSeconds(h, i, s) * Second + o = Clamped(n)
                          /\ Clock(library, Clamped(n)) = ClockRecord(library, h, i, s, o)
    <3> DEFINE c == Clamped(n)
    <3>1. c \in Int /\ 0 <= c /\ c < NANOS_PER_DAY
      BY ClampedIs
    <3> HIDE DEF c
    <3>2. \E h, i, s, o : /\ ClockRange(h, i, s, o)
                          /\ ClockSeconds(h, i, s) * Second + o = c
                          /\ Clock(library, c) = ClockRecord(library, h, i, s, o)
      BY <3>1, ClockOfNanos
    <3> QED BY <3>2 DEF c
  <2>3. ClockRecord(library, h, i, s, o) # None
    BY ClockFields
  <2> QED BY <2>2, <2>3, Zenon DEF expect
<1>9. IntoJiffTime(v) = expect(Clock("jiff", Clamped(n))) /\ IntoTimeTime(v) = expect(Clock("time", Clamped(n)))
  BY <1>4, Zenon DEF IntoJiffTime, IntoTimeTime
<1> QED BY <1>3, <1>5, <1>6, <1>7, <1>8, <1>9, Zenon

LEMMA TimeIs ==
  ASSUME NEW n, TimeRange(n), NEW p
  PROVE  expect(Time(n, p)) = TimeRecord(n, p)
<1> DEFINE Fits == n \in 0 .. 86401 * Second - 1
<1>1. Time(n, p) = IF Fits THEN TimeRecord(n, p) ELSE None
  BY SMT DEF Time, TimeRecord
<1>2. Fits
  BY DayOfNanos, SMT DEF TimeRange, NANOS_PER_DAY
<1>3. TimeRecord(n, p) # None
  <2>1. None.type = "None"
    BY DEF None
  <2> QED BY <2>1, TimeFields
<1> HIDE DEF Fits
<1> QED BY <1>1, <1>2, <1>3, Zenon DEF expect

\* A time of a library comes back.
LEMMA ChronoFrom ==
  ASSUME NEW s, NEW o, ChronoRange(s, o), NEW w \in Converted(ChronoRecord(s, o))
  PROVE  /\ TimeRange(s * Second + o)
         /\ \E p : w = TimeRecord(s * Second + o, p)
<1> DEFINE v == ChronoRecord(s, o)
           n == s * Second + o
<1>1. v.type = "LibraryTime" /\ v.library = "chrono" /\ v.seconds = s /\ v.nano = o
  BY ChronoFields
<1>2. w \in IntoLibrary(v) \cup FromLibrary(v)
  BY DEF Converted
<1> HIDE DEF v
<1>3. w = FromChronoTime(v)
  BY <1>1, <1>2, OfLibraryTime, Zenon
<1>4. w = expect(Time(n, exact_precision(n)))
  BY <1>1, <1>3, Zenon DEF FromChronoTime
<1>5. TimeRange(n)
  <2>1. s \in Int /\ 0 <= s /\ s <= LAST_SECOND /\ o \in Int /\ 0 <= o /\ o < 2 * Second
    BY DEF ChronoRange
  <2>2. Second \in Int /\ Second > 0
    BY DayOfNanos
  <2>3. s * Second \in Int /\ 0 <= s * Second /\ s * Second <= LAST_SECOND * Second
        /\ LAST_SECOND * Second + Second = NANOS_PER_DAY
    <3>1. \A a, b \in Nat : a * b \in Nat
      BY SMT
    <3>2. s \in Nat /\ Second \in Nat /\ LAST_SECOND - s \in Nat /\ LAST_SECOND \in Int
      BY <2>1, <2>2, SMT DEF LAST_SECOND
    <3>3. s * Second \in Nat /\ (LAST_SECOND - s) * Second \in Nat
      BY <3>1, <3>2, Zenon
    <3>4. (LAST_SECOND - s) * Second = LAST_SECOND * Second - s * Second
      BY <2>1, <2>2, <3>2, SMTT(30)
    <3>5. LAST_SECOND * Second \in Int
      BY <2>2, <3>2
    <3>6. LAST_SECOND * Second + Second = NANOS_PER_DAY
      BY <2>2, SMT DEF LAST_SECOND, NANOS_PER_DAY
    <3> QED BY <3>3, <3>4, <3>5, <3>6
  <2> DEFINE x == s * Second
             y == LAST_SECOND * Second
  <2>4. x \in Int /\ 0 <= x /\ x <= y /\ y + Second = NANOS_PER_DAY /\ n = x + o
    BY <2>3
  <2>5. y \in Int
    BY <2>2, SMT DEF LAST_SECOND
  <2> HIDE DEF x, y, n
  <2> QED BY <2>1, <2>2, <2>4, <2>5, DayOfNanos, SMT DEF TimeRange
<1> HIDE DEF n
<1>6. w = TimeRecord(n, exact_precision(n))
  BY <1>4, <1>5, TimeIs, Zenon
<1> QED BY <1>5, <1>6 DEF n

LEMMA ClockFrom ==
  ASSUME NEW library \in {"jiff", "time"}, NEW h, NEW i, NEW s, NEW o, ClockRange(h, i, s, o),
         NEW w \in Converted(ClockRecord(library, h, i, s, o))
  PROVE  /\ TimeRange(ClockSeconds(h, i, s) * Second + o)
         /\ \E p : w = TimeRecord(ClockSeconds(h, i, s) * Second + o, p)
<1> DEFINE v == ClockRecord(library, h, i, s, o)
           n == ClockSeconds(h, i, s) * Second + o
<1>1. /\ v.type = "LibraryTime" /\ v.library = library
      /\ v.hour = h /\ v.minute = i /\ v.second = s /\ v.nano = o
  BY ClockFields
<1>2. w \in IntoLibrary(v) \cup FromLibrary(v)
  BY DEF Converted
<1> HIDE DEF v
<1>3. w \in {FromJiffTime(v), FromTimeTime(v)}
  <2>1. library # "chrono"
    OBVIOUS
  <2> QED BY <1>1, <1>2, <2>1, OfLibraryTime, Zenon
<1>4. w = expect(OfClock(v))
  BY <1>3, Zenon DEF FromJiffTime, FromTimeTime
<1>5. OfClock(v) = Time(n, exact_precision(n))
  BY <1>1, SMT DEF OfClock, ClockSeconds
<1>6. TimeRange(n)
  <2>1. n \in Int /\ 0 <= n /\ n < NANOS_PER_DAY
    BY NanosOfClock, Zenon
  <2> HIDE DEF n
  <2> QED BY <2>1, DayOfNanos, SMT DEF TimeRange
<1> HIDE DEF n
<1>7. w = TimeRecord(n, exact_precision(n))
  BY <1>4, <1>5, <1>6, TimeIs, Zenon
<1> QED BY <1>6, <1>7 DEF n

-----------------------------------------------------------------------------
(* Timestamps and decimals, there and back. *)

\* The days of a timestamp start in 1677, well after year 0.
LEMMA NotYearZero ==
  ASSUME NEW y, NEW m, NEW k, ValidDate(y, m, k),
         -LAST_DAY - 1 <= days_since_epoch(DateRecord(y, m, k))
  PROVE  y # 0
<1>1. y \in Int /\ m \in 1 .. 12 /\ k \in 1 .. days_in_month(y, m) /\ k \in Int
  BY ValidParts
<1>2. /\ days_since_epoch(DateRecord(y, m, k)) = DaysBefore(MarchYear(y, m)) + DayOfYear(m, k) - EPOCH
      /\ MarchYear(y, m) \in Int
  BY <1>1, DayCount
<1>3. DayOfYear(m, k) \in Int /\ DayOfYear(m, k) <= 365
  BY <1>1, MonthOfDay
<1>4. ASSUME y = 0 PROVE FALSE
  <2> DEFINE Y == MarchYear(y, m)
             n == DayOfYear(m, k)
             d == DaysBefore(Y)
  <2>1. Y \in Int /\ (Y = 0 \/ Y = 0 - 1)
    BY <1>1, <1>4, SMT DEF MarchYear
  <2> HIDE DEF Y
  <2>2. d \in Int /\ d <= 0
    BY <2>1, SMT DEF DaysBefore
  <2>3. days_since_epoch(DateRecord(y, m, k)) = d + n - EPOCH /\ n \in Int /\ n <= 365
    BY <1>2, <1>3 DEF Y
  <2> HIDE DEF d, n
  <2> QED BY <2>2, <2>3, SMT DEF EPOCH, LAST_DAY
<1> QED BY <1>4

\* Python has every day that an i64 of nanoseconds falls on.
LEMMA PyDateTimeIs ==
  ASSUME NEW n \in Int, I64(n), NEW p
  PROVE  PyDateTime(UtcTimestamp(n, p)).type \in Finals
<1> DEFINE v == UtcTimestamp(n, p)
           days == n \div NANOS_PER_DAY
           nanos == n % NANOS_PER_DAY
<1>1. v.unix_nanos = n /\ v.precision = p
  BY DEF UtcTimestamp
<1>2. days \in Int /\ nanos \in Int /\ 0 <= nanos /\ nanos < NANOS_PER_DAY
  BY DaysOfNanos
<1>3. -LAST_DAY - 1 <= days /\ days <= LAST_DAY
  <2> DEFINE N == NANOS_PER_DAY
             final == I64_MAX \div N
             initial == (-I64_MAX - 1) \div N
  <2>1. final \in Int /\ 0 <= final /\ final <= LAST_DAY /\ initial = -final - 1
    BY DaysOf64
  <2>2. N \in Int /\ N > 0 /\ I64_MAX \in Int
    BY DayOfNanos, ValuesAssumption
  <2> HIDE DEF N
  <2>3. \A a, b \in Int : a <= b => a \div N <= b \div N
    BY <2>2, SMTT(30)
  <2>4. -I64_MAX - 1 <= n /\ n <= I64_MAX /\ -I64_MAX - 1 \in Int
    BY <2>2, SMT DEF I64
  <2>5. initial <= n \div N /\ n \div N <= final
    BY <2>2, <2>3, <2>4, Zenon
  <2> DEFINE d == n \div N
  <2>6. d \in Int /\ initial <= d /\ d <= final
    BY <1>2, <2>5 DEF N
  <2> HIDE DEF final, initial, d
  <2>7. -LAST_DAY - 1 <= d /\ d <= LAST_DAY
    BY <2>1, <2>6, SMT DEF LAST_DAY
  <2> QED BY <2>7 DEF d, N
<1>4. PICK y, m, k : /\ ValidDate(y, m, k)
                     /\ days_since_epoch(DateRecord(y, m, k)) = days
                     /\ from_days_since_epoch(days) = DateRecord(y, m, k)
  <2> HIDE DEF days
  <2> QED BY <1>2, <1>3, DaysHaveADate
<1>5. y # 0
  <2> HIDE DEF days
  <2> QED BY <1>3, <1>4, NotYearZero
<1>6. DateOf(v) = DateRecord(y, m, k)
  BY <1>1, <1>4, Zenon DEF DateOf
<1>7. DateOf(v).year = y /\ DateOf(v).month = m /\ DateOf(v).day = k
  BY <1>6 DEF DateRecord
<1>8. TimeOf(v).nanos_since_midnight = nanos
  <2>1. TimeOf(v) = Time(nanos, p)
    BY <1>1, Zenon DEF TimeOf
  <2> HIDE DEF nanos, v
  <2> QED BY <1>2, <2>1, TimeCases, Zenon
<1>9. ClockTime(nanos).type = "PyTime" /\ ClockTime(nanos) # None
  <2> HIDE DEF nanos
  <2> QED BY <1>2, PyTimeIs
<1>10. PyDateOf(y, m, k) # None
  <2> DEFINE d == [type |-> "PyDate", year |-> y, month |-> m, day |-> k]
             Fits == y \in 1 .. 9999 /\ m \in 1 .. 12 /\ k \in 1 .. days_in_month(y, m)
  <2>1. PyDateOf(y, m, k) = IF Fits THEN d ELSE None
    BY SMT DEF PyDateOf
  <2>2. Fits
    BY <1>4, <1>5, SMT DEF ValidDate
  <2>3. d.type = "PyDate" /\ None.type = "None"
    BY DEF None
  <2> HIDE DEF d, Fits
  <2> QED BY <2>1, <2>2, <2>3, Zenon
<1> HIDE DEF v, nanos
<1>11. PyDateTime(v) = [type |-> "PyDateTime", date |-> PyDateOf(y, m, k), time |-> ClockTime(nanos)]
  BY <1>7, <1>8, <1>9, <1>10, Zenon DEF PyDateTime
<1>12. PyDateTime(v).type = "PyDateTime"
  BY <1>11
<1>13. PyDateTime(v).type \in Finals
  BY <1>12, Zenon DEF Finals
<1> QED BY <1>13 DEF v

LEMMA StampInto ==
  ASSUME NEW n \in Int, I64(n), NEW p, NEW w \in Converted(UtcTimestamp(n, p))
  PROVE  \/ w.type \in Finals
         \/ \E library \in Libs : w = LibraryTimestamp(library, n)
<1> DEFINE v == UtcTimestamp(n, p)
<1>1. v.type = "UtcTimestamp" /\ v.unix_nanos = n
  BY DEF UtcTimestamp
<1>2. w \in IntoLibrary(v) \cup FromLibrary(v) /\ PyDateTime(v).type \in Finals
  BY PyDateTimeIs DEF Converted
<1> HIDE DEF v
<1>3. w \in {IntoChronoTimestamp(v), IntoJiffTimestamp(v), IntoUtcDateTime(v), PyDateTime(v), PyNanos(v)}
  BY <1>1, <1>2, OfStamp, Zenon
<1>4. /\ IntoChronoTimestamp(v) = LibraryTimestamp("chrono", n)
      /\ IntoJiffTimestamp(v) = LibraryTimestamp("jiff", n)
      /\ IntoUtcDateTime(v) = LibraryTimestamp("time", n)
  BY <1>1, Zenon DEF IntoChronoTimestamp, IntoJiffTimestamp, IntoUtcDateTime
<1> QED BY <1>2, <1>3, <1>4, PyNanosIs, Zenon DEF Libs

LEMMA StampFrom ==
  ASSUME NEW library \in Libs, NEW n \in Int, NEW w \in Converted(LibraryTimestamp(library, n))
  PROVE  \/ I64(n) /\ \E p : w = UtcTimestamp(n, p)
         \/ ~I64(n) /\ w = OutOfRange
<1> DEFINE v == LibraryTimestamp(library, n)
<1>1. v.type = "LibraryTimestamp" /\ v.library = library /\ v.nanos = n
  BY DEF LibraryTimestamp
<1>2. w \in IntoLibrary(v) \cup FromLibrary(v)
  BY DEF Converted
<1> HIDE DEF v
<1>3. w \in {FromChronoTimestamp(v), FromJiffTimestamp(v), FromUtcDateTime(v)}
  BY <1>1, <1>2, OfLibraryStamp, Zenon
<1> QED BY <1>1, <1>3, Zenon DEF FromChronoTimestamp, FromJiffTimestamp, FromUtcDateTime

LEMMA RustDecimalIs ==
  ASSUME NEW m, NEW s
  PROVE  /\ Abs(m) <= RUST_DECIMAL_MAX /\ s <= RUST_DECIMAL_SCALE => RustDecimal(m, s) = RustRecord(m, s)
         /\ ~(Abs(m) <= RUST_DECIMAL_MAX /\ s <= RUST_DECIMAL_SCALE) => RustDecimal(m, s) = None
         /\ RustRecord(m, s) # None
         /\ RustRecord(m, s).type = "RustDecimal" /\ RustRecord(m, s).mantissa = m
         /\ RustRecord(m, s).scale = s
<1>1. RustRecord(m, s).type = "RustDecimal" /\ RustRecord(m, s).mantissa = m /\ RustRecord(m, s).scale = s
  BY DEF RustRecord
<1>2. None.type = "None"
  BY DEF None
<1>3. RustDecimal(m, s) = IF Abs(m) <= RUST_DECIMAL_MAX /\ s <= RUST_DECIMAL_SCALE
                            THEN RustRecord(m, s) ELSE None
  BY Zenon DEF RustDecimal, RustRecord
<1> QED BY <1>1, <1>2, <1>3, Zenon

\* A decimal goes to bigdecimal whole, and to rust_decimal with its scale, its
\* exponent written out, or not at all.
LEMMA DecimalInto ==
  ASSUME NEW m \in Int, I64(m), NEW e \in Int, I8(e), NEW w \in Converted(Decimal(m, e))
  PROVE  \/ w.type \in Finals
         \/ w = BigDecimal(m, -e)
         \/ -e \in Nat /\ -e <= RUST_DECIMAL_SCALE /\ w = RustRecord(m, -e)
         \/ e > 0 /\ w = RustRecord(m * Pow10[e], 0)
<1> DEFINE v == Decimal(m, e)
<1>1. v.type = "Decimal" /\ v.mantissa = m /\ v.exponent = e
  BY DEF Decimal
<1>2. w \in IntoLibrary(v) \cup FromLibrary(v)
  BY DEF Converted
<1> HIDE DEF v
<1>3. w \in {IntoBigDecimal(v), IntoRustDecimal(v), PyDecimal(v)}
  BY <1>1, <1>2, OfDecimal, Zenon
<1>4. IntoBigDecimal(v) = BigDecimal(m, -e)
  BY <1>1, Zenon DEF IntoBigDecimal
<1>5. PyDecimal(v).type \in Finals
  <2>1. PyDecimal(v).type = "PyDecimal"
    BY DEF PyDecimal
  <2> QED BY <2>1, Zenon DEF Finals
<1>6. OutOfRange.type \in Finals
  <2>1. OutOfRange.type = "OutOfRange"
    BY DEF OutOfRange
  <2> QED BY <2>1, Zenon DEF Finals
<1>7. CASE e < 0
  <2>1. IntoRustDecimal(v) = ok_or_out_of_range(RustDecimal(m, -e))
    BY <1>1, <1>7, Zenon DEF IntoRustDecimal
  <2>2. CASE Abs(m) <= RUST_DECIMAL_MAX /\ -e <= RUST_DECIMAL_SCALE
    <3>1. IntoRustDecimal(v) = RustRecord(m, -e)
      BY <2>1, <2>2, RustDecimalIs, ZenonT(40) DEF ok_or_out_of_range
    <3>2. -e \in Nat
      BY <1>7
    <3> QED BY <1>3, <1>4, <1>5, <2>2, <3>1, <3>2, Zenon
  <2>3. CASE ~(Abs(m) <= RUST_DECIMAL_MAX /\ -e <= RUST_DECIMAL_SCALE)
    <3>1. IntoRustDecimal(v) = OutOfRange
      BY <2>1, <2>3, RustDecimalIs, Zenon DEF ok_or_out_of_range
    <3> QED BY <1>3, <1>4, <1>5, <1>6, <3>1, Zenon
  <2> QED BY <2>2, <2>3
<1>8. CASE ~(e < 0)
  <2> DEFINE r == IF Abs(m) > RUST_DECIMAL_MAX \div Pow10[Abs(e)] THEN None
                  ELSE RustDecimal(m * Pow10[Abs(e)], 0)
  <2>1. IntoRustDecimal(v) = ok_or_out_of_range(r)
    BY <1>1, <1>8, Zenon DEF IntoRustDecimal
  <2>2. Abs(e) = e
    BY <1>8, SMT DEF Abs
  <2>3. r = None \/ r = RustRecord(m * Pow10[e], 0)
    <3>1. r = None \/ r = RustDecimal(m * Pow10[e], 0)
      BY <2>2, Zenon
    <3> QED BY <3>1, RustDecimalIs, Zenon
  <2> HIDE DEF r
  <2>4. IntoRustDecimal(v) = OutOfRange \/ IntoRustDecimal(v) = RustRecord(m * Pow10[e], 0)
    BY <2>1, <2>3, RustDecimalIs, Zenon DEF ok_or_out_of_range
  <2>5. CASE e = 0
    <3>1. m * Pow10[e] = m /\ -e = 0 /\ -e \in Nat /\ -e <= RUST_DECIMAL_SCALE
      <4>1. Pow10[e] = 1
        BY <2>5, PowerEquation
      <4>2. m * Pow10[e] = m
        BY <4>1
      <4>3. RUST_DECIMAL_SCALE \in Nat
        BY InteropAssumption, ValuesAssumption
      <4>4. \A x \in Int : ~(x < 0) /\ ~(x > 0) => -x = 0
        BY SMT
      <4>5. ~(e > 0)
        BY <2>5
      <4>6. -e = 0 /\ -e \in Nat
        <5>1. -e = 0
          BY <1>8, <4>4, <4>5, Zenon
        <5>2. 0 \in Nat
          OBVIOUS
        <5> QED BY <5>1, <5>2, Zenon
      <4>7. -e <= RUST_DECIMAL_SCALE
        <5>1. 0 <= RUST_DECIMAL_SCALE
          BY <4>3
        <5> QED BY <4>6, <5>1, Zenon
      <4> QED BY <4>2, <4>6, <4>7, Zenon
    <3> QED BY <1>3, <1>4, <1>5, <1>6, <2>4, <3>1, Zenon
  <2>6. CASE e # 0
    <3>1. e > 0
      BY <1>8, <2>6
    <3> QED BY <1>3, <1>4, <1>5, <1>6, <2>4, <3>1, Zenon
  <2> QED BY <2>5, <2>6
<1> QED BY <1>7, <1>8

LEMMA BigDecimalFrom ==
  ASSUME NEW d \in Int, NEW s \in Int, NEW w \in Converted(BigDecimal(d, s))
  PROVE  \/ I64(d) /\ I8(-s) /\ w = Decimal(d, -s)
         \/ ~(I64(d) /\ I8(-s)) /\ w = OutOfRange
<1> DEFINE v == BigDecimal(d, s)
<1>1. v.type = "BigDecimal" /\ v.digits = d /\ v.scale = s
  BY DEF BigDecimal
<1>2. w \in IntoLibrary(v) \cup FromLibrary(v)
  BY DEF Converted
<1> HIDE DEF v
<1>3. w = FromBigDecimal(v)
  BY <1>1, <1>2, OfLibraryDecimal, Zenon
<1> QED BY <1>1, <1>3, Zenon DEF FromBigDecimal

LEMMA RustDecimalFrom ==
  ASSUME NEW m \in Int, NEW s \in Nat, NEW w \in Converted(RustRecord(m, s))
  PROVE  \/ I64(m) /\ w = Decimal(m, -s)
         \/ ~I64(m) /\ w = OutOfRange
<1> DEFINE v == RustRecord(m, s)
<1>1. v.type = "RustDecimal" /\ v.mantissa = m /\ v.scale = s
  BY RustDecimalIs
<1>2. w \in IntoLibrary(v) \cup FromLibrary(v)
  BY DEF Converted
<1> HIDE DEF v
<1>3. w = FromRustDecimal(v)
  BY <1>1, <1>2, OfLibraryDecimal, Zenon
<1> QED BY <1>1, <1>3, Zenon DEF FromRustDecimal


-----------------------------------------------------------------------------
(* What is read, and what callers bring. *)

\* One digit more, checked.
Checked(x, d) ==
  IF x = NaN \/ d \notin Digit THEN NaN
  ELSE IF x > (I64_MAX - (d - 48)) \div 10 THEN NaN
  ELSE 10 * x + (d - 48)

IsChecked(f, digits, n) ==
  f = [k \in 0 .. n |-> IF k = 0 THEN 0 ELSE Checked(f[k - 1], digits[k])]

LEMMA CheckedExists ==
  ASSUME NEW digits, NEW N \in Nat
  PROVE  \E f : IsChecked(f, digits, N)
<1> DEFINE T == {n \in Nat : ~\E f : IsChecked(f, digits, n)}
<1> SUFFICES T = {}
  OBVIOUS
<1>1. ASSUME T # {} PROVE FALSE
  <2>1. PICK n \in T : \A m \in T : n <= m
    <3>1. T \subseteq Nat
      OBVIOUS
    <3> HIDE DEF T
    <3> QED BY <1>1, <3>1, LeastProperties
  <2>2. n \in Nat /\ ~\E f : IsChecked(f, digits, n)
    OBVIOUS
  <2>3. n # 0
    <3> DEFINE g == [k \in 0 .. 0 |-> 0]
    <3>1. IsChecked(g, digits, 0)
      BY DEF IsChecked
    <3> QED BY <2>2, <3>1
  <2>4. n - 1 \in Nat /\ n - 1 \notin T
    BY <2>1, <2>2, <2>3
  <2>5. PICK f : IsChecked(f, digits, n - 1)
    BY <2>4
  <2> DEFINE g == [k \in 0 .. n |-> IF k = n THEN Checked(f[n - 1], digits[n]) ELSE f[k]]
  <2>6. \A k \in 0 .. n : g[k] = IF k = 0 THEN 0 ELSE Checked(g[k - 1], digits[k])
    <3> TAKE k \in 0 .. n
    <3>1. CASE k = n
      <4>1. g[n] = Checked(f[n - 1], digits[n])
        BY <2>2
      <4>2. g[n - 1] = f[n - 1]
        BY <2>2, <2>3
      <4> QED BY <3>1, <4>1, <4>2, <2>3
    <3>2. CASE k # n
      <4>1. k \in 0 .. n - 1 /\ g[k] = f[k]
        BY <3>2, <2>2
      <4>2. f[k] = IF k = 0 THEN 0 ELSE Checked(f[k - 1], digits[k])
        BY <4>1, <2>5 DEF IsChecked
      <4>3. k # 0 => g[k - 1] = f[k - 1]
        BY <4>1, <2>2
      <4> QED BY <4>1, <4>2, <4>3
    <3> QED BY <3>1, <3>2
  <2>7. IsChecked(g, digits, n)
    BY <2>6 DEF IsChecked
  <2> QED BY <2>2, <2>7
<1> QED BY <1>1

LEMMA CheckedFits ==
  ASSUME NEW x, x = NaN \/ (x \in Nat /\ x <= I64_MAX), NEW d
  PROVE  Checked(x, d) = NaN \/ (Checked(x, d) \in Nat /\ Checked(x, d) <= I64_MAX)
<1> SUFFICES ASSUME Checked(x, d) # NaN
             PROVE  Checked(x, d) \in Nat /\ Checked(x, d) <= I64_MAX
  OBVIOUS
<1>1. /\ x # NaN /\ d \in Digit /\ ~(x > (I64_MAX - (d - 48)) \div 10)
      /\ Checked(x, d) = 10 * x + (d - 48)
  BY Zenon DEF Checked
<1> DEFINE y == I64_MAX - (d - 48)
<1>2. x \in Nat /\ d - 48 \in Nat /\ y \in Int /\ y = I64_MAX - (d - 48)
  BY <1>1, ValuesAssumption DEF Digit
<1>3. ~(x > y \div 10)
  BY <1>1
<1> HIDE DEF y
<1>4. 10 * x <= y
  BY <1>2, <1>3, SMTT(30)
<1> DEFINE e == d - 48
<1>5. e \in Nat /\ y = I64_MAX - e /\ Checked(x, d) = 10 * x + e
  BY <1>1, <1>2
<1> HIDE DEF e
<1> QED BY <1>2, <1>4, <1>5, ValuesAssumption

\* A number that is read is one that an i64 holds.
LEMMA CheckedNumber ==
  ASSUME NEW digits, Len(digits) \in Nat
  PROVE  \/ checked_number(digits) = NaN
         \/ checked_number(digits) \in Nat /\ checked_number(digits) <= I64_MAX
<1> DEFINE N == Len(digits)
           value == CHOOSE f : IsChecked(f, digits, N)
           Fits(x) == x = NaN \/ (x \in Nat /\ x <= I64_MAX)
<1>1. IsChecked(value, digits, N)
  BY CheckedExists
<1>2. checked_number(digits) = value[N]
  BY Zenon DEF checked_number, IsChecked, Checked
<1> HIDE DEF value
<1>3. \A k \in 0 .. N : value[k] = IF k = 0 THEN 0 ELSE Checked(value[k - 1], digits[k])
  BY <1>1 DEF IsChecked
<1> DEFINE T == {n \in 0 .. N : ~Fits(value[n])}
<1>4. ASSUME T # {} PROVE FALSE
  <2>1. PICK n \in T : \A m \in T : n <= m
    <3>1. T \subseteq Nat
      OBVIOUS
    <3> HIDE DEF T
    <3> QED BY <1>4, <3>1, LeastProperties
  <2>2. n \in 0 .. N /\ ~Fits(value[n])
    OBVIOUS
  <2>3. n # 0
    <3>1. Fits(0)
      BY ValuesAssumption
    <3> HIDE DEF Fits
    <3> QED BY <1>3, <2>2, <3>1
  <2>4. n - 1 \in 0 .. N /\ n - 1 \notin T
    BY <2>1, <2>2, <2>3
  <2>5. Fits(value[n - 1])
    BY <2>4
  <2>6. value[n] = Checked(value[n - 1], digits[n])
    BY <1>3, <2>2, <2>3
  <2>7. Fits(value[n])
    BY <2>5, <2>6, CheckedFits, Zenon
  <2> QED BY <2>2, <2>7
<1>5. N \in 0 .. N
  OBVIOUS
<1>6. Fits(value[N])
  BY <1>4, <1>5
<1> QED BY <1>2, <1>6

\* What a caller brings is a value of its library.
LEMMA LibraryKinds ==
  ASSUME NEW v, IsLibraryValue(v)
  PROVE  IsOfLibrary(v)
<1> DEFINE DateCase == /\ v.type = "LibraryDate" /\ v.library \in {"chrono", "jiff", "time"}
                       /\ v = LibraryDate(v.library, v.year, v.month, v.day)
           ChronoCase == /\ v.type = "LibraryTime" /\ v.library = "chrono"
                         /\ v = NaiveTime(v.seconds, v.nano)
           ClockCase == /\ v.type = "LibraryTime" /\ v.library \in {"jiff", "time"}
                        /\ v = CivilTime(v.library, v.hour, v.minute, v.second, v.nano)
           StampCase == /\ v.type = "LibraryTimestamp" /\ v.library \in {"chrono", "jiff", "time"}
                        /\ v = LibraryTimestamp(v.library, v.nanos) /\ v.nanos \in Int
           BigCase == /\ v.type = "BigDecimal" /\ v = BigDecimal(v.digits, v.scale)
                      /\ v.digits \in Int /\ v.scale \in Int
           RustCase == /\ v.type = "RustDecimal" /\ v = RustDecimal(v.mantissa, v.scale)
                       /\ v.mantissa \in Int /\ v.scale \in Nat
<1>1. DateCase \/ ChronoCase \/ ClockCase \/ StampCase \/ BigCase \/ RustCase
  BY Zenon DEF IsLibraryValue
<1>0. None.type = "None"
  BY DEF None
<1>2. ASSUME DateCase PROVE IsOfLibrary(v)
  <2> DEFINE y == v.year
             m == v.month
             k == v.day
             library == v.library
             InYears == y \in FirstYear(library) .. LastYear(library)
             InMonth == m \in 1 .. 12 /\ k \in 1 .. days_in_month(y, m)
  <2>1. LibraryDate(library, y, m, k) =
          IF InYears /\ InMonth THEN LibraryDateRecord(library, y, m, k) ELSE None
    BY SMT DEF LibraryDate, LibraryDateRecord
  <2>2. v = LibraryDate(library, y, m, k) /\ v # None /\ library \in Libs
    BY <1>0, <1>2, Zenon DEF Libs
  <2> HIDE DEF InYears, InMonth
  <2>3. InMonth /\ v = LibraryDateRecord(library, y, m, k)
    BY <2>1, <2>2, Zenon
  <2>4. y \in 0 .. 9999 => ValidDate(y, m, k)
    <3> HIDE DEF y, m, k
    <3> QED BY <2>3, SMT DEF ValidDate, InMonth
  <2> HIDE DEF y, m, k, library
  <2>5. IsLibraryDate(v)
    BY <2>2, <2>3, <2>4, SMT DEF IsLibraryDate
  <2> QED BY <2>5 DEF IsOfLibrary
<1>3. ASSUME ChronoCase PROVE IsOfLibrary(v)
  <2>1. v # None /\ v = NaiveTime(v.seconds, v.nano)
    BY <1>0, <1>3, Zenon
  <2>2. ChronoRange(v.seconds, v.nano) /\ v = ChronoRecord(v.seconds, v.nano)
    BY <2>1, NaiveTimeIs, Zenon
  <2>3. IsChronoTime(v)
    BY <2>2, Zenon DEF IsChronoTime
  <2> QED BY <2>3 DEF IsOfLibrary
<1>4. ASSUME ClockCase PROVE IsOfLibrary(v)
  <2>1. v # None /\ v = CivilTime(v.library, v.hour, v.minute, v.second, v.nano)
    BY <1>0, <1>4, Zenon
  <2>2. /\ ClockRange(v.hour, v.minute, v.second, v.nano)
        /\ v = ClockRecord(v.library, v.hour, v.minute, v.second, v.nano)
    BY <2>1, CivilTimeIs, Zenon
  <2>3. IsClockTime(v)
    BY <1>4, <2>2, Zenon DEF IsClockTime
  <2> QED BY <2>3 DEF IsOfLibrary
<1>5. ASSUME StampCase PROVE IsOfLibrary(v)
  <2>1. IsLibraryStamp(v)
    BY <1>5, Zenon DEF IsLibraryStamp, Libs
  <2> QED BY <2>1 DEF IsOfLibrary
<1>6. ASSUME BigCase PROVE IsOfLibrary(v)
  <2>1. IsBigDecimal(v)
    BY <1>6, Zenon DEF IsBigDecimal
  <2> QED BY <2>1 DEF IsOfLibrary
<1>7. ASSUME RustCase PROVE IsOfLibrary(v)
  <2> DEFINE m == v.mantissa
             s == v.scale
  <2>1. v # None /\ v = RustDecimal(m, s) /\ m \in Int /\ s \in Nat
    BY <1>0, <1>7, Zenon
  <2> HIDE DEF m, s
  <2>2. s <= RUST_DECIMAL_SCALE /\ v = RustRecord(m, s)
    BY <2>1, RustDecimalIs, Zenon
  <2>3. s <= I8_MAX
    BY <2>1, <2>2, InteropAssumption, ValuesAssumption
  <2>4. IsRustDecimal(v)
    BY <2>1, <2>2, <2>3, Zenon DEF IsRustDecimal
  <2> QED BY <2>4 DEF IsOfLibrary
<1> HIDE DEF DateCase, ChronoCase, ClockCase, StampCase, BigCase, RustCase
<1> QED BY <1>1, <1>2, <1>3, <1>4, <1>5, <1>6, <1>7

LEMMA ParsedDate ==
  ASSUME NEW text, ParseDate(text) # None
  PROVE  IsRead(ParseDate(text))
<1>1. PICK y, m, k : ParseDate(text) = Date(y, m, k)
  BY Zenon DEF ParseDate
<1>2. ValidDate(y, m, k) /\ ParseDate(text) = DateRecord(y, m, k)
  BY <1>1, DateCases, Zenon
<1> QED BY <1>2, Zenon DEF IsRead, IsDate

LEMMA ParsedTime ==
  ASSUME NEW text, ParseTime(text) # None
  PROVE  IsRead(ParseTime(text))
<1>1. PICK n, p : ParseTime(text) = Time(n, p)
  BY DEF ParseTime
<1>2. /\ ParseTime(text) = TimeRecord(n, p) /\ n \in Int /\ 0 <= n
      /\ n < NANOS_PER_DAY + Second
  BY <1>1, TimeCases, Zenon
<1> QED BY <1>2, Zenon DEF IsRead, IsTime, TimeRange

\* The timestamps that fit are those an i64 of nanoseconds holds.
LEMMA FitsIs ==
  ASSUME NEW days \in Int, NEW nanos \in Int, 0 <= nanos, nanos < NANOS_PER_DAY, FitsI64(days, nanos)
  PROVE  days * NANOS_PER_DAY + nanos \in Int /\ I64(days * NANOS_PER_DAY + nanos)
<1> DEFINE N == NANOS_PER_DAY
           M == I64_MAX
           L == -I64_MAX - 1
           final == M \div N
           initial == L \div N
           x == days * N + nanos
<1>1. N \in Int /\ N > 0 /\ M \in Int /\ L \in Int
  BY DayOfNanos, ValuesAssumption
<1>2. /\ initial <= days /\ days <= final
      /\ days = final => nanos <= M % N
      /\ days = initial => nanos >= L % N
  BY Zenon DEF FitsI64
<1>3. \A a \in Int : /\ a \div N \in Int /\ a % N \in Int /\ 0 <= a % N /\ a % N < N
                     /\ a = (a \div N) * N + (a % N)
  <2> HIDE DEF N
  <2> SUFFICES ASSUME NEW a \in Int
               PROVE /\ a \div N \in Int /\ a % N \in Int /\ 0 <= a % N /\ a % N < N
                     /\ a = (a \div N) * N + (a % N)
    OBVIOUS
  <2>1. a \div N \in Int /\ a % N \in Int /\ 0 <= a % N /\ a % N < N
    BY <1>1, SMTT(30)
  <2>2. \A q, r \in Int : q = a \div N /\ r = a % N => a = q * N + r
    BY <1>1, SMTT(30)
  <2> QED BY <2>1, <2>2
<1>0. 0 <= nanos /\ nanos < N
  OBVIOUS
<1> HIDE DEF N
<1>4. \A a, b \in Int : a < b => a * N + N <= b * N
  <2> SUFFICES ASSUME NEW a \in Int, NEW b \in Int, a < b PROVE a * N + N <= b * N
    OBVIOUS
  <2>1. (b - a) * N >= N
    BY <1>1, SMTT(30)
  <2>2. (b - a) * N = b * N - a * N /\ a * N \in Int /\ b * N \in Int
    BY <1>1, SMTT(30)
  <2> QED BY <1>1, <2>1, <2>2
<1> HIDE DEF M, L
<1> DEFINE mr == M % N
           lr == L % N
<1>5. final \in Int /\ mr \in Int /\ 0 <= mr /\ mr < N /\ M = final * N + mr
  BY <1>1, <1>3
<1>6. initial \in Int /\ lr \in Int /\ 0 <= lr /\ lr < N /\ L = initial * N + lr
  BY <1>1, <1>3
<1>7. days = final => nanos <= mr
  BY <1>2 DEF M, N
<1>8. days = initial => nanos >= lr
  BY <1>2 DEF L, N
<1>9. initial <= days /\ days <= final
  BY <1>2 DEF L, M, N
<1> HIDE DEF mr, lr, final, initial
<1>10. x \in Int /\ x <= M
  <2>1. days * N \in Int /\ final * N \in Int
    BY <1>1, <1>5
  <2>2. CASE days = final
    BY <1>0, <1>1, <1>5, <1>7, <2>1, <2>2
  <2>3. CASE days < final
    <3>1. days * N + N <= final * N
      BY <1>4, <1>5, <2>3
    <3> QED BY <1>0, <1>1, <1>5, <2>1, <3>1
  <2> QED BY <1>5, <1>9, <2>2, <2>3
<1>11. L <= x
  <2>1. days * N \in Int /\ initial * N \in Int
    BY <1>1, <1>6
  <2>2. CASE days = initial
    BY <1>0, <1>1, <1>6, <1>8, <2>1, <2>2
  <2>3. CASE initial < days
    <3>1. initial * N + N <= days * N
      BY <1>4, <1>6, <2>3
    <3> QED BY <1>0, <1>1, <1>6, <2>1, <3>1
  <2> QED BY <1>6, <1>9, <2>2, <2>3
<1> QED BY <1>10, <1>11 DEF I64, L, M, N, x

LEMMA ParsedStamp ==
  ASSUME NEW text, ParseUtcTimestamp(text) # None
  PROVE  IsRead(ParseUtcTimestamp(text))
<1> DEFINE days == days_since_epoch(DatePart(text))
           nanos == TimePart(text).nanos_since_midnight
           n == days * NANOS_PER_DAY + nanos
<1>1. WellFormed(text)
  BY StampKeeps
<1>2. /\ ParseUtcTimestamp(text) = UtcTimestamp(n, TimePart(text).precision)
      /\ FitsI64(days, nanos)
  BY Zenon DEF ParseUtcTimestamp, DatePart, TimePart
<1>3. /\ DaysOf(text) \in Int /\ NanosOf(text) \in Int
      /\ 0 <= NanosOf(text) /\ NanosOf(text) < NANOS_PER_DAY
      /\ n = DaysOf(text) * NANOS_PER_DAY + NanosOf(text)
      /\ days \in Int /\ nanos \in Int
  BY <1>1, PartsOfStamp
<1>4. FitsI64(DaysOf(text), NanosOf(text))
  <2>1. CASE Leap(text)
    <3>1. /\ ~(nanos < NANOS_PER_DAY) /\ DaysOf(text) = days + 1
          /\ NanosOf(text) = nanos - NANOS_PER_DAY
      <4>1. nanos >= NANOS_PER_DAY
        BY <2>1 DEF Leap
      <4>2. DaysOf(text) = days + 1 /\ NanosOf(text) = nanos - NANOS_PER_DAY
        BY <2>1, Zenon DEF DaysOf, NanosOf
      <4> HIDE DEF nanos, days
      <4>3. ~(nanos < NANOS_PER_DAY)
        BY <1>3, <4>1, DayOfNanos
      <4> QED BY <4>2, <4>3
    <3> HIDE DEF days, nanos
    <3>2. NanosOf(text) < NANOS_PER_DAY
      BY <1>3
    <3> QED BY <1>2, <3>1, <3>2, Zenon DEF FitsI64
  <2>2. CASE ~Leap(text)
    <3>1. DaysOf(text) = days /\ NanosOf(text) = nanos
      BY <2>2, Zenon DEF DaysOf, NanosOf
    <3> QED BY <1>2, <3>1, Zenon
  <2> QED BY <2>1, <2>2
<1> HIDE DEF n
<1>5. n \in Int /\ I64(n)
  BY <1>3, <1>4, FitsIs, Zenon
<1> QED BY <1>2, <1>5, Zenon DEF IsRead, IsStamp

\* A part of a text is a sequence.
LEMMA PartsOfText ==
  ASSUME NEW text \in Seq(Byte), NEW b
  PROVE  Before(text, b) \in Seq(Byte) /\ After(text, b) \in Seq(Byte)
<1> DEFINE at == Positions(text, 0, Len(text), b)
           p == Least(at)
<1>1. CASE at = {}
  <2>1. Before(text, b) = text /\ After(text, b) = <<>>
    BY <1>1, Zenon DEF Before, After
  <2> QED BY <2>1
<1>2. CASE at # {}
  <2>1. p \in 0 .. Len(text) - 1
    <3>1. 0 \in Nat /\ Len(text) \in Int
      OBVIOUS
    <3> QED BY <1>2, <3>1, FirstPosition, Zenon
  <2>2. Before(text, b) = Slice(text, 0, p) /\ After(text, b) = Slice(text, p + 1, Len(text))
    BY <1>2, Zenon DEF Before, After
  <2> HIDE DEF p
  <2>3. p \in Nat /\ p + 1 \in Nat /\ p <= Len(text) /\ p + 1 <= Len(text) /\ Len(text) \in Nat
    BY <2>1
  <2> DEFINE n == Len(text)
  <2>4. n \in Nat /\ n <= n
    BY <2>3
  <2>5. 0 \in Nat /\ 0 <= p
    BY <2>3
  <2>6. Slice(text, 0, p) \in Seq(Byte)
    BY <2>3, <2>5, ByteSlices, Zenon
  <2>7. Slice(text, p + 1, n) \in Seq(Byte)
    BY <2>3, <2>4, ByteSlices, Zenon
  <2> QED BY <2>2, <2>6, <2>7, Zenon
<1> QED BY <1>1, <1>2

LEMMA ParsedDecimal ==
  ASSUME NEW text \in Seq(Byte), ParseDecimal(text) # None
  PROVE  IsRead(ParseDecimal(text))
<1> DEFINE whole == Before(Unsigned(text), DOT)
           fraction == After(Unsigned(text), DOT)
           mantissa == checked_number(whole \o fraction)
           m == IF Negative(text) THEN -mantissa ELSE mantissa
           e == -Len(fraction)
<1>1. ~(Len(fraction) > I8_MAX) /\ mantissa # NaN /\ ParseDecimal(text) = Decimal(m, e)
  BY Zenon DEF ParseDecimal
<1>2. Unsigned(text) \in Seq(Byte)
  BY DEF Unsigned, Negative
<1>3. whole \in Seq(Byte) /\ fraction \in Seq(Byte)
  BY <1>2, PartsOfText
<1>4. Len(whole \o fraction) \in Nat /\ Len(fraction) \in Nat
  <2> HIDE DEF whole, fraction
  <2> QED BY <1>3
<1>5. mantissa \in Nat /\ mantissa <= I64_MAX
  <2>1. Len(whole \o fraction) \in Nat
    BY <1>4
  <2> QED BY <1>1, <2>1, CheckedNumber, Zenon
<1> HIDE DEF mantissa
<1>6. m \in Int /\ I64(m)
  BY <1>5, ValuesAssumption DEF I64
<1> DEFINE l == Len(fraction)
<1>7. l \in Nat /\ ~(l > I8_MAX) /\ e = -l
  BY <1>1, <1>4
<1> HIDE DEF l, e
<1>8. e \in Int /\ I8(e) /\ e <= 0
  BY <1>7, ValuesAssumption DEF I8
<1> HIDE DEF m
<1>9. Decimal(m, e).exponent = e
  BY DEF Decimal
<1>10. IsDecimal(ParseDecimal(text))
  BY <1>1, <1>6, <1>8, Zenon DEF IsDecimal
<1> QED BY <1>1, <1>8, <1>9, <1>10, Zenon DEF IsRead

\* What is read of the other types is of a type there is no conversion of.
LEMMA ParsedOthers ==
  ASSUME NEW text
  PROVE  /\ ParseStr(text) # None => ParseStr(text).type \in Finals
         /\ ParseInt(text) # None => ParseInt(text).type \in Finals
         /\ ParseBool(text) # None => ParseBool(text).type \in Finals
         /\ ParseMonthYear(text) # None => ParseMonthYear(text).type \in Finals
         /\ ParseMultipleValues(text) # None => ParseMultipleValues(text).type \in Finals
<1>1. ASSUME ParseStr(text) # None PROVE ParseStr(text).type \in Finals
  <2>1. ParseStr(text) = [type |-> "Str", text |-> text]
    BY <1>1, Zenon DEF ParseStr
  <2>2. ParseStr(text).type = "Str"
    BY <2>1
  <2> QED BY <2>2, Zenon DEF Finals
<1>2. ASSUME ParseInt(text) # None PROVE ParseInt(text).type \in Finals
  <2>1. \E x : ParseInt(text) = [type |-> "Int", value |-> x]
    BY <1>2, Zenon DEF ParseInt
  <2>2. ParseInt(text).type = "Int"
    BY <2>1
  <2> QED BY <2>2, Zenon DEF Finals
<1>3. ASSUME ParseBool(text) # None PROVE ParseBool(text).type \in Finals
  <2>1. ParseBool(text) = [type |-> "Bool", value |-> text = <<89>>]
    BY <1>3, Zenon DEF ParseBool
  <2>2. ParseBool(text).type = "Bool"
    BY <2>1
  <2> QED BY <2>2, Zenon DEF Finals
<1>4. ASSUME ParseMonthYear(text) # None PROVE ParseMonthYear(text).type \in Finals
  <2>1. PICK y, m, d, w : ParseMonthYear(text) = MonthYear(y, m, d, w)
    BY <1>4, Zenon DEF ParseMonthYear
  <2>2. MonthYear(y, m, d, w) =
          [type |-> "MonthYear", year |-> y, month |-> m, day |-> d, week |-> w]
    BY <1>4, <2>1, Zenon DEF MonthYear
  <2>3. ParseMonthYear(text).type = "MonthYear"
    BY <2>1, <2>2
  <2> QED BY <2>3, Zenon DEF Finals
<1>5. ASSUME ParseMultipleValues(text) # None PROVE ParseMultipleValues(text).type \in Finals
  <2>1. ParseMultipleValues(text) = [type |-> "MultipleValues", values |-> SplitAt(text, SPACE)]
    BY <1>5, Zenon DEF ParseMultipleValues
  <2>2. ParseMultipleValues(text).type = "MultipleValues"
    BY <2>1
  <2> QED BY <2>2, Zenon DEF Finals
<1> QED BY <1>1, <1>2, <1>3, <1>4, <1>5

LEMMA OutcomeIsRead ==
  ASSUME NEW tag, NEW parsed, parsed # None /\ Slots(tag) # {} => IsRead(parsed)
  PROVE  IsRead(Outcome(tag, parsed))
<1>1. CASE Slots(tag) = {}
  <2>1. Outcome(tag, parsed) = Absent
    BY <1>1, Zenon DEF Outcome
  <2>2. Absent.type = "Absent"
    BY DEF Absent
  <2> QED BY <2>1, <2>2, Zenon DEF IsRead, Finals
<1>2. CASE Slots(tag) # {} /\ parsed = None
  <2>1. Outcome(tag, parsed) = [type |-> "InvalidValue", tag |-> tag]
    BY <1>2, Zenon DEF Outcome
  <2>2. Outcome(tag, parsed).type = "InvalidValue"
    BY <2>1
  <2> QED BY <2>2, Zenon DEF IsRead, Finals
<1>3. CASE Slots(tag) # {} /\ parsed # None
  <2>1. Outcome(tag, parsed) = parsed
    BY <1>3, Zenon DEF Outcome
  <2> QED BY <1>3, <2>1
<1> QED BY <1>1, <1>2, <1>3

\* A getter returns a value of its type, or an error.
LEMMA GetIsRead ==
  ASSUME NEW getter \in Getters, NEW tag, Slots(tag) # {} => get(tag) \in Seq(Byte)
  PROVE  IsRead(Get(getter, tag))
<1> DEFINE text == get(tag)
<1>1. /\ ParseStr(text) # None => IsRead(ParseStr(text))
      /\ ParseInt(text) # None => IsRead(ParseInt(text))
      /\ ParseBool(text) # None => IsRead(ParseBool(text))
      /\ ParseMonthYear(text) # None => IsRead(ParseMonthYear(text))
      /\ ParseMultipleValues(text) # None => IsRead(ParseMultipleValues(text))
  BY ParsedOthers, Zenon DEF IsRead
<1>2. /\ ParseDate(text) # None => IsRead(ParseDate(text))
      /\ ParseTime(text) # None => IsRead(ParseTime(text))
      /\ ParseUtcTimestamp(text) # None => IsRead(ParseUtcTimestamp(text))
  BY ParsedDate, ParsedTime, ParsedStamp, Zenon
<1>3. Slots(tag) # {} /\ ParseDecimal(text) # None => IsRead(ParseDecimal(text))
  BY ParsedDecimal, Zenon
<1> DEFINE int == IF ParseStr(text) = None THEN None ELSE ParseInt(text)
<1>4. int # None => IsRead(int)
  BY <1>1, Zenon
<1>5. IsRead(get_str(tag)) /\ IsRead(get_bool(tag)) /\ IsRead(get_month_year(tag))
      /\ IsRead(get_multiple_values(tag))
  BY <1>1, OutcomeIsRead, Zenon DEF get_str, get_bool, get_month_year, get_multiple_values
<1>6. IsRead(get_date(tag)) /\ IsRead(get_time(tag)) /\ IsRead(get_utc_timestamp(tag))
  BY <1>2, OutcomeIsRead, Zenon DEF get_date, get_time, get_utc_timestamp
<1>7. IsRead(get_decimal(tag))
  BY <1>3, OutcomeIsRead, Zenon DEF get_decimal
<1>8. IsRead(get_int(tag))
  <2>1. get_int(tag) = Outcome(tag, int)
    BY Zenon DEF get_int
  <2> HIDE DEF int
  <2> QED BY <1>4, <2>1, OutcomeIsRead, Zenon
<1>9. Get(getter, tag) \in {get_str(tag), get_int(tag), get_bool(tag), get_decimal(tag),
                            get_utc_timestamp(tag), get_date(tag), get_time(tag),
                            get_month_year(tag), get_multiple_values(tag)}
  BY DEF Get, Getters
<1> QED BY <1>5, <1>6, <1>7, <1>8, <1>9, Zenon

-----------------------------------------------------------------------------
(* Chains of conversions. *)

LEMMA NothingOfFinals ==
  ASSUME NEW v, v.type \in Finals
  PROVE  Converted(v) = {}
<1> QED BY FinalsStay DEF Converted

LEMMA RefusedIsFinal == OutOfRange.type \in Finals
<1>1. OutOfRange.type = "OutOfRange"
  BY DEF OutOfRange
<1> QED BY <1>1, Zenon DEF Finals

\* A value there are conversions of is of one of these types.
LEMMA ConvertedTypes ==
  ASSUME NEW v, v.type \in {"Date", "Time", "UtcTimestamp", "Decimal", "LibraryDate", "LibraryTime",
                            "LibraryTimestamp", "BigDecimal", "RustDecimal"}
  PROVE  v.type \notin Finals
<1> QED BY Zenon DEF Finals

LEMMA Converts ==
  ASSUME NEW v, IsConvertible(v), NEW w \in Converted(v)
  PROVE  IsConvertible(w)
<1>1. ASSUME IsDate(v) PROVE IsConvertible(w)
  <2>1. PICK y, m, k : ValidDate(y, m, k) /\ v = DateRecord(y, m, k)
    BY <1>1 DEF IsDate
  <2>2. w.type \in Finals \/ \E library \in Libs : w = LibraryDateRecord(library, y, m, k)
    <3>1. w \in Converted(DateRecord(y, m, k))
      BY <2>1, Zenon
    <3>2. ValidDate(y, m, k)
      BY <2>1
    <3> QED BY <3>1, <3>2, DateInto
  <2>3. (\E library \in Libs : w = LibraryDateRecord(library, y, m, k)) => IsLibraryDate(w)
    BY <2>1, SMT DEF IsLibraryDate
  <2> QED BY <2>2, <2>3, Zenon DEF IsConvertible, IsOfLibrary
<1>2. ASSUME IsTime(v) PROVE IsConvertible(w)
  <2>1. PICK n, p : TimeRange(n) /\ v = TimeRecord(n, p)
    BY <1>2 DEF IsTime
  <2>2. \/ w.type \in Finals
        \/ w = ChronoRecord(ChronoSeconds(n), n - ChronoSeconds(n) * Second)
        \/ \E library \in {"jiff", "time"} : \E h, i, s, o :
             ClockRange(h, i, s, o) /\ w = ClockRecord(library, h, i, s, o)
    <3>1. w \in Converted(TimeRecord(n, p))
      BY <2>1, Zenon
    <3>2. TimeRange(n)
      BY <2>1
    <3> QED BY <3>1, <3>2, TimeInto
  <2>3. w = ChronoRecord(ChronoSeconds(n), n - ChronoSeconds(n) * Second) => IsChronoTime(w)
    BY <2>1, ChronoOfNanos, Zenon DEF IsChronoTime
  <2> QED BY <2>2, <2>3, Zenon DEF IsConvertible, IsOfLibrary, IsClockTime
<1>3. ASSUME IsStamp(v) PROVE IsConvertible(w)
  <2>1. PICK n, p : n \in Int /\ I64(n) /\ v = UtcTimestamp(n, p)
    BY <1>3 DEF IsStamp
  <2>2. w.type \in Finals \/ \E library \in Libs : w = LibraryTimestamp(library, n)
    BY <2>1, StampInto, Zenon
  <2> QED BY <2>1, <2>2, Zenon DEF IsConvertible, IsOfLibrary, IsLibraryStamp
<1>4. ASSUME IsDecimal(v) PROVE IsConvertible(w)
  <2>1. PICK m, e : m \in Int /\ I64(m) /\ e \in Int /\ I8(e) /\ v = Decimal(m, e)
    BY <1>4 DEF IsDecimal
  <2>2. \/ w.type \in Finals
        \/ w = BigDecimal(m, -e)
        \/ -e \in Nat /\ -e <= RUST_DECIMAL_SCALE /\ w = RustRecord(m, -e)
        \/ e > 0 /\ w = RustRecord(m * Pow10[e], 0)
    BY <2>1, DecimalInto, Zenon
  <2>3. w = BigDecimal(m, -e) => IsBigDecimal(w)
    <3>1. -e \in Int
      BY <2>1
    <3> QED BY <2>1, <3>1, Zenon DEF IsBigDecimal
  <2>4. -e \in Nat /\ -e <= RUST_DECIMAL_SCALE /\ w = RustRecord(m, -e) => IsRustDecimal(w)
    <3> DEFINE s == -e
    <3>1. s \in Nat /\ s <= RUST_DECIMAL_SCALE => s \in Nat /\ s <= I8_MAX
      <4> HIDE DEF s
      <4> QED BY InteropAssumption, ValuesAssumption
    <3> HIDE DEF s
    <3>2. s \in Nat /\ s <= RUST_DECIMAL_SCALE /\ w = RustRecord(m, s) => IsRustDecimal(w)
      BY <2>1, <3>1, Zenon DEF IsRustDecimal
    <3> QED BY <3>2 DEF s
  <2>5. e > 0 /\ w = RustRecord(m * Pow10[e], 0) => IsRustDecimal(w)
    <3> SUFFICES ASSUME e > 0, w = RustRecord(m * Pow10[e], 0) PROVE IsRustDecimal(w)
      OBVIOUS
    <3>1. e \in Nat
      BY <2>1
    <3>2. Pow10[e] \in Nat
      BY <3>1, PowersOfTen
    <3>3. m * Pow10[e] \in Int
      BY <2>1, <3>2
    <3>4. 0 \in Nat /\ 0 <= I8_MAX
      BY ValuesAssumption
    <3> QED BY <3>3, <3>4, Zenon DEF IsRustDecimal
  <2> QED BY <2>2, <2>3, <2>4, <2>5, Zenon DEF IsConvertible, IsOfLibrary
<1>5. ASSUME IsLibraryDate(v) PROVE IsConvertible(w)
  <2>1. PICK library \in Libs : \E y, m, k : v = LibraryDateRecord(library, y, m, k)
    BY <1>5, SMT DEF IsLibraryDate
  <2>2. PICK y, m, k : v = LibraryDateRecord(library, y, m, k)
    BY <2>1
  <2>3. w = OutOfRange \/ (w = DateRecord(y, m, k) /\ ValidDate(y, m, k))
    BY <2>2, DateFrom, Zenon
  <2> QED BY <2>3, RefusedIsFinal, Zenon DEF IsConvertible, IsDate
<1>6. ASSUME IsChronoTime(v) PROVE IsConvertible(w)
  <2>1. PICK s, o : ChronoRange(s, o) /\ v = ChronoRecord(s, o)
    BY <1>6 DEF IsChronoTime
  <2>2. TimeRange(s * Second + o) /\ \E p : w = TimeRecord(s * Second + o, p)
    <3>1. w \in Converted(ChronoRecord(s, o))
      BY <2>1, Zenon
    <3>2. ChronoRange(s, o)
      BY <2>1
    <3> QED BY <3>1, <3>2, ChronoFrom
  <2> QED BY <2>2, Zenon DEF IsConvertible, IsTime
<1>7. ASSUME IsClockTime(v) PROVE IsConvertible(w)
  <2>1. PICK library \in {"jiff", "time"} : \E h, i, s, o :
           ClockRange(h, i, s, o) /\ v = ClockRecord(library, h, i, s, o)
    BY <1>7 DEF IsClockTime
  <2>2. PICK h, i, s, o : ClockRange(h, i, s, o) /\ v = ClockRecord(library, h, i, s, o)
    BY <2>1
  <2>3. /\ TimeRange(ClockSeconds(h, i, s) * Second + o)
        /\ \E p : w = TimeRecord(ClockSeconds(h, i, s) * Second + o, p)
    <3>1. w \in Converted(ClockRecord(library, h, i, s, o))
      BY <2>2, Zenon
    <3>2. ClockRange(h, i, s, o)
      BY <2>2
    <3> QED BY <3>1, <3>2, ClockFrom
  <2> QED BY <2>3, Zenon DEF IsConvertible, IsTime
<1>8. ASSUME IsLibraryStamp(v) PROVE IsConvertible(w)
  <2>1. PICK library \in Libs, n \in Int : v = LibraryTimestamp(library, n)
    BY <1>8, Zenon DEF IsLibraryStamp
  <2>2. (I64(n) /\ \E p : w = UtcTimestamp(n, p)) \/ w = OutOfRange
    <3>1. w \in Converted(LibraryTimestamp(library, n))
      BY <2>1, Zenon
    <3> QED BY <2>1, <3>1, StampFrom, Zenon
  <2> QED BY <2>1, <2>2, RefusedIsFinal, Zenon DEF IsConvertible, IsStamp
<1>9. ASSUME IsBigDecimal(v) PROVE IsConvertible(w)
  <2>1. PICK d \in Int, s \in Int : v = BigDecimal(d, s)
    BY <1>9, Zenon DEF IsBigDecimal
  <2>2. (I64(d) /\ I8(-s) /\ w = Decimal(d, -s)) \/ w = OutOfRange
    <3>1. w \in Converted(BigDecimal(d, s))
      BY <2>1, Zenon
    <3> QED BY <2>1, <3>1, BigDecimalFrom, Zenon
  <2>3. -s \in Int
    BY <2>1
  <2> QED BY <2>1, <2>2, <2>3, RefusedIsFinal, Zenon DEF IsConvertible, IsDecimal
<1>10. ASSUME IsRustDecimal(v) PROVE IsConvertible(w)
  <2>1. PICK m \in Int, s \in Nat : s <= I8_MAX /\ v = RustRecord(m, s)
    BY <1>10, Zenon DEF IsRustDecimal
  <2>2. (I64(m) /\ w = Decimal(m, -s)) \/ w = OutOfRange
    <3>1. w \in Converted(RustRecord(m, s))
      BY <2>1, Zenon
    <3> QED BY <2>1, <3>1, RustDecimalFrom, Zenon
  <2>3. -s \in Int /\ I8(-s)
    BY <2>1, ValuesAssumption DEF I8
  <2> QED BY <2>1, <2>2, <2>3, RefusedIsFinal, Zenon DEF IsConvertible, IsDecimal
<1>11. v.type \notin Finals
  BY NothingOfFinals, Zenon
<1> QED BY <1>1, <1>2, <1>3, <1>4, <1>5, <1>6, <1>7, <1>8, <1>9, <1>10, <1>11, Zenon
        DEF IsConvertible, IsOfLibrary

LEMMA SameDates ==
  ASSUME NEW y, NEW m, NEW k
  PROVE  DateRecord(y, m, k).type = "Date"
<1> QED BY DEF DateRecord

LEMMA StampFields ==
  ASSUME NEW n, NEW p
  PROVE  /\ UtcTimestamp(n, p).type = "UtcTimestamp" /\ UtcTimestamp(n, p).unix_nanos = n
         /\ \A library : /\ LibraryTimestamp(library, n).type = "LibraryTimestamp"
                         /\ LibraryTimestamp(library, n).library = library
<1> QED BY DEF UtcTimestamp, LibraryTimestamp

LEMMA DecimalFields ==
  ASSUME NEW m, NEW e
  PROVE  /\ Decimal(m, e).type = "Decimal" /\ Decimal(m, e).mantissa = m /\ Decimal(m, e).exponent = e
         /\ BigDecimal(m, e).type = "BigDecimal" /\ BigDecimal(m, e).digits = m
         /\ BigDecimal(m, e).scale = e
<1> QED BY DEF Decimal, BigDecimal

\* What comes back of a value that is read.
LEMMA ReadComesBack ==
  ASSUME NEW v, IsRead(v), NEW w \in Converted(v), NEW x \in Converted(w)
  PROVE  \/ SameValue(v, x)
         \/ /\ IsLeapSecond(v) /\ w.library # "chrono"
            /\ x.nanos_since_midnight = NANOS_PER_DAY - 1
<1>0. w.type \notin Finals /\ v.type \notin Finals
  BY NothingOfFinals, Zenon
<1>1. ASSUME IsDate(v) PROVE SameValue(v, x)
  <2>1. PICK y, m, k : ValidDate(y, m, k) /\ v = DateRecord(y, m, k)
    BY <1>1 DEF IsDate
  <2>2. PICK library \in Libs : w = LibraryDateRecord(library, y, m, k)
    <3>1. w \in Converted(DateRecord(y, m, k))
      BY <2>1, Zenon
    <3>2. ValidDate(y, m, k)
      BY <2>1
    <3>3. w.type \in Finals \/ \E library \in Libs : w = LibraryDateRecord(library, y, m, k)
      BY <3>1, <3>2, DateInto
    <3> QED BY <1>0, <3>3
  <2>3. x = DateRecord(y, m, k)
    <3>1. x \in Converted(LibraryDateRecord(library, y, m, k))
      BY <2>2, Zenon
    <3>2. \/ x = OutOfRange /\ ~ValidDate(y, m, k)
          \/ x = DateRecord(y, m, k) /\ ValidDate(y, m, k)
      BY <3>1, DateFrom
    <3> QED BY <2>1, <3>2
  <2>4. v.type = "Date" /\ v = x
    BY <2>1, <2>3, SameDates
  <2> QED BY <2>4, Zenon DEF SameValue
<1>2. ASSUME IsTime(v)
      PROVE  \/ SameValue(v, x)
             \/ /\ IsLeapSecond(v) /\ w.library # "chrono"
                /\ x.nanos_since_midnight = NANOS_PER_DAY - 1
  <2>1. PICK n, p : TimeRange(n) /\ v = TimeRecord(n, p)
    BY <1>2 DEF IsTime
  <2>2. \/ w = ChronoRecord(ChronoSeconds(n), n - ChronoSeconds(n) * Second)
        \/ \E library \in {"jiff", "time"} : \E h, i, s, o :
              /\ ClockRange(h, i, s, o)
              /\ ClockSeconds(h, i, s) * Second + o = Clamped(n)
              /\ w = ClockRecord(library, h, i, s, o)
    <3>1. w \in Converted(TimeRecord(n, p))
      BY <2>1, Zenon
    <3>2. TimeRange(n)
      BY <2>1
    <3>3. \/ w.type \in Finals
          \/ w = ChronoRecord(ChronoSeconds(n), n - ChronoSeconds(n) * Second)
          \/ \E library \in {"jiff", "time"} : \E h, i, s, o :
              /\ ClockRange(h, i, s, o)
              /\ ClockSeconds(h, i, s) * Second + o = Clamped(n)
              /\ Clock(library, Clamped(n)) = ClockRecord(library, h, i, s, o)
              /\ w = ClockRecord(library, h, i, s, o)
      BY <3>1, <3>2, TimeInto
    <3> QED BY <1>0, <3>3, Zenon
  <2>3. v.type = "Time" /\ v.nanos_since_midnight = n
    BY <2>1, TimeFields
  <2>4. CASE w = ChronoRecord(ChronoSeconds(n), n - ChronoSeconds(n) * Second)
    <3> DEFINE s == ChronoSeconds(n)
               o == n - ChronoSeconds(n) * Second
    <3>1. ChronoRange(s, o) /\ s * Second + o = n
      BY <2>1, ChronoOfNanos, Zenon
    <3>2. x \in Converted(ChronoRecord(s, o))
      BY <2>4, Zenon
    <3> HIDE DEF s, o
    <3>3. PICK q : x = TimeRecord(s * Second + o, q)
      BY <3>1, <3>2, ChronoFrom
    <3>4. x.nanos_since_midnight = n
      <4>1. TimeRecord(s * Second + o, q).nanos_since_midnight = s * Second + o
        BY TimeFields
      <4> QED BY <3>1, <3>3, <4>1, Zenon
    <3> QED BY <2>3, <3>4, Zenon DEF SameValue
  <2>5. CASE \E library \in {"jiff", "time"} : \E h, i, s, o :
              /\ ClockRange(h, i, s, o)
              /\ ClockSeconds(h, i, s) * Second + o = Clamped(n)
              /\ w = ClockRecord(library, h, i, s, o)
    <3>1. PICK library \in {"jiff", "time"} : \E h, i, s, o :
              /\ ClockRange(h, i, s, o)
              /\ ClockSeconds(h, i, s) * Second + o = Clamped(n)
              /\ w = ClockRecord(library, h, i, s, o)
      BY <2>5
    <3>2. PICK h, i, s, o : /\ ClockRange(h, i, s, o)
                            /\ ClockSeconds(h, i, s) * Second + o = Clamped(n)
                            /\ w = ClockRecord(library, h, i, s, o)
      BY <3>1
    <3>3. x \in Converted(ClockRecord(library, h, i, s, o)) /\ ClockRange(h, i, s, o)
      BY <3>2, Zenon
    <3>4. PICK q : x = TimeRecord(ClockSeconds(h, i, s) * Second + o, q)
      BY <3>3, ClockFrom
    <3>5. x.nanos_since_midnight = Clamped(n)
      <4>1. TimeRecord(ClockSeconds(h, i, s) * Second + o, q).nanos_since_midnight
              = ClockSeconds(h, i, s) * Second + o
        BY TimeFields
      <4> QED BY <3>2, <3>4, <4>1, Zenon
    <3>6. w.library # "chrono"
      <4>1. w.library = library
        BY <3>2, ClockFields
      <4>2. library # "chrono"
        OBVIOUS
      <4> QED BY <4>1, <4>2
    <3>7. CASE n < NANOS_PER_DAY
      <4>1. Clamped(n) = n
        BY <2>1, <3>7, ClampedIs, Zenon
      <4> QED BY <2>3, <3>5, <4>1, Zenon DEF SameValue
    <3>8. CASE ~(n < NANOS_PER_DAY)
      <4>1. Clamped(n) = NANOS_PER_DAY - 1
        BY <2>1, <3>8, ClampedIs, Zenon
      <4>2. n >= NANOS_PER_DAY
        BY <2>1, <3>8, DayOfNanos DEF TimeRange
      <4>3. IsLeapSecond(v)
        BY <2>3, <4>2, Zenon DEF IsLeapSecond
      <4> QED BY <3>5, <3>6, <4>1, <4>3, Zenon
    <3> QED BY <3>7, <3>8
  <2> QED BY <2>2, <2>4, <2>5
<1>3. ASSUME IsStamp(v) PROVE SameValue(v, x)
  <2>1. PICK n, p : n \in Int /\ I64(n) /\ v = UtcTimestamp(n, p)
    BY <1>3 DEF IsStamp
  <2>2. PICK library \in Libs : w = LibraryTimestamp(library, n)
    <3>1. w \in Converted(UtcTimestamp(n, p)) /\ n \in Int /\ I64(n)
      BY <2>1, Zenon
    <3>2. w.type \in Finals \/ \E library \in Libs : w = LibraryTimestamp(library, n)
      BY <3>1, StampInto
    <3> QED BY <1>0, <3>2
  <2>3. PICK q : x = UtcTimestamp(n, q)
    <3>1. x \in Converted(LibraryTimestamp(library, n)) /\ n \in Int
      BY <2>1, <2>2, Zenon
    <3>2. (I64(n) /\ \E q : x = UtcTimestamp(n, q)) \/ (~I64(n) /\ x = OutOfRange)
      BY <3>1, StampFrom
    <3> QED BY <2>1, <3>2
  <2>4. v.type = "UtcTimestamp" /\ v.unix_nanos = n /\ x.unix_nanos = n
    BY <2>1, <2>3, StampFields
  <2> QED BY <2>4, Zenon DEF SameValue
<1>4. ASSUME IsDecimal(v), v.exponent <= 0 PROVE SameValue(v, x)
  <2>1. PICK m, e : m \in Int /\ I64(m) /\ e \in Int /\ I8(e) /\ v = Decimal(m, e)
    BY <1>4 DEF IsDecimal
  <2>2. v.type = "Decimal" /\ v.exponent = e
    BY <2>1, DecimalFields
  <2>3. \/ w = BigDecimal(m, -e)
        \/ -e \in Nat /\ w = RustRecord(m, -e)
    <3>1. w \in Converted(Decimal(m, e)) /\ m \in Int /\ I64(m) /\ e \in Int /\ I8(e)
      BY <2>1, Zenon
    <3>2. \/ w.type \in Finals
          \/ w = BigDecimal(m, -e)
          \/ -e \in Nat /\ -e <= RUST_DECIMAL_SCALE /\ w = RustRecord(m, -e)
          \/ e > 0 /\ w = RustRecord(m * Pow10[e], 0)
      BY <3>1, DecimalInto
    <3>3. ~(e > 0)
      BY <1>4, <2>1, <2>2
    <3> QED BY <1>0, <3>2, <3>3, Zenon
  <2>4. -e \in Int /\ -(-e) = e
    BY <2>1
  <2> DEFINE s == -e
  <2>5. s \in Int /\ -s = e
    BY <2>4
  <2>6. w = BigDecimal(m, s) \/ (s \in Nat /\ w = RustRecord(m, s))
    BY <2>3
  <2> HIDE DEF s
  <2>7. x = Decimal(m, e)
    <3>1. CASE w = BigDecimal(m, s)
      <4>1. x \in Converted(BigDecimal(m, s)) /\ m \in Int /\ s \in Int
        BY <2>1, <2>5, <3>1, Zenon
      <4>2. \/ I64(m) /\ I8(-s) /\ x = Decimal(m, -s)
            \/ ~(I64(m) /\ I8(-s)) /\ x = OutOfRange
        BY <4>1, BigDecimalFrom
      <4> QED BY <2>1, <2>5, <4>2, Zenon
    <3>2. CASE s \in Nat /\ w = RustRecord(m, s)
      <4>1. x \in Converted(RustRecord(m, s)) /\ m \in Int /\ s \in Nat
        BY <2>1, <3>2, Zenon
      <4>2. \/ I64(m) /\ x = Decimal(m, -s)
            \/ ~I64(m) /\ x = OutOfRange
        BY <4>1, RustDecimalFrom
      <4> QED BY <2>1, <2>5, <4>2, Zenon
    <3> QED BY <2>6, <3>1, <3>2
  <2> QED BY <2>1, <2>2, <2>7, Zenon DEF SameValue
<1> QED BY <1>0, <1>1, <1>2, <1>3, <1>4, Zenon DEF IsRead

\* Whatever the library a value is of, it is named in the value.
LEMMA Named ==
  ASSUME NEW library, NEW a, NEW b, NEW c, NEW d
  PROVE  /\ "library" \in DOMAIN LibraryDateRecord(library, a, b, c)
         /\ "library" \in DOMAIN ClockRecord(library, a, b, c, d)
         /\ "library" \in DOMAIN ChronoRecord(a, b)
         /\ "library" \in DOMAIN LibraryTimestamp(library, a)
<1> QED BY DEF LibraryDateRecord, ClockRecord, ChronoRecord, LibraryTimestamp

\* What a library's value is converted to is converted to no value of that
\* library that is not it, unless it is a leap second of chrono's before the
\* last second of the day.
LEMMA BroughtComesBack ==
  ASSUME NEW v, IsOfLibrary(v), NEW w \in Converted(v), NEW x \in Converted(w), SameLibrary(v, x)
  PROVE  \/ x = v
         \/ /\ v.type = "LibraryTime" /\ v.library = "chrono"
            /\ v.nano >= Second /\ v.seconds < LAST_SECOND
<1>0. w.type \notin Finals
  BY NothingOfFinals, Zenon
<1>00. v.type \in {"LibraryDate", "LibraryTime", "LibraryTimestamp", "BigDecimal", "RustDecimal"}
  BY TypesOf, Zenon DEF IsOfLibrary
<1>000. /\ v.type = x.type /\ x.type \notin Finals
        /\ "library" \in DOMAIN v => v.library = x.library
  <2>1. v.type = x.type /\ ("library" \in DOMAIN v => v.library = x.library)
    BY Zenon DEF SameLibrary
  <2>2. v.type \notin Finals
    <3>1. v.type \in {"Date", "Time", "UtcTimestamp", "Decimal", "LibraryDate", "LibraryTime",
                      "LibraryTimestamp", "BigDecimal", "RustDecimal"}
      BY <1>00, Zenon
    <3> QED BY <3>1, ConvertedTypes
  <2> QED BY <2>1, <2>2, Zenon
<1>1. ASSUME IsLibraryDate(v) PROVE x = v
  <2>1. PICK library \in Libs : \E y, m, k : v = LibraryDateRecord(library, y, m, k)
    BY <1>1, SMT DEF IsLibraryDate
  <2>2. PICK y, m, k : v = LibraryDateRecord(library, y, m, k)
    BY <2>1
  <2>3. w = DateRecord(y, m, k) /\ ValidDate(y, m, k)
    <3>1. w \in Converted(LibraryDateRecord(library, y, m, k))
      BY <2>2, Zenon
    <3>2. \/ w = OutOfRange /\ ~ValidDate(y, m, k)
          \/ w = DateRecord(y, m, k) /\ ValidDate(y, m, k)
      BY <3>1, DateFrom
    <3> QED BY <1>0, <3>2, RefusedIsFinal, Zenon
  <2>4. PICK other \in Libs : x = LibraryDateRecord(other, y, m, k)
    <3>1. x \in Converted(DateRecord(y, m, k)) /\ ValidDate(y, m, k)
      BY <2>3, Zenon
    <3>2. x.type \in Finals \/ \E other \in Libs : x = LibraryDateRecord(other, y, m, k)
      BY <3>1, DateInto
    <3> QED BY <1>000, <3>2
  <2>5. v.library = library /\ x.library = other
    BY <2>2, <2>4, LibraryDateFields
  <2>6. "library" \in DOMAIN v
    BY <2>2, Named
  <2> QED BY <1>000, <2>2, <2>4, <2>5, <2>6, Zenon
<1>2. ASSUME IsChronoTime(v)
      PROVE  \/ x = v
             \/ /\ v.type = "LibraryTime" /\ v.library = "chrono"
                /\ v.nano >= Second /\ v.seconds < LAST_SECOND
  <2>1. PICK s, o : ChronoRange(s, o) /\ v = ChronoRecord(s, o)
    BY <1>2 DEF IsChronoTime
  <2>2. /\ v.type = "LibraryTime" /\ v.library = "chrono" /\ v.seconds = s /\ v.nano = o
        /\ "library" \in DOMAIN v
    <3>1. /\ ChronoRecord(s, o).type = "LibraryTime" /\ ChronoRecord(s, o).library = "chrono"
          /\ ChronoRecord(s, o).seconds = s /\ ChronoRecord(s, o).nano = o
      BY ChronoFields
    <3>2. "library" \in DOMAIN ChronoRecord(s, o)
      BY Named
    <3> QED BY <2>1, <3>1, <3>2, Zenon
  <2> DEFINE n == s * Second + o
  <2>3. TimeRange(n) /\ \E p : w = TimeRecord(n, p)
    <3>1. w \in Converted(ChronoRecord(s, o)) /\ ChronoRange(s, o)
      BY <2>1, Zenon
    <3> QED BY <3>1, ChronoFrom
  <2> SUFFICES ASSUME ~(o >= Second /\ s < LAST_SECOND) PROVE x = v
    BY <2>2, Zenon
  <2>4. ChronoSeconds(n) = s /\ n - s * Second = o
    <3>1. /\ s \in Int /\ 0 <= s /\ s <= LAST_SECOND /\ o \in Int /\ 0 <= o /\ o < 2 * Second
      BY <2>1 DEF ChronoRange
    <3>2. Second \in Int /\ Second > 0 /\ LAST_SECOND \in Int
      BY DayOfNanos, SMT DEF LAST_SECOND
    <3>3. s * Second \in Int
      BY <3>1, <3>2
    <3>4. n - s * Second = o
      BY <3>1, <3>3
    <3>5. CASE o < Second
      <4>1. n \div Second = s
        BY <3>1, <3>5, DivideBySecond
      <4> HIDE DEF n
      <4>2. ChronoSeconds(n) = s
        BY <3>1, <3>2, <4>1 DEF ChronoSeconds, Lesser
      <4> QED BY <3>4, <4>2
    <3>6. CASE ~(o < Second)
      <4>1. s = LAST_SECOND
        BY <3>1, <3>2, <3>6
      <4>2. o - Second \in Int /\ 0 <= o - Second /\ o - Second < Second
        BY <3>1, <3>2, <3>6
      <4>3. n = (s + 1) * Second + (o - Second)
        <5>1. (s + 1) * Second = s * Second + Second
          BY <3>1, <3>2, SMTT(30)
        <5> QED BY <3>1, <3>2, <3>3, <5>1
      <4>4. s + 1 \in Int
        BY <3>1
      <4>5. n \div Second = s + 1
        <5> DEFINE a == s + 1
                   b == o - Second
        <5>1. (a * Second + b) \div Second = a
          <6>1. a \in Int /\ b \in Int /\ 0 <= b /\ b < Second
            BY <4>2, <4>4
          <6> HIDE DEF a, b
          <6> QED BY <6>1, DivideBySecond
        <5> QED BY <4>3, <5>1
      <4> HIDE DEF n
      <4>6. ChronoSeconds(n) = s
        BY <3>1, <3>2, <4>1, <4>5 DEF ChronoSeconds, Lesser
      <4> QED BY <3>4, <4>6
    <3> QED BY <3>5, <3>6
  <2>5. PICK p : w = TimeRecord(n, p)
    BY <2>3
  <2> HIDE DEF n
  <2>6. \/ x.type \in Finals
        \/ x = ChronoRecord(ChronoSeconds(n), n - ChronoSeconds(n) * Second)
        \/ \E library \in {"jiff", "time"} : \E h, i, s1, o1 : x = ClockRecord(library, h, i, s1, o1)
    <3>1. x \in Converted(TimeRecord(n, p)) /\ TimeRange(n)
      BY <2>3, <2>5, Zenon
    <3>2. \/ x.type \in Finals
          \/ x = ChronoRecord(ChronoSeconds(n), n - ChronoSeconds(n) * Second)
          \/ \E library \in {"jiff", "time"} : \E h, i, s1, o1 :
              /\ ClockRange(h, i, s1, o1)
              /\ ClockSeconds(h, i, s1) * Second + o1 = Clamped(n)
              /\ Clock(library, Clamped(n)) = ClockRecord(library, h, i, s1, o1)
              /\ x = ClockRecord(library, h, i, s1, o1)
      BY <3>1, TimeInto
    <3> QED BY <3>2, Zenon
  <2>7. ASSUME NEW library \in {"jiff", "time"},
               \E h, i, s1, o1 : x = ClockRecord(library, h, i, s1, o1)
        PROVE  FALSE
    <3>1. PICK h, i, s1, o1 : x = ClockRecord(library, h, i, s1, o1)
      BY <2>7
    <3>2. x.library = library
      BY <3>1, ClockFields
    <3>3. library # "chrono"
      OBVIOUS
    <3> QED BY <1>000, <2>2, <3>2, <3>3
  <2>8. x = ChronoRecord(ChronoSeconds(n), n - ChronoSeconds(n) * Second)
    BY <1>000, <2>6, <2>7, Zenon
  <2> QED BY <2>1, <2>4, <2>8, Zenon
<1>3. ASSUME IsClockTime(v) PROVE x = v
  <2>1. PICK library \in {"jiff", "time"} : \E h, i, s, o :
           ClockRange(h, i, s, o) /\ v = ClockRecord(library, h, i, s, o)
    BY <1>3 DEF IsClockTime
  <2>2. PICK h, i, s, o : ClockRange(h, i, s, o) /\ v = ClockRecord(library, h, i, s, o)
    BY <2>1
  <2>3. v.library = library /\ "library" \in DOMAIN v
    <3>1. ClockRecord(library, h, i, s, o).library = library
      BY ClockFields
    <3>2. "library" \in DOMAIN ClockRecord(library, h, i, s, o)
      BY Named
    <3> QED BY <2>2, <3>1, <3>2, Zenon
  <2> DEFINE n == ClockSeconds(h, i, s) * Second + o
  <2>4. TimeRange(n) /\ \E p : w = TimeRecord(n, p)
    <3>1. w \in Converted(ClockRecord(library, h, i, s, o)) /\ ClockRange(h, i, s, o)
      BY <2>2, Zenon
    <3> QED BY <3>1, ClockFrom
  <2>5. n \in Int /\ n < NANOS_PER_DAY /\ Clock(library, n) = ClockRecord(library, h, i, s, o)
    <3>1. ClockRange(h, i, s, o)
      BY <2>2
    <3> QED BY <3>1, NanosOfClock
  <2> HIDE DEF n
  <2>6. Clamped(n) = n
    BY <2>4, <2>5, ClampedIs
  <2>7. PICK p : w = TimeRecord(n, p)
    BY <2>4
  <2>8. \/ x.type \in Finals
        \/ x = ChronoRecord(ChronoSeconds(n), n - ChronoSeconds(n) * Second)
        \/ \E other \in {"jiff", "time"} : \E h1, i1, s1, o1 :
             /\ Clock(other, n) = ClockRecord(other, h1, i1, s1, o1)
             /\ x = ClockRecord(other, h1, i1, s1, o1)
    <3>1. x \in Converted(TimeRecord(n, p)) /\ TimeRange(n)
      BY <2>4, <2>7, Zenon
    <3>2. \/ x.type \in Finals
          \/ x = ChronoRecord(ChronoSeconds(n), n - ChronoSeconds(n) * Second)
          \/ \E other \in {"jiff", "time"} : \E h1, i1, s1, o1 :
              /\ ClockRange(h1, i1, s1, o1)
              /\ ClockSeconds(h1, i1, s1) * Second + o1 = Clamped(n)
              /\ Clock(other, Clamped(n)) = ClockRecord(other, h1, i1, s1, o1)
              /\ x = ClockRecord(other, h1, i1, s1, o1)
      BY <3>1, TimeInto
    <3> QED BY <2>6, <3>2, Zenon
  <2>9. x # ChronoRecord(ChronoSeconds(n), n - ChronoSeconds(n) * Second)
    <3>1. ASSUME x = ChronoRecord(ChronoSeconds(n), n - ChronoSeconds(n) * Second) PROVE FALSE
      <4>1. x.library = "chrono"
        BY <3>1, ChronoFields
      <4>2. library # "chrono"
        OBVIOUS
      <4> QED BY <1>000, <2>3, <4>1, <4>2
    <3> QED BY <3>1
  <2>10. PICK other \in {"jiff", "time"} : \E h1, i1, s1, o1 :
             /\ Clock(other, n) = ClockRecord(other, h1, i1, s1, o1)
             /\ x = ClockRecord(other, h1, i1, s1, o1)
    BY <1>000, <2>8, <2>9, Zenon
  <2>11. x = Clock(other, n) /\ x.library = other
    BY <2>10, ClockFields
  <2>12. other = library
    BY <1>000, <2>3, <2>11
  <2> QED BY <2>2, <2>5, <2>11, <2>12, Zenon
<1>4. ASSUME IsLibraryStamp(v) PROVE x = v
  <2>1. PICK library \in Libs, n \in Int : v = LibraryTimestamp(library, n)
    BY <1>4, Zenon DEF IsLibraryStamp
  <2>2. v.library = library /\ "library" \in DOMAIN v
    BY <2>1, StampFields, Named
  <2>3. I64(n) /\ \E p : w = UtcTimestamp(n, p)
    <3>1. w \in Converted(LibraryTimestamp(library, n))
      BY <2>1, Zenon
    <3>2. (I64(n) /\ \E p : w = UtcTimestamp(n, p)) \/ (~I64(n) /\ w = OutOfRange)
      BY <3>1, StampFrom
    <3> QED BY <1>0, <3>2, RefusedIsFinal, Zenon
  <2>4. PICK p : w = UtcTimestamp(n, p)
    BY <2>3
  <2>5. PICK other \in Libs : x = LibraryTimestamp(other, n)
    <3>1. x \in Converted(UtcTimestamp(n, p)) /\ I64(n)
      BY <2>3, <2>4, Zenon
    <3>2. x.type \in Finals \/ \E other \in Libs : x = LibraryTimestamp(other, n)
      BY <3>1, StampInto
    <3> QED BY <1>000, <3>2
  <2>6. x.library = other
    BY <2>5, StampFields
  <2> QED BY <1>000, <2>1, <2>2, <2>5, <2>6, Zenon
<1>5. ASSUME IsBigDecimal(v) PROVE x = v
  <2>1. PICK d \in Int, s \in Int : v = BigDecimal(d, s)
    BY <1>5, Zenon DEF IsBigDecimal
  <2> DEFINE e == -s
  <2>2. e \in Int /\ -e = s
    BY <2>1
  <2>3. I64(d) /\ I8(e) /\ w = Decimal(d, e)
    <3>1. w \in Converted(BigDecimal(d, s))
      BY <2>1, Zenon
    <3>2. \/ I64(d) /\ I8(-s) /\ w = Decimal(d, -s)
          \/ ~(I64(d) /\ I8(-s)) /\ w = OutOfRange
      BY <3>1, BigDecimalFrom
    <3> QED BY <1>0, <3>2, RefusedIsFinal, Zenon
  <2> HIDE DEF e
  <2>4. x \in Converted(Decimal(d, e)) /\ I64(d) /\ e \in Int /\ I8(e)
    BY <2>2, <2>3, Zenon
  <2>5. \/ x.type \in Finals
        \/ x = BigDecimal(d, -e)
        \/ x = RustRecord(d, -e)
        \/ x = RustRecord(d * Pow10[e], 0)
    <3>1. \/ x.type \in Finals
          \/ x = BigDecimal(d, -e)
          \/ -e \in Nat /\ -e <= RUST_DECIMAL_SCALE /\ x = RustRecord(d, -e)
          \/ e > 0 /\ x = RustRecord(d * Pow10[e], 0)
      BY <2>4, DecimalInto
    <3> QED BY <3>1, Zenon
  <2>6. x.type = "BigDecimal"
    BY <1>000, <2>1, DecimalFields
  <2>7. \A a, b : x # RustRecord(a, b)
    <3> SUFFICES ASSUME NEW a, NEW b, x = RustRecord(a, b) PROVE FALSE
      OBVIOUS
    <3>1. x.type = "RustDecimal"
      BY RustDecimalIs
    <3> QED BY <2>6, <3>1
  <2>8. x = BigDecimal(d, -e)
    BY <1>000, <2>5, <2>7, Zenon
  <2> QED BY <2>1, <2>2, <2>8, Zenon
<1>6. ASSUME IsRustDecimal(v) PROVE x = v
  <2>1. PICK m \in Int, s \in Nat : s <= I8_MAX /\ v = RustRecord(m, s)
    BY <1>6, Zenon DEF IsRustDecimal
  <2> DEFINE e == -s
  <2>2. e \in Int /\ -e = s /\ I8(e) /\ ~(e > 0)
    BY <2>1, ValuesAssumption DEF I8
  <2>3. I64(m) /\ w = Decimal(m, e)
    <3>1. w \in Converted(RustRecord(m, s))
      BY <2>1, Zenon
    <3>2. (I64(m) /\ w = Decimal(m, -s)) \/ (~I64(m) /\ w = OutOfRange)
      BY <3>1, RustDecimalFrom
    <3> QED BY <1>0, <3>2, RefusedIsFinal, Zenon
  <2> HIDE DEF e
  <2>4. x \in Converted(Decimal(m, e)) /\ I64(m) /\ e \in Int /\ I8(e)
    BY <2>2, <2>3, Zenon
  <2>5. \/ x.type \in Finals
        \/ x = BigDecimal(m, -e)
        \/ x = RustRecord(m, -e)
    <3>1. \/ x.type \in Finals
          \/ x = BigDecimal(m, -e)
          \/ -e \in Nat /\ -e <= RUST_DECIMAL_SCALE /\ x = RustRecord(m, -e)
          \/ e > 0 /\ x = RustRecord(m * Pow10[e], 0)
      BY <2>4, DecimalInto
    <3> QED BY <2>2, <3>1, Zenon
  <2>6. x.type = "RustDecimal"
    BY <1>000, <2>1, RustDecimalIs
  <2>7. x # BigDecimal(m, -e)
    <3>1. BigDecimal(m, -e).type = "BigDecimal"
      BY DecimalFields
    <3> QED BY <2>6, <3>1
  <2>8. x = RustRecord(m, -e)
    BY <1>000, <2>5, <2>7, Zenon
  <2> QED BY <2>1, <2>2, <2>8, Zenon
<1> QED BY <1>1, <1>2, <1>3, <1>4, <1>5, <1>6, Zenon DEF IsOfLibrary

LEMMA DoesNotFitIs ==
  ASSUME NEW v
  PROVE  /\ v.type = "LibraryDate" /\ ~IsYear(v.year) => DoesNotFit(v)
         /\ v.type = "LibraryTimestamp" /\ ~I64(v.nanos) => DoesNotFit(v)
         /\ v.type = "BigDecimal" /\ (~I64(v.digits) \/ ~I8(-v.scale)) => DoesNotFit(v)
         /\ v.type = "RustDecimal" /\ ~I64(v.mantissa) => DoesNotFit(v)
<1>1. v.type = "LibraryDate" /\ ~IsYear(v.year) => DoesNotFit(v)
  BY SMT DEF DoesNotFit
<1>2. v.type = "LibraryTimestamp" /\ ~I64(v.nanos) => DoesNotFit(v)
  BY SMT DEF DoesNotFit
<1>3. v.type = "BigDecimal" /\ (~I64(v.digits) \/ ~I8(-v.scale)) => DoesNotFit(v)
  BY SMT DEF DoesNotFit
<1>4. v.type = "RustDecimal" /\ ~I64(v.mantissa) => DoesNotFit(v)
  BY SMT DEF DoesNotFit
<1> QED BY <1>1, <1>2, <1>3, <1>4

\* Nothing is refused but what does not fit.
LEMMA RefusedDoesNotFit ==
  ASSUME NEW v, IsOfLibrary(v), OutOfRange \in Converted(v)
  PROVE  DoesNotFit(v)
<1>0. OutOfRange.type = "OutOfRange"
  BY DEF OutOfRange
<1>1. ASSUME IsLibraryDate(v) PROVE DoesNotFit(v)
  <2>1. PICK library \in Libs : \E y, m, k : /\ y \in 0 .. 9999 => ValidDate(y, m, k)
                                             /\ v = LibraryDateRecord(library, y, m, k)
    BY <1>1, SMTT(30) DEF IsLibraryDate
  <2>2. PICK y, m, k : /\ y \in 0 .. 9999 => ValidDate(y, m, k)
                       /\ v = LibraryDateRecord(library, y, m, k)
    BY <2>1, SMTT(30)
  <2>3. ~ValidDate(y, m, k)
    <3>1. OutOfRange \in Converted(LibraryDateRecord(library, y, m, k))
      BY <2>2, Zenon
    <3>2. \/ ~ValidDate(y, m, k)
          \/ OutOfRange = DateRecord(y, m, k)
      BY <3>1, DateFrom
    <3>3. OutOfRange # DateRecord(y, m, k)
      BY <1>0, SameDates
    <3> QED BY <3>2, <3>3
  <2>4. v.type = "LibraryDate" /\ v.year = y
    BY <2>2, LibraryDateFields
  <2>5. ~IsYear(v.year)
    BY <2>2, <2>3, <2>4 DEF IsYear
  <2> QED BY <2>4, <2>5, DoesNotFitIs
<1>2. ASSUME IsChronoTime(v) PROVE FALSE
  <2>1. PICK s, o : ChronoRange(s, o) /\ v = ChronoRecord(s, o)
    BY <1>2 DEF IsChronoTime
  <2>2. PICK p : OutOfRange = TimeRecord(s * Second + o, p)
    <3>1. OutOfRange \in Converted(ChronoRecord(s, o)) /\ ChronoRange(s, o)
      BY <2>1, Zenon
    <3> QED BY <3>1, ChronoFrom
  <2> QED BY <1>0, <2>2, TimeFields
<1>3. ASSUME IsClockTime(v) PROVE FALSE
  <2>1. PICK library \in {"jiff", "time"} : \E h, i, s, o :
           ClockRange(h, i, s, o) /\ v = ClockRecord(library, h, i, s, o)
    BY <1>3 DEF IsClockTime
  <2>2. PICK h, i, s, o : ClockRange(h, i, s, o) /\ v = ClockRecord(library, h, i, s, o)
    BY <2>1
  <2>3. PICK p : OutOfRange = TimeRecord(ClockSeconds(h, i, s) * Second + o, p)
    <3>1. OutOfRange \in Converted(ClockRecord(library, h, i, s, o)) /\ ClockRange(h, i, s, o)
      BY <2>2, Zenon
    <3> QED BY <3>1, ClockFrom
  <2> QED BY <1>0, <2>3, TimeFields
<1>4. ASSUME IsLibraryStamp(v) PROVE DoesNotFit(v)
  <2>1. PICK library \in Libs, n \in Int : v = LibraryTimestamp(library, n)
    BY <1>4, Zenon DEF IsLibraryStamp
  <2>2. ~I64(n)
    <3>1. OutOfRange \in Converted(LibraryTimestamp(library, n))
      BY <2>1, Zenon
    <3>2. (\E p : OutOfRange = UtcTimestamp(n, p)) \/ ~I64(n)
      BY <3>1, StampFrom
    <3>3. \A p : OutOfRange # UtcTimestamp(n, p)
      BY <1>0, StampFields
    <3> QED BY <3>2, <3>3
  <2>3. v.type = "LibraryTimestamp" /\ v.nanos = n
    BY <2>1 DEF LibraryTimestamp
  <2> QED BY <2>2, <2>3, DoesNotFitIs
<1>5. ASSUME IsBigDecimal(v) PROVE DoesNotFit(v)
  <2>1. PICK d \in Int, s \in Int : v = BigDecimal(d, s)
    BY <1>5, Zenon DEF IsBigDecimal
  <2>2. ~(I64(d) /\ I8(-s))
    <3>1. OutOfRange \in Converted(BigDecimal(d, s))
      BY <2>1, Zenon
    <3>2. OutOfRange = Decimal(d, -s) \/ ~(I64(d) /\ I8(-s))
      BY <3>1, BigDecimalFrom
    <3>3. OutOfRange # Decimal(d, -s)
      BY <1>0, DecimalFields
    <3> QED BY <3>2, <3>3
  <2>3. v.type = "BigDecimal" /\ v.digits = d /\ v.scale = s
    BY <2>1, DecimalFields
  <2>4. ~I64(v.digits) \/ ~I8(-v.scale)
    BY <2>2, <2>3, Zenon
  <2> QED BY <2>3, <2>4, DoesNotFitIs, Zenon
<1>6. ASSUME IsRustDecimal(v) PROVE DoesNotFit(v)
  <2>1. PICK m \in Int, s \in Nat : v = RustRecord(m, s)
    BY <1>6, Zenon DEF IsRustDecimal
  <2>2. ~I64(m)
    <3>1. OutOfRange \in Converted(RustRecord(m, s))
      BY <2>1, Zenon
    <3>2. OutOfRange = Decimal(m, -s) \/ ~I64(m)
      BY <3>1, RustDecimalFrom
    <3>3. OutOfRange # Decimal(m, -s)
      BY <1>0, DecimalFields
    <3> QED BY <3>2, <3>3
  <2>3. v.type = "RustDecimal" /\ v.mantissa = m
    BY <2>1, RustDecimalIs
  <2> QED BY <2>2, <2>3, DoesNotFitIs
<1> QED BY <1>1, <1>2, <1>3, <1>4, <1>5, <1>6, Zenon DEF IsOfLibrary

\* The message is one there is, its scope is within it, and a chain is a
\* value that was read or brought and what is made of it, step by step.
ChainOfConversions ==
  /\ fields \in Messages
  /\ scope.start \in Nat /\ scope.end \in Nat /\ scope.end <= Len(fields)
  /\ Len(chain) <= 3
  /\ Len(chain) >= 1 => IF asked = <<>> THEN IsLibraryValue(chain[1]) ELSE IsRead(chain[1])
  /\ Len(chain) >= 2 => chain[2] \in Converted(chain[1])
  /\ Len(chain) >= 3 => chain[3] \in Converted(chain[2])

\* A field that is found is a sequence of bytes.
LEMMA GottenIsBytes ==
  ASSUME ChainOfConversions, NEW tag, Slots(tag) # {}
  PROVE  get(tag) \in Seq(Byte)
<1>1. fields \in Seq([tag : Nat, value : Seq(Byte)])
  BY TypedAccessAssumption DEF ChainOfConversions
<1>2. Slots(tag) \subseteq scope.start .. scope.end - 1
  BY DEF Slots
<1>3. scope.start \in Nat /\ scope.end \in Nat /\ scope.end <= Len(fields)
  BY DEF ChainOfConversions
<1>4. Slots(tag) \subseteq Nat
  BY <1>2, <1>3
<1>5. find(tag) \in Slots(tag)
  BY <1>4, LeastProperties DEF find
<1>6. find(tag) + 1 \in 1 .. Len(fields)
  <2>1. find(tag) \in scope.start .. scope.end - 1
    BY <1>2, <1>5
  <2> QED BY <1>3, <2>1
<1> DEFINE f == fields[find(tag) + 1]
<1>7. f \in [tag : Nat, value : Seq(Byte)]
  <2> DEFINE S == [tag : Nat, value : Seq(Byte)]
             i == find(tag) + 1
  <2>1. fields \in Seq(S) /\ i \in 1 .. Len(fields)
    BY <1>1, <1>6
  <2> HIDE DEF S, i
  <2>2. fields[i] \in S
    BY <2>1
  <2> QED BY <2>2 DEF S, i
<1> HIDE DEF f
<1>8. f.value \in Seq(Byte)
  BY <1>7
<1> QED BY <1>8 DEF get, f

LEMMA ConversionStep ==
  ASSUME ReadFirst, ChainOfConversions, [Next]_vars
  PROVE  ChainOfConversions'
<1>0. chain \in Seq({chain[i] : i \in DOMAIN chain}) /\ Len(chain) \in Nat
  BY DEF ReadFirst
<1>1. CASE \E start, end \in 0 .. Len(fields) + 1 : scope_between(start, end)
  <2>1. PICK start \in 0 .. Len(fields) + 1, end \in 0 .. Len(fields) + 1 : scope_between(start, end)
    BY <1>1
  <2>2. /\ scope' = [start |-> start, end |-> end] /\ end <= Len(fields)
        /\ fields' = fields /\ asked' = asked /\ chain' = chain
    BY <2>1 DEF scope_between
  <2>3. scope'.start = start /\ scope'.end = end
    BY <2>2
  <2>4. start \in Nat /\ end \in Nat
    <3>1. fields \in Seq([tag : Nat, value : Seq(Byte)])
      BY TypedAccessAssumption DEF ChainOfConversions
    <3>2. Len(fields) \in Nat
      BY <3>1
    <3> QED BY <3>2
  <2> QED BY <2>2, <2>3, <2>4 DEF ChainOfConversions
<1>2. CASE Read
  <2>1. PICK getter \in Getters, tag \in Tags :
               asked' = <<getter, tag>> /\ chain' = <<Get(getter, tag)>>
    BY <1>2 DEF Read
  <2>2. fields' = fields /\ scope' = scope
    BY <1>2 DEF Read
  <2>3. IsRead(Get(getter, tag))
    BY GetIsRead, GottenIsBytes
  <2>4. asked' # <<>>
    BY <2>1
  <2> DEFINE got == Get(getter, tag)
  <2>5. chain' = <<got>> /\ IsRead(got)
    BY <2>1, <2>3
  <2> HIDE DEF got
  <2>6. chain'[1] = got /\ Len(chain') = 1
    BY <2>5
  <2>7. Len(chain') <= 3 /\ ~(Len(chain') >= 2) /\ ~(Len(chain') >= 3)
    BY <2>6
  <2>8. IsRead(chain'[1])
    BY <2>5, <2>6
  <2>9. /\ fields \in Messages /\ scope.start \in Nat /\ scope.end \in Nat
        /\ scope.end <= Len(fields)
    BY DEF ChainOfConversions
  <2>10. /\ fields' \in Messages /\ scope'.start \in Nat /\ scope'.end \in Nat
         /\ scope'.end <= Len(fields')
    BY <2>2, <2>9, Zenon
  <2> QED BY <2>4, <2>7, <2>8, <2>10, Zenon DEF ChainOfConversions, IsRead, IsLibraryValue
<1>3. CASE Bring
  <2>1. PICK value \in LibraryValues : chain' = <<value>>
    BY <1>3 DEF Bring
  <2>2. chain = <<>> /\ asked' = asked /\ fields' = fields /\ scope' = scope
    BY <1>3 DEF Bring
  <2>3. asked = <<>>
    BY <2>2 DEF ReadFirst
  <2>4. IsLibraryValue(value)
    BY TypedAccessAssumption
  <2>5. chain'[1] = value /\ Len(chain') = 1
    BY <2>1
  <2>6. Len(chain') <= 3 /\ ~(Len(chain') >= 2) /\ ~(Len(chain') >= 3)
    BY <2>5
  <2>7. IsLibraryValue(chain'[1])
    BY <2>4, <2>5
  <2>8. /\ fields' \in Messages /\ scope'.start \in Nat /\ scope'.end \in Nat
        /\ scope'.end <= Len(fields')
    BY <2>2 DEF ChainOfConversions
  <2> QED BY <2>2, <2>3, <2>6, <2>7, <2>8, Zenon DEF ChainOfConversions, IsRead, IsLibraryValue
<1>4. CASE Convert
  <2>1. PICK v \in IntoLibrary(last) \cup FromLibrary(last) : chain' = Append(chain, v)
    BY <1>4 DEF Convert
  <2>2. /\ fields' = fields /\ scope' = scope /\ asked' = asked
        /\ chain # <<>> /\ Len(chain) < 3
    BY <1>4 DEF Convert
  <2>3. v \in Converted(chain[Len(chain)])
    BY <2>1 DEF Converted, last
  <2>4. Len(chain) = 1 \/ Len(chain) = 2
    <3> DEFINE S == {chain[i] : i \in DOMAIN chain}
    <3>1. chain \in Seq(S)
      BY <1>0
    <3> HIDE DEF S
    <3>2. Len(chain) # 0
      BY <2>2, <3>1
    <3> DEFINE l == Len(chain)
    <3>3. l \in Nat
      BY <1>0, Zenon
    <3>4. l # 0 /\ l < 3
      BY <2>2, <3>2, Zenon
    <3> HIDE DEF l
    <3>5. l = 1 \/ l = 2
      BY <3>3, <3>4
    <3> QED BY <3>5 DEF l
  <2> DEFINE S == {chain[i] : i \in DOMAIN chain} \cup {v}
  <2>5. chain \in Seq(S) /\ v \in S
    <3>1. {chain[i] : i \in DOMAIN chain} \subseteq S /\ v \in S
      OBVIOUS
    <3> HIDE DEF S
    <3> QED BY <1>0, <3>1, SeqMonotonic
  <2>6. /\ Len(chain') = Len(chain) + 1
        /\ \A i \in 1 .. Len(chain) : chain'[i] = chain[i]
        /\ chain'[Len(chain) + 1] = v
    <3> HIDE DEF S
    <3> QED BY <2>1, <2>5, AppendProperties
  <2>7. /\ fields' \in Messages /\ scope'.start \in Nat /\ scope'.end \in Nat
        /\ scope'.end <= Len(fields')
    BY <2>2 DEF ChainOfConversions
  <2>8. chain'[1] = chain[1]
    BY <2>4, <2>6
  <2>9. IF asked' = <<>> THEN IsLibraryValue(chain'[1]) ELSE IsRead(chain'[1])
    <3>1. IF asked = <<>> THEN IsLibraryValue(chain[1]) ELSE IsRead(chain[1])
      <4>1. Len(chain) >= 1
        BY <2>4
      <4> QED BY <4>1, Zenon DEF ChainOfConversions
    <3> QED BY <2>2, <2>8, <3>1, Zenon
  <2>10. chain'[2] \in Converted(chain'[1])
    <3>1. CASE Len(chain) = 1
      <4>1. chain'[2] = v /\ v \in Converted(chain[1])
        BY <2>3, <2>6, <3>1
      <4> QED BY <2>8, <4>1, Zenon
    <3>2. CASE Len(chain) = 2
      <4>1. chain'[2] = chain[2] /\ Len(chain) >= 2
        BY <2>6, <3>2
      <4>2. chain[2] \in Converted(chain[1])
        BY <4>1, Zenon DEF ChainOfConversions
      <4> QED BY <2>8, <4>1, <4>2, Zenon
    <3> QED BY <2>4, <3>1, <3>2
  <2>11. Len(chain') >= 3 => chain'[3] \in Converted(chain'[2])
    <3> SUFFICES ASSUME Len(chain') >= 3 PROVE chain'[3] \in Converted(chain'[2])
      OBVIOUS
    <3>1. Len(chain) = 2
      BY <2>4, <2>6
    <3>2. chain'[3] = v /\ chain'[2] = chain[2] /\ v \in Converted(chain[2])
      BY <2>3, <2>6, <3>1
    <3> QED BY <3>2, Zenon
  <2>12. Len(chain') <= 3
    BY <2>4, <2>6
  <2> QED BY <2>7, <2>9, <2>10, <2>11, <2>12, Zenon DEF ChainOfConversions, Converted, IntoLibrary,
          FromLibrary, IsRead, IsLibraryValue
<1>5. CASE UNCHANGED vars
  BY <1>5 DEF ChainOfConversions, vars
<1> QED BY <1>1, <1>2, <1>3, <1>4, <1>5 DEF Next

LEMMA ChainOfConversionsHolds == Spec => [](ReadFirst /\ ChainOfConversions)
<1>1. Init => ChainOfConversions
  <2> SUFFICES ASSUME Init PROVE ChainOfConversions
    OBVIOUS
  <2>1. fields \in Messages /\ chain = <<>> /\ scope = [start |-> 0, end |-> Len(fields)]
    BY DEF Init, WholeScope
  <2>2. fields \in Seq([tag : Nat, value : Seq(Byte)])
    BY <2>1, TypedAccessAssumption
  <2>3. scope.start = 0 /\ scope.end = Len(fields) /\ Len(fields) \in Nat
    BY <2>1, <2>2
  <2>4. Len(chain) = 0
    BY <2>1
  <2> QED BY <2>1, <2>3, <2>4 DEF ChainOfConversions
<1>2. ReadFirst /\ ChainOfConversions /\ [Next]_vars => ChainOfConversions'
  BY ConversionStep
<1> QED BY <1>1, <1>2, ReadFirstHolds, PTL DEF Spec

\* No conversion panics, or raises but for the field's value; a value that
\* goes to a library and back is the same but for leap seconds; and nothing
\* is refused but what does not fit: of every text, and of every value of the
\* libraries, for every width of the integers (interop/*.rs, refix-engine
\* message.rs:226).
THEOREM ConversionsKeep == Spec => []ConversionsKeepTheValue
<1>1. ReadFirst /\ ChainOfConversions => ConversionsKeepTheValue
  <2> SUFFICES ASSUME ReadFirst, ChainOfConversions PROVE ConversionsKeepTheValue
    OBVIOUS
  <2>0. Len(chain) \in Nat
    BY DEF ReadFirst
  <2>1. /\ Len(chain) <= 3
        /\ Len(chain) >= 1 /\ asked = <<>> => IsOfLibrary(chain[1])
        /\ Len(chain) >= 1 /\ asked # <<>> => IsRead(chain[1])
        /\ Len(chain) >= 2 => chain[2] \in Converted(chain[1])
        /\ Len(chain) >= 3 => chain[3] \in Converted(chain[2])
    BY LibraryKinds, Zenon DEF ChainOfConversions
  <2>2. NoPanic
    <3>1. Len(chain) >= 1 => IsConvertible(chain[1])
      <4>1. \A v : IsRead(v) => IsConvertible(v)
        BY Zenon DEF IsRead, IsConvertible
      <4>2. \A v : IsOfLibrary(v) => IsConvertible(v)
        BY Zenon DEF IsConvertible
      <4> QED BY <2>1, <4>1, <4>2, Zenon
    <3>2. Len(chain) >= 2 => Len(chain) >= 1
      BY <2>0
    <3>3. Len(chain) >= 2 => IsConvertible(chain[2])
      BY <2>1, <3>1, <3>2, Converts, Zenon
    <3>4. Len(chain) >= 3 => Len(chain) >= 2
      BY <2>0
    <3>5. Len(chain) >= 3 => IsConvertible(chain[3])
      BY <2>1, <3>3, <3>4, Converts, Zenon
    <3>6. ASSUME NEW i \in 1 .. Len(chain) PROVE IsConvertible(chain[i])
      <4>1. \/ i = 1 /\ Len(chain) >= 1
            \/ i = 2 /\ Len(chain) >= 2
            \/ i = 3 /\ Len(chain) >= 3
        <5> DEFINE l == Len(chain)
        <5>1. l \in Nat /\ l <= 3 /\ i \in 1 .. l
          BY <2>0, <2>1, Zenon
        <5> HIDE DEF l
        <5>2. \/ i = 1 /\ l >= 1
              \/ i = 2 /\ l >= 2
              \/ i = 3 /\ l >= 3
          BY <5>1
        <5> QED BY <5>2 DEF l
      <4> QED BY <3>1, <3>3, <3>5, <4>1, Zenon
    <3> QED BY <3>6, ValuesAreNoPanic, Zenon DEF NoPanic
  <2>3. ReadValueComesBack
    <3> SUFFICES ASSUME Len(chain) = 3, asked # <<>>
                 PROVE  \/ SameValue(chain[1], chain[3])
                        \/ /\ IsLeapSecond(chain[1]) /\ chain[2].library # "chrono"
                           /\ chain[3].nanos_since_midnight = NANOS_PER_DAY - 1
      BY Zenon DEF ReadValueComesBack
    <3>1. Len(chain) >= 1 /\ Len(chain) >= 2 /\ Len(chain) >= 3
      OBVIOUS
    <3>2. /\ IsRead(chain[1]) /\ chain[2] \in Converted(chain[1])
          /\ chain[3] \in Converted(chain[2])
      BY <2>1, <3>1, Zenon
    <3> QED BY <3>2, ReadComesBack, Zenon
  <2>4. BroughtValueComesBack
    <3> SUFFICES ASSUME Len(chain) = 3, asked = <<>>, SameLibrary(chain[1], chain[3])
                 PROVE  \/ chain[3] = chain[1]
                        \/ /\ chain[1].type = "LibraryTime" /\ chain[1].library = "chrono"
                           /\ chain[1].nano >= Second /\ chain[1].seconds < LAST_SECOND
      BY Zenon DEF BroughtValueComesBack
    <3>1. Len(chain) >= 1 /\ Len(chain) >= 2 /\ Len(chain) >= 3
      OBVIOUS
    <3>2. /\ IsOfLibrary(chain[1]) /\ chain[2] \in Converted(chain[1])
          /\ chain[3] \in Converted(chain[2])
      BY <2>1, <3>1, Zenon
    <3> QED BY <3>2, BroughtComesBack, Zenon
  <2>5. RefusedOnlyOutOfRange
    <3> SUFFICES ASSUME Len(chain) = 2, asked = <<>>, chain[2] = OutOfRange
                 PROVE  DoesNotFit(chain[1])
      BY Zenon DEF RefusedOnlyOutOfRange
    <3>1. Len(chain) >= 1 /\ Len(chain) >= 2
      OBVIOUS
    <3>2. IsOfLibrary(chain[1]) /\ OutOfRange \in Converted(chain[1])
      BY <2>1, <3>1, Zenon
    <3> QED BY <3>2, RefusedDoesNotFit
  <2> QED BY <2>2, <2>3, <2>4, <2>5, Zenon DEF ConversionsKeepTheValue
<1> QED BY <1>1, ChainOfConversionsHolds, PTL
=============================================================================
