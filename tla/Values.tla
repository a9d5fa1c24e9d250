-------------------------------- MODULE Values --------------------------------
(***************************************************************************)
(* The types a field's bytes are read as (value/*.rs, message.rs): what    *)
(* parse makes of a text, None where it refuses it, and how values are     *)
(* compared and written.  Integers are scaled: I64_MAX and I8_MAX are the  *)
(* largest i64 and i8, and a nanosecond has 3 * DIGITS fraction digits.    *)
(***************************************************************************)
EXTENDS Bytes

CONSTANTS
  I64_MAX,  \* the largest i64; the least is one further from zero
  I8_MAX,   \* the largest i8
  DIGITS    \* a third of a nanosecond's fraction digits

ASSUME ValuesAssumption ==
  /\ I64_MAX \in Nat /\ I8_MAX \in Nat
  /\ DIGITS \in Nat \ {0}

DOT == 46
MINUS == 45
PLUS == 43
COLON == 58
SPACE == 32

None == [type |-> "None"]
NaN == -1

I64(n) == -I64_MAX - 1 <= n /\ n <= I64_MAX

Pow10[n \in Nat] == IF n = 0 THEN 1 ELSE 10 * Pow10[n - 1]

\* The digits of a natural number.
Decimals[n \in Nat] ==
  IF n < 10 THEN <<48 + n>> ELSE Append(Decimals[n \div 10], 48 + (n % 10))

Zeros(n) == [i \in 1 .. n |-> 48] \o <<>>

Abs(n) == IF n < 0 THEN -n ELSE n

\* number: the value of digits that are all digits, an empty text's being 0.
number(digits) == IF AllDigits(digits) THEN Number(digits) ELSE NaN

\* The same with checked_mul and checked_add: NaN past I64_MAX.
checked_number(digits) ==
  LET value[n \in 0 .. Len(digits)] ==
        IF n = 0 THEN 0
        ELSE IF value[n - 1] = NaN \/ digits[n] \notin Digit THEN NaN
        ELSE IF value[n - 1] > (I64_MAX - (digits[n] - 48)) \div 10 THEN NaN
        ELSE 10 * value[n - 1] + (digits[n] - 48)
  IN  value[Len(digits)]

-----------------------------------------------------------------------------
(* Decimal *)

Decimal(mantissa, exponent) ==
  [type |-> "Decimal", mantissa |-> mantissa, exponent |-> exponent]

\* What is before and after the first b of a text.
Before(text, b) ==
  LET at == Positions(text, 0, Len(text), b)
  IN  IF at = {} THEN text ELSE Slice(text, 0, Least(at))
After(text, b) ==
  LET at == Positions(text, 0, Len(text), b)
  IN  IF at = {} THEN <<>> ELSE Slice(text, Least(at) + 1, Len(text))

Negative(text) == text # <<>> /\ Head(text) = MINUS
Unsigned(text) == IF Negative(text) THEN Tail(text) ELSE text

ParseDecimal(text) ==
  LET whole == Before(Unsigned(text), DOT)
      fraction == After(Unsigned(text), DOT)
      mantissa == checked_number(whole \o fraction)
  IN  IF whole \o fraction = <<>> \/ Len(fraction) > I8_MAX \/ mantissa = NaN
        THEN None
        ELSE Decimal(IF Negative(text) THEN -mantissa ELSE mantissa, -Len(fraction))

\* Fault: equality as derived, scale and all.
normalized_Derived(d) == <<d.mantissa, d.exponent>>

\* The value without the trailing zeros its exponent has room for.
normalized(d) ==
  LET zeros == {k \in 0 .. Len(Decimals[Abs(d.mantissa)]) - 1 :
                  d.mantissa % Pow10[k] = 0 /\ d.exponent + k <= I8_MAX}
      stripped == CHOOSE k \in zeros : \A j \in zeros : j <= k
  IN  IF d.mantissa = 0 THEN <<0, 0>>
      ELSE <<d.mantissa \div Pow10[stripped], d.exponent + stripped>>

DecimalText(d) ==
  LET digits == Decimals[Abs(d.mantissa)]
      scale == Abs(d.exponent)
      text == IF d.exponent >= 0 THEN digits \o Zeros(scale)
              ELSE IF Len(digits) > scale
                THEN SubSeq(digits, 1, Len(digits) - scale) \o <<DOT>>
                       \o SubSeq(digits, Len(digits) - scale + 1, Len(digits))
                ELSE <<48, DOT>> \o Zeros(scale - Len(digits)) \o digits
  IN  IF d.mantissa >= 0 THEN text ELSE <<MINUS>> \o text

-----------------------------------------------------------------------------
(* Date, by Hinnant's algorithms *)

is_leap_year(year) == year % 4 = 0 /\ (year % 100 # 0 \/ year % 400 = 0)

days_in_month(year, month) ==
  IF month = 2 THEN (IF is_leap_year(year) THEN 29 ELSE 28)
  ELSE IF month \in {4, 6, 9, 11} THEN 30
  ELSE 31

Date(year, month, day) ==
  IF /\ year \in 0 .. 9999
     /\ month \in 1 .. 12
     /\ day \in 1 .. days_in_month(year, month)
    THEN [type |-> "Date", year |-> year, month |-> month, day |-> day]
    ELSE None

ParseDate(text) ==
  IF Len(text) # 8 THEN None
  ELSE Date(number(Slice(text, 0, 4)), number(Slice(text, 4, 6)), number(Slice(text, 6, 8)))

\* Years count from March, an era is 400 of them, and the epoch is day
\* 719468 of the first.
DAYS_PER_ERA == 146097
EPOCH == 719468

DaysInYears(n) == n * 365 + n \div 4 - n \div 100

\* Fault: January and February stay in the year they are written in.
days_since_epoch_January(date) ==
  LET year == date.year
      day_of_year == (153 * ((date.month + 9) % 12) + 2) \div 5 + date.day - 1
  IN  (year \div 400) * DAYS_PER_ERA + DaysInYears(year % 400) + day_of_year - EPOCH

days_since_epoch(date) ==
  LET year == IF date.month <= 2 THEN date.year - 1 ELSE date.year
      day_of_year == (153 * ((date.month + 9) % 12) + 2) \div 5 + date.day - 1
  IN  (year \div 400) * DAYS_PER_ERA + DaysInYears(year % 400) + day_of_year - EPOCH

from_days_since_epoch(days) ==
  LET era == (days + EPOCH) \div DAYS_PER_ERA
      day_of_era == (days + EPOCH) % DAYS_PER_ERA
      year_of_era == (day_of_era - (day_of_era \div 1460) + (day_of_era \div 36524)
                        - (day_of_era \div 146096)) \div 365
      day_of_year == day_of_era - DaysInYears(year_of_era)
      month_from_march == (5 * day_of_year + 2) \div 153
      month == IF month_from_march < 10 THEN month_from_march + 3 ELSE month_from_march - 9
  IN  Date(era * 400 + year_of_era + (IF month <= 2 THEN 1 ELSE 0), month,
           day_of_year - (153 * month_from_march + 2) \div 5 + 1)

-----------------------------------------------------------------------------
(* Time and TimePrecision *)

NANOS == 3 * DIGITS
Second == Pow10[NANOS]
NANOS_PER_DAY == 86400 * Second

\* What UtcTimestamp::date relies on: "an i64 of nanoseconds spans only years
\* 1677 to 2262", which begin 106,752 days from the epoch at the most.
ASSUME RangeAssumption == I64_MAX \div NANOS_PER_DAY <= 106751

unit_nanos(precision) == Pow10[NANOS - precision]

\* Time::new: a day has one more second when a leap second ends it.
Time(nanos, precision) ==
  IF nanos \in 0 .. 86401 * Second - 1
    THEN [type |-> "Time", nanos_since_midnight |-> nanos, precision |-> precision]
    ELSE None

\* The digits after the point; a point without digits, and more digits than
\* a nanosecond has, are refused.
Fraction(rest) ==
  IF rest = <<>> THEN 0
  ELSE IF Head(rest) # DOT \/ Len(rest) - 1 \notin 1 .. NANOS THEN NaN
  ELSE number(Tail(rest))

ParseTime(text) ==
  LET hour == number(Slice(text, 0, 2))
      minute == number(Slice(text, 3, 5))
      second == number(Slice(text, 6, 8))
      rest == Slice(text, 8, Len(text))
      precision == IF rest = <<>> THEN 0 ELSE Len(rest) - 1
  IN  IF \/ Len(text) < 8 \/ At(text, 2) # COLON \/ At(text, 5) # COLON
         \/ hour \notin 0 .. 23 \/ minute \notin 0 .. 59 \/ second \notin 0 .. 60
         \/ Fraction(rest) = NaN
        THEN None
        ELSE Time((hour * 3600 + minute * 60 + second) * Second
                    + Fraction(rest) * unit_nanos(precision), precision)

-----------------------------------------------------------------------------
(* UtcTimestamp *)

UtcTimestamp(unix_nanos, precision) ==
  [type |-> "UtcTimestamp", unix_nanos |-> unix_nanos, precision |-> precision]

\* Fault: the day is rounded towards zero.
DateOf_Truncated(timestamp) ==
  from_days_since_epoch(
    IF timestamp.unix_nanos < 0 THEN -((-timestamp.unix_nanos) \div NANOS_PER_DAY)
    ELSE timestamp.unix_nanos \div NANOS_PER_DAY)

\* UtcTimestamp::date and time.
DateOf(timestamp) == from_days_since_epoch(timestamp.unix_nanos \div NANOS_PER_DAY)
TimeOf(timestamp) == Time(timestamp.unix_nanos % NANOS_PER_DAY, timestamp.precision)

\* The i64 of days * NANOS_PER_DAY + nanos, computed in an i128.
FitsI64(days, nanos) ==
  LET last == I64_MAX \div NANOS_PER_DAY
      first == (-I64_MAX - 1) \div NANOS_PER_DAY
      later == IF nanos < NANOS_PER_DAY THEN days ELSE days + 1
      left == IF nanos < NANOS_PER_DAY THEN nanos ELSE nanos - NANOS_PER_DAY
  IN  /\ first <= later /\ later <= last
      /\ later = last => left <= I64_MAX % NANOS_PER_DAY
      /\ later = first => left >= (-I64_MAX - 1) % NANOS_PER_DAY

ParseUtcTimestamp(text) ==
  LET date == ParseDate(Slice(text, 0, 8))
      time == ParseTime(Slice(text, 9, Len(text)))
      days == days_since_epoch(date)
  IN  IF Len(text) < 9 \/ date = None \/ At(text, 8) # MINUS \/ time = None THEN None
      ELSE IF ~FitsI64(days, time.nanos_since_midnight) THEN None
      ELSE UtcTimestamp(days * NANOS_PER_DAY + time.nanos_since_midnight, time.precision)

-----------------------------------------------------------------------------
(* MonthYear *)

MonthYear(year, month, day, week) ==
  IF Date(year, month, IF day = NaN THEN 1 ELSE day) = None \/ week \notin {NaN} \cup 1 .. 5
    THEN None
    ELSE [type |-> "MonthYear", year |-> year, month |-> month, day |-> day, week |-> week]

ParseMonthYear(text) ==
  LET year == number(Slice(text, 0, 4))
      month == number(Slice(text, 4, 6))
      rest == Slice(text, 6, Len(text))
      W == 119
  IN  IF Len(text) < 6 \/ Len(rest) \notin {0, 2} THEN None
      ELSE IF rest = <<>> THEN MonthYear(year, month, NaN, NaN)
      ELSE IF Head(rest) = W /\ rest[2] \in Digit THEN MonthYear(year, month, NaN, rest[2] - 48)
      ELSE IF number(rest) = NaN THEN None
      ELSE MonthYear(year, month, number(rest), NaN)

-----------------------------------------------------------------------------
(* Text, integers, booleans and lists (message.rs, multiple_values.rs) *)

\* Bytes past ASCII stand for those that are no UTF-8.
ParseStr(text) ==
  IF \E i \in 1 .. Len(text) : text[i] > 127 THEN None ELSE [type |-> "Str", text |-> text]

Significant(digits) ==
  LET leading == {i \in 0 .. Len(digits) : \A j \in 1 .. i : digits[j] = 48}
  IN  SubSeq(digits, 1 + CHOOSE i \in leading : \A j \in leading : j <= i, Len(digits))

\* str::parse::<i64>: an optional sign and digits.
ParseInt(text) ==
  LET signed == text # <<>> /\ Head(text) \in {MINUS, PLUS}
      digits == IF signed THEN Tail(text) ELSE text
      magnitude == checked_number(digits)
  IN  IF digits = <<>> THEN None
      ELSE IF Negative(text) /\ Significant(digits) = Decimals[I64_MAX + 1] THEN [type |-> "Int", value |-> -I64_MAX - 1]
      ELSE IF magnitude = NaN THEN None
      ELSE [type |-> "Int", value |-> IF Negative(text) THEN -magnitude ELSE magnitude]

ParseBool(text) ==
  IF text \in {<<89>>, <<78>>} THEN [type |-> "Bool", value |-> text = <<89>>] ELSE None

\* str::split at every space.
SplitAt(text, b) ==
  LET ends == Positions(text, 0, Len(text), b) \cup {Len(text)}
      from[start \in 0 .. Len(text) + 1] ==
        IF start > Len(text) THEN <<>>
        ELSE LET end == Least({i \in ends : i >= start})
             IN  <<Slice(text, start, end)>> \o from[end + 1]
  IN  from[0]

ParseMultipleValues(text) ==
  IF ParseStr(text) = None \/ <<>> \in {SplitAt(text, SPACE)[i] : i \in 1 .. Len(SplitAt(text, SPACE))}
    THEN None
    ELSE [type |-> "MultipleValues", values |-> SplitAt(text, SPACE)]
=============================================================================
