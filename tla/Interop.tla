------------------------------- MODULE Interop -------------------------------
(***************************************************************************)
(* Conversions between the values of Values and types that are not refix's *)
(* (interop/*.rs), and into Python's (refix-engine/src/message.rs).  Of a  *)
(* library only the ranges of its types are modelled: a constructor gives  *)
(* None for what is outside of them, and an expect of None is Panic.       *)
(***************************************************************************)
EXTENDS Values

CONSTANTS
  RUST_DECIMAL_MAX,    \* the largest 96-bit number
  RUST_DECIMAL_SCALE   \* the most fraction digits rust_decimal has

ASSUME InteropAssumption ==
  /\ RUST_DECIMAL_MAX \in Nat /\ RUST_DECIMAL_MAX >= I64_MAX + 1
  /\ RUST_DECIMAL_SCALE \in 0 .. I8_MAX

OutOfRange == [type |-> "OutOfRange"]
Panic == [type |-> "Panic"]

expect(v) == IF v = None THEN Panic ELSE v
ok_or_out_of_range(v) == IF v = None THEN OutOfRange ELSE v

MILLIS == DIGITS
MICROS == 2 * DIGITS

\* The coarsest of seconds, millis, micros and nanos that holds nanos.
exact_precision(nanos) ==
  Least({p \in {0, MILLIS, MICROS} : nanos % unit_nanos(p) = 0} \cup {NANOS})

-----------------------------------------------------------------------------
(* The libraries' own types (external) *)

FirstYear(library) == IF library = "chrono" THEN -262143 ELSE -9999
LastYear(library) == IF library = "chrono" THEN 262142 ELSE 9999

LibraryDate(library, year, month, day) ==
  IF /\ year \in FirstYear(library) .. LastYear(library)
     /\ month \in 1 .. 12
     /\ day \in 1 .. days_in_month(year, month)
    THEN [type |-> "LibraryDate", library |-> library,
          year |-> year, month |-> month, day |-> day]
    ELSE None

LAST_SECOND == 86399

\* chrono holds a leap second as :59 and over a second of nanoseconds.
NaiveTime(seconds, nano) ==
  IF /\ seconds \in 0 .. LAST_SECOND /\ nano \in 0 .. 2 * Second - 1
     /\ nano >= Second => seconds % 60 = 59
    THEN [type |-> "LibraryTime", library |-> "chrono", seconds |-> seconds, nano |-> nano]
    ELSE None

CivilTime(library, hour, minute, second, nano) ==
  IF hour \in 0 .. 23 /\ minute \in 0 .. 59 /\ second \in 0 .. 59 /\ nano \in 0 .. Second - 1
    THEN [type |-> "LibraryTime", library |-> library,
          hour |-> hour, minute |-> minute, second |-> second, nano |-> nano]
    ELSE None

\* An i64 of nanoseconds is within the range of every library.
LibraryTimestamp(library, nanos) ==
  [type |-> "LibraryTimestamp", library |-> library, nanos |-> nanos]

BigDecimal(digits, scale) == [type |-> "BigDecimal", digits |-> digits, scale |-> scale]

RustDecimal(mantissa, scale) ==
  IF Abs(mantissa) <= RUST_DECIMAL_MAX /\ scale <= RUST_DECIMAL_SCALE
    THEN [type |-> "RustDecimal", mantissa |-> mantissa, scale |-> scale]
    ELSE None

\* v is a value its library has.
IsLibraryValue(v) ==
  \/ /\ v.type = "LibraryDate" /\ v.library \in {"chrono", "jiff", "time"}
     /\ v = LibraryDate(v.library, v.year, v.month, v.day)
  \/ v.type = "LibraryTime" /\ v.library = "chrono" /\ v = NaiveTime(v.seconds, v.nano)
  \/ /\ v.type = "LibraryTime" /\ v.library \in {"jiff", "time"}
     /\ v = CivilTime(v.library, v.hour, v.minute, v.second, v.nano)
  \/ /\ v.type = "LibraryTimestamp" /\ v.library \in {"chrono", "jiff", "time"}
     /\ v = LibraryTimestamp(v.library, v.nanos) /\ v.nanos \in Int
  \/ /\ v.type = "BigDecimal" /\ v = BigDecimal(v.digits, v.scale)
     /\ v.digits \in Int /\ v.scale \in Int
  \/ /\ v.type = "RustDecimal" /\ v = RustDecimal(v.mantissa, v.scale)
     /\ v.mantissa \in Int /\ v.scale \in Nat

-----------------------------------------------------------------------------
(* chrono *)

IntoChronoDate(date) == expect(LibraryDate("chrono", date.year, date.month, date.day))

FromChronoDate(date) ==
  ok_or_out_of_range(Date(date.year, date.month, date.day))

\* Fault: a leap second is not moved into the second before it.
IntoChronoTime_NoLeap(time) ==
  LET nanos == time.nanos_since_midnight
  IN  expect(NaiveTime(nanos \div Second, nanos % Second))

IntoChronoTime(time) ==
  LET nanos == time.nanos_since_midnight
      seconds == Lesser(nanos \div Second, LAST_SECOND)
  IN  expect(NaiveTime(seconds, nanos - seconds * Second))

FromChronoTime(time) ==
  LET nanos == time.seconds * Second + time.nano
  IN  expect(Time(nanos, exact_precision(nanos)))

IntoChronoTimestamp(timestamp) == LibraryTimestamp("chrono", timestamp.unix_nanos)

FromChronoTimestamp(timestamp) ==
  IF I64(timestamp.nanos)
    THEN UtcTimestamp(timestamp.nanos, exact_precision(timestamp.nanos))
    ELSE OutOfRange

-----------------------------------------------------------------------------
(* jiff and time, which have no leap second *)

ClampedToDay(time) == Lesser(time.nanos_since_midnight, NANOS_PER_DAY - 1)

Clock(library, nanos) ==
  LET seconds == nanos \div Second
  IN  CivilTime(library, seconds \div 3600, (seconds \div 60) % 60, seconds % 60, nanos % Second)

OfClock(time) ==
  LET nanos == (time.hour * 3600 + time.minute * 60 + time.second) * Second + time.nano
  IN  Time(nanos, exact_precision(nanos))

IntoJiffDate(date) == expect(LibraryDate("jiff", date.year, date.month, date.day))
FromJiffDate(date) == ok_or_out_of_range(Date(date.year, date.month, date.day))
IntoJiffTime(time) == expect(Clock("jiff", ClampedToDay(time)))
FromJiffTime(time) == expect(OfClock(time))
IntoJiffTimestamp(timestamp) == LibraryTimestamp("jiff", timestamp.unix_nanos)
FromJiffTimestamp(timestamp) ==
  IF I64(timestamp.nanos)
    THEN UtcTimestamp(timestamp.nanos, exact_precision(timestamp.nanos))
    ELSE OutOfRange

IntoTimeDate(date) == expect(LibraryDate("time", date.year, date.month, date.day))
FromTimeDate(date) == ok_or_out_of_range(Date(date.year, date.month, date.day))
IntoTimeTime(time) == expect(Clock("time", ClampedToDay(time)))
FromTimeTime(time) == expect(OfClock(time))
IntoUtcDateTime(timestamp) == LibraryTimestamp("time", timestamp.unix_nanos)
FromUtcDateTime(timestamp) ==
  IF I64(timestamp.nanos)
    THEN UtcTimestamp(timestamp.nanos, exact_precision(timestamp.nanos))
    ELSE OutOfRange

-----------------------------------------------------------------------------
(* bigdecimal and rust_decimal *)

I8(n) == -I8_MAX - 1 <= n /\ n <= I8_MAX

IntoBigDecimal(decimal) == BigDecimal(decimal.mantissa, -decimal.exponent)

FromBigDecimal(decimal) ==
  IF I64(decimal.digits) /\ I8(-decimal.scale)
    THEN Decimal(decimal.digits, -decimal.scale)
    ELSE OutOfRange

\* A positive exponent is written out as whole digits; a product past an
\* i128 is past 96 bits too.
IntoRustDecimal(decimal) ==
  LET power == Pow10[Abs(decimal.exponent)]
  IN  ok_or_out_of_range(
        IF decimal.exponent < 0 THEN RustDecimal(decimal.mantissa, -decimal.exponent)
        ELSE IF Abs(decimal.mantissa) > RUST_DECIMAL_MAX \div power THEN None
        ELSE RustDecimal(decimal.mantissa * power, 0))

FromRustDecimal(decimal) ==
  IF I64(decimal.mantissa) THEN Decimal(decimal.mantissa, -decimal.scale) ELSE OutOfRange

-----------------------------------------------------------------------------
(* Python's decimal.Decimal, datetime types and MonthYear *)

InvalidValue == [type |-> "InvalidValue"]
ValueError == [type |-> "ValueError"]
Some(v) == IF v = None THEN ValueError ELSE v

PyDateOf(year, month, day) ==
  IF year \in 1 .. 9999 /\ month \in 1 .. 12 /\ day \in 1 .. days_in_month(year, month)
    THEN [type |-> "PyDate", year |-> year, month |-> month, day |-> day]
    ELSE None

PyTimeOf(hms, microsecond) ==
  IF /\ hms[1] \in 0 .. 23 /\ hms[2] \in 0 .. 59 /\ hms[3] \in 0 .. 59
     /\ microsecond \in 0 .. Pow10[MICROS] - 1
    THEN [type |-> "PyTime", hms |-> hms, microsecond |-> microsecond]
    ELSE None

\* clock: the hour, minute and second, and the microsecond, truncated.
ClockTime(nanos) ==
  LET seconds == nanos \div Second
  IN  PyTimeOf(<<seconds \div 3600, (seconds \div 60) % 60, seconds % 60>>,
               (nanos % Second) \div unit_nanos(MICROS))

PyDecimal(decimal) == [type |-> "PyDecimal", text |-> DecimalText(decimal)]

PyDateTime(timestamp) ==
  LET date == DateOf(timestamp)
      day == PyDateOf(date.year, date.month, date.day)
      clock == ClockTime(TimeOf(timestamp).nanos_since_midnight)
  IN  IF day = None \/ clock = None THEN ValueError
      ELSE [type |-> "PyDateTime", date |-> day, time |-> clock]

\* Python's dates start at year 1.
PyDate(date) ==
  IF date.year = 0 THEN InvalidValue ELSE Some(PyDateOf(date.year, date.month, date.day))

\* Python's times stop before a leap second.
PyTime(time) == Some(ClockTime(ClampedToDay(time)))

PyNanos(value) ==
  [type |-> "PyInt", value |-> IF value.type = "Time" THEN value.nanos_since_midnight
                               ELSE value.unix_nanos]
=============================================================================
