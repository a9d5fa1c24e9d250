----------------------------- MODULE TypedAccess -----------------------------
(***************************************************************************)
(* Reading a field of a message as a value (message.rs, multiple_values.rs *)
(* and refix-engine/src/message.rs), and taking the value on to the types  *)
(* of another library and back (Interop).                                  *)
(*                                                                         *)
(* A field is its tag and the bytes of its value; slots count fields from  *)
(* 0.  chain holds what each step made of what the one before it made.     *)
(***************************************************************************)
EXTENDS Interop

CONSTANTS
  Messages,       \* sequences of [tag, value]
  Tags,           \* the tags asked for
  LibraryValues   \* values callers bring from other libraries

ASSUME TypedAccessAssumption ==
  /\ \A m \in Messages : m \in Seq([tag : Nat, value : Seq(Byte)])
  /\ \A v \in LibraryValues : IsLibraryValue(v)

VARIABLES
  fields,  \* the message read
  scope,   \* the scope it is read through
  asked,   \* the getter called, with its tag
  chain    \* a read value, what it was converted to, and that converted back

vars == <<fields, scope, asked, chain>>

Absent == [type |-> "Absent"]
Libraries == {"chrono", "jiff", "time", "bigdecimal", "rust_decimal", "python"}

WholeScope(message) == [start |-> 0, end |-> Len(message)]

Init ==
  /\ fields \in Messages
  /\ scope = WholeScope(fields)
  /\ asked = <<>>
  /\ chain = <<>>

\* RawMessage::scope_between, whose refusal leaves the caller with none.
scope_between(start, end) ==
  /\ chain = <<>> /\ scope = WholeScope(fields)
  /\ start <= end /\ end <= Len(fields)
  /\ scope' = [start |-> start, end |-> end]
  /\ UNCHANGED <<fields, asked, chain>>

Slots(tag) == {s \in scope.start .. scope.end - 1 : fields[s + 1].tag = tag}

\* Scope::find from the scope's start, where it finds one.
find(tag) == Least(Slots(tag))

get(tag) == fields[find(tag) + 1].value

-----------------------------------------------------------------------------
(* The getters.  A value that cannot be read is an error on the tag. *)

Outcome(tag, parsed) ==
  IF Slots(tag) = {} THEN Absent
  ELSE IF parsed = None THEN [type |-> "InvalidValue", tag |-> tag]
  ELSE parsed

get_str(tag) == Outcome(tag, ParseStr(get(tag)))

get_int(tag) ==
  Outcome(tag, IF ParseStr(get(tag)) = None THEN None ELSE ParseInt(get(tag)))

get_bool(tag) == Outcome(tag, ParseBool(get(tag)))
get_decimal(tag) == Outcome(tag, ParseDecimal(get(tag)))
get_utc_timestamp(tag) == Outcome(tag, ParseUtcTimestamp(get(tag)))
get_date(tag) == Outcome(tag, ParseDate(get(tag)))
get_time(tag) == Outcome(tag, ParseTime(get(tag)))
get_month_year(tag) == Outcome(tag, ParseMonthYear(get(tag)))
get_multiple_values(tag) == Outcome(tag, ParseMultipleValues(get(tag)))

Getters ==
  {"Str", "Int", "Bool", "Decimal", "UtcTimestamp", "Date", "Time", "MonthYear", "MultipleValues"}

Get(getter, tag) ==
  CASE getter = "Str" -> get_str(tag)
    [] getter = "Int" -> get_int(tag)
    [] getter = "Bool" -> get_bool(tag)
    [] getter = "Decimal" -> get_decimal(tag)
    [] getter = "UtcTimestamp" -> get_utc_timestamp(tag)
    [] getter = "Date" -> get_date(tag)
    [] getter = "Time" -> get_time(tag)
    [] getter = "MonthYear" -> get_month_year(tag)
    [] getter = "MultipleValues" -> get_multiple_values(tag)

Read ==
  /\ chain = <<>>
  /\ \E getter \in Getters : \E tag \in Tags :
       asked' = <<getter, tag>> /\ chain' = <<Get(getter, tag)>>
  /\ UNCHANGED <<fields, scope>>

\* A caller may make any value of its own; only a library's is of interest.
Bring ==
  /\ chain = <<>> /\ fields = <<>>
  /\ \E value \in LibraryValues : chain' = <<value>>
  /\ UNCHANGED <<fields, scope, asked>>

-----------------------------------------------------------------------------
last == chain[Len(chain)]

\* Every conversion of a value of the core that there is.
IntoLibrary(v) ==
  IF v.type = "Date" THEN {IntoChronoDate(v), IntoJiffDate(v), IntoTimeDate(v), PyDate(v)}
  ELSE IF v.type = "Time"
    THEN {IntoChronoTime(v), IntoJiffTime(v), IntoTimeTime(v), PyTime(v), PyNanos(v)}
  ELSE IF v.type = "UtcTimestamp"
    THEN {IntoChronoTimestamp(v), IntoJiffTimestamp(v), IntoUtcDateTime(v),
          PyDateTime(v), PyNanos(v)}
  ELSE IF v.type = "Decimal" THEN {IntoBigDecimal(v), IntoRustDecimal(v), PyDecimal(v)}
  ELSE {}

FromLibrary(v) ==
  IF v.type = "LibraryDate"
    THEN {IF v.library = "chrono" THEN FromChronoDate(v)
          ELSE IF v.library = "jiff" THEN FromJiffDate(v)
          ELSE FromTimeDate(v)}
  ELSE IF v.type = "LibraryTime"
    THEN {IF v.library = "chrono" THEN FromChronoTime(v)
          ELSE IF v.library = "jiff" THEN FromJiffTime(v)
          ELSE FromTimeTime(v)}
  ELSE IF v.type = "LibraryTimestamp"
    THEN {IF v.library = "chrono" THEN FromChronoTimestamp(v)
          ELSE IF v.library = "jiff" THEN FromJiffTimestamp(v)
          ELSE FromUtcDateTime(v)}
  ELSE IF v.type = "BigDecimal" THEN {FromBigDecimal(v)}
  ELSE IF v.type = "RustDecimal" THEN {FromRustDecimal(v)}
  ELSE {}

Convert ==
  /\ chain # <<>> /\ Len(chain) < 3
  /\ \E v \in IntoLibrary(last) \cup FromLibrary(last) : chain' = Append(chain, v)
  /\ UNCHANGED <<fields, scope, asked>>

Next ==
  \/ \E start, end \in 0 .. Len(fields) + 1 : scope_between(start, end)
  \/ Read \/ Bring \/ Convert

Spec == Init /\ [][Next]_vars

-----------------------------------------------------------------------------
\* What the getter was asked for, and the bytes it read.
AskedFor(getter) == asked # <<>> /\ asked[1] = getter /\ chain[1] # Absent
Text == get(asked[2])

NextDay(date) ==
  IF Date(date.year, date.month, date.day + 1) # None THEN Date(date.year, date.month, date.day + 1)
  ELSE IF Date(date.year, date.month + 1, 1) # None THEN Date(date.year, date.month + 1, 1)
  ELSE Date(date.year + 1, 1, 1)

\* A date read from a field has the number of days since 1970-01-01 that
\* counting one day at a time gives, and that number gives the date back
\* (date.rs:54, date.rs:70).
DatesCountTheDays ==
  (AskedFor("Date") /\ chain[1].type = "Date") =>
    LET days == days_since_epoch(chain[1])
        next == NextDay(chain[1])
    IN  /\ from_days_since_epoch(days) = chain[1]
        /\ next # None => days_since_epoch(next) = days + 1 /\ from_days_since_epoch(days + 1) = next
        /\ days_since_epoch(Date(1970, 1, 1)) = 0

\* A timestamp is read exactly when its date and its time are and an i64 of
\* nanoseconds holds it; its date and time are then those of the text, but
\* that a leap second is the first of the next day (utc_timestamp.rs:48).
TimestampsKeepDateAndTime ==
  AskedFor("UtcTimestamp") =>
    LET got == chain[1]
        date == ParseDate(Slice(Text, 0, 8))
        time == ParseTime(Slice(Text, 9, Len(Text)))
        wellFormed == Len(Text) >= 9 /\ At(Text, 8) = MINUS /\ date # None /\ time # None
        leap == time.nanos_since_midnight >= NANOS_PER_DAY
        day == IF leap THEN NextDay(date) ELSE date
        nanos == IF leap THEN time.nanos_since_midnight - NANOS_PER_DAY
                 ELSE time.nanos_since_midnight
        Order(d, n) == <<d.year, d.month, d.day, n>>
        Before4(s, t) == \E i \in 1 .. 4 : s[i] < t[i] /\ \A j \in 1 .. i - 1 : s[j] = t[j]
        At64(n) == Order(DateOf(UtcTimestamp(n, 0)), TimeOf(UtcTimestamp(n, 0)).nanos_since_midnight)
    IN  /\ got.type = "UtcTimestamp" =>
             /\ wellFormed
             /\ DateOf(got) = day
             /\ TimeOf(got) = Time(nanos, time.precision)
        /\ (wellFormed /\ got.type # "UtcTimestamp") =>
             \/ day = None
             \/ Before4(At64(I64_MAX), Order(day, nanos))
             \/ Before4(Order(day, nanos), At64(-I64_MAX - 1))

\* a and b are the same number, for those whose product fits.
SameNumber(a, b) ==
  IF a.exponent >= b.exponent
    THEN a.mantissa * Pow10[a.exponent - b.exponent] = b.mantissa
    ELSE b.mantissa * Pow10[b.exponent - a.exponent] = a.mantissa

Digits(text) == Before(Unsigned(text), DOT) \o After(Unsigned(text), DOT)

NotAbove(digits, limit) ==
  LET d == Significant(digits)
  IN  \/ Len(d) < Len(limit)
      \/ /\ Len(d) = Len(limit)
         /\ \/ d = limit
            \/ \E i \in 1 .. Len(d) : d[i] < limit[i] /\ SubSeq(d, 1, i - 1) = SubSeq(limit, 1, i - 1)

Small == {Decimal(m, e) : m \in {-10, -1, 0, 1, 5, 10, 50, 100, 1000}, e \in -I8_MAX - 1 .. I8_MAX}

\* A decimal is read exactly when its digits fit an i64 and its scale an i8;
\* it equals another exactly when they are the same number; and the text it
\* is written as reads back as it, scale included (decimal.rs:28, :54, :81).
DecimalsAreNumbers ==
  AskedFor("Decimal") =>
    LET got == chain[1]
        read == got.type = "Decimal"
    IN  /\ read <=> /\ Digits(Text) # <<>> /\ AllDigits(Digits(Text))
                    /\ Len(After(Unsigned(Text), DOT)) <= I8_MAX
                    /\ NotAbove(Digits(Text), Decimals[I64_MAX])
        /\ read => ParseDecimal(DecimalText(got)) = got
        /\ (read /\ Abs(got.mantissa) <= 1000) =>
             \A other \in Small :
               (normalized(got) = normalized(other)) <=> SameNumber(got, other)

SameValue(a, b) ==
  IF a.type = "Time" THEN a.nanos_since_midnight = b.nanos_since_midnight
  ELSE IF a.type = "UtcTimestamp" THEN a.unix_nanos = b.unix_nanos
  ELSE IF a.type = "Decimal" THEN normalized(a) = normalized(b)
  ELSE a = b

IsLeapSecond(v) == v.type = "Time" /\ v.nanos_since_midnight >= NANOS_PER_DAY

NoPanic == \A i \in 1 .. Len(chain) : chain[i] \notin {Panic, ValueError}

ReadValueComesBack ==
  (Len(chain) = 3 /\ asked # <<>>) =>
    \/ SameValue(chain[1], chain[3])
    \/ /\ IsLeapSecond(chain[1]) /\ chain[2].library # "chrono"
       /\ chain[3].nanos_since_midnight = NANOS_PER_DAY - 1
    \/ chain[2].type = "RustDecimal" /\ chain[3] = OutOfRange /\ ~I64(chain[2].mantissa)

SameLibrary(a, b) ==
  a.type = b.type /\ ("library" \in DOMAIN a => a.library = b.library)

BroughtValueComesBack ==
  (Len(chain) = 3 /\ asked = <<>> /\ SameLibrary(chain[1], chain[3])) =>
    \/ chain[3] = chain[1]
    \/ /\ chain[1].type = "LibraryTime" /\ chain[1].library = "chrono"
       /\ chain[1].nano >= Second /\ chain[1].seconds < LAST_SECOND

\* A library's value that is not in the range of the core's.
IsYear(year) == year \in 0 .. 9999
DoesNotFit(v) ==
  CASE v.type = "LibraryDate" -> ~IsYear(v.year)
    [] v.type = "LibraryTimestamp" -> ~I64(v.nanos)
    [] v.type = "BigDecimal" -> ~I64(v.digits) \/ ~I8(-v.scale)
    [] v.type = "RustDecimal" -> ~I64(v.mantissa)
    [] OTHER -> FALSE

RefusedOnlyOutOfRange ==
  (Len(chain) = 2 /\ asked = <<>> /\ chain[2] = OutOfRange) => DoesNotFit(chain[1])

\* No conversion panics, or raises but for the field's value; a value that
\* goes to a library and back is the same, except that a leap second clamps
\* to the end of the day where the library has none and that chrono's leap
\* seconds before 23:59 are moved to the next minute; and nothing is refused
\* but what does not fit (interop/*.rs, refix-engine message.rs:226).
ConversionsKeepTheValue ==
  NoPanic /\ ReadValueComesBack /\ BroughtValueComesBack /\ RefusedOnlyOutOfRange
=============================================================================
