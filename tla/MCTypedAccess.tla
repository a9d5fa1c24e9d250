---------------------------- MODULE MCTypedAccess ----------------------------
(***************************************************************************)
(* Texts for TypedAccess: dates about every kind of year and month end,    *)
(* timestamps on both sides of the i64 range, times about midnight and     *)
(* leap seconds, numbers about the i64 and i8 limits, and damaged ones.    *)
(* A nanosecond has three digits here, an i64 eighteen days of them.       *)
(***************************************************************************)
EXTENDS TypedAccess

Pad(n, width) == Zeros(width - Len(Decimals[n])) \o Decimals[n]

DateText(y, m, d) == Pad(y, 4) \o Pad(m, 2) \o Pad(d, 2)

SomeYears == {0, 1, 4, 99, 100, 399, 400, 1600, 1900, 1969, 1970, 1972,
              2000, 2100, 2400, 9999}
DateTexts ==
  {DateText(y, m, d) : y \in SomeYears, m \in {0, 1, 2, 3, 4, 7, 8, 12, 13}, d \in {0, 1, 28, 29, 30, 31, 32}}

TimeText(h, m, s, fraction) ==
  Pad(h, 2) \o <<COLON>> \o Pad(m, 2) \o <<COLON>> \o Pad(s, 2) \o fraction

Fractions == {<<>>, <<DOT>>, <<DOT, 48>>, <<DOT, 53>>, <<DOT, 57, 57, 57>>,
              <<DOT, 48, 49>>, <<DOT, 49, 50, 51, 52>>, <<DOT, 120>>, <<90>>}
TimeTexts ==
  {TimeText(h, m, s, f) : h \in {0, 23, 24}, m \in {0, 59, 60}, s \in {0, 59, 60, 61}, f \in Fractions}

\* The days on which the least and the largest i64 fall, and their neighbours,
\* about the epoch, and in year 0.
StampDates == {<<1969, 12, 13>>, <<1969, 12, 14>>, <<1969, 12, 15>>, <<1969, 12, 31>>,
               <<1970, 1, 1>>, <<1970, 1, 17>>, <<1970, 1, 18>>, <<1970, 1, 19>>,
               <<0, 1, 1>>, <<2026, 2, 29>>, <<9999, 12, 31>>}
StampTimes == {TimeText(h, m, s, f) : h \in {0, 8, 15, 23}, m \in {0, 20, 39, 40, 59},
                                      s \in {0, 59, 60}, f \in {<<>>, <<DOT, 57, 57, 57>>}}
StampTexts ==
  {DateText(d[1], d[2], d[3]) \o <<MINUS>> \o t : d \in StampDates, t \in StampTimes}

\* The digits of I64_MAX, one more and one less, with zeros and points.
Limits == {<<49, 53>> \o Zeros(8), <<49, 53>> \o Zeros(7) \o <<49>>, <<49, 52>> \o <<57, 57, 57, 57, 57, 57, 57, 57>>,
           <<49, 53>> \o Zeros(6) \o <<50>>, <<49, 53>> \o Zeros(9), <<48, 49, 53>> \o Zeros(8)}
Numbers(n) == UNION {[1 .. k -> {MINUS, DOT, 48, 49, 53}] : k \in 0 .. n}
NumberTexts ==
  {t \o <<>> : t \in Numbers(4)}
    \cup {s \o l : s \in {<<>>, <<MINUS>>, <<PLUS>>}, l \in Limits}
    \cup {Slice(l, 0, 1) \o <<DOT>> \o Slice(l, 1, Len(l)) : l \in Limits}
    \cup {Slice(l, 0, Len(l) - 2) \o <<DOT>> \o Slice(l, Len(l) - 2, Len(l)) : l \in Limits}
    \cup {<<48, DOT, 49>> \o Zeros(n) : n \in 0 .. 3}

MonthTexts ==
  {Pad(2026, 4) \o Pad(m, 2) \o rest :
     m \in {0, 2, 12, 13}, rest \in {<<>>, <<49>>, <<119>>, <<119, 48>>, <<119, 53>>, <<119, 54>>,
                                     <<50, 56>>, <<50, 57>>, <<119, 119>>, <<49, 50, 51>>}}

Words == {<<89>>, <<78>>, <<89, 32, 78>>, <<32>>, <<89, 32>>, <<89, 32, 32, 78>>, <<233>>, <<89, 32, 233>>}

Texts == DateTexts \cup TimeTexts \cup StampTexts \cup NumberTexts \cup MonthTexts \cup Words

Field(tag, value) == [tag |-> tag, value |-> value]

\* One field, and a tag that occurs twice between others.
MCMessages ==
  {<<Field(1, t)>> : t \in Texts}
    \cup {<<>>, <<Field(2, <<>>), Field(1, <<49>>), Field(2, <<89>>), Field(1, <<53>>)>>}

Made ==
  {LibraryDate(l, y, m, d) : l \in {"chrono", "jiff", "time"}, y \in {-1, 0, 4, 9999, 2026}, m \in {1, 12}, d \in {1, 31}}
    \cup {LibraryDate("chrono", y, 1, 1) : y \in {-262143, 10000, 65536, 67562}}
    \cup {NaiveTime(s, n) : s \in {0, 59, 86399}, n \in {0, 1, 10, 999, 1000, 1999}}
    \cup {CivilTime(l, h, 59, s, n) : l \in {"jiff", "time"}, h \in {0, 23}, s \in {0, 59}, n \in {0, 10, 999}}
    \cup {LibraryTimestamp(l, n) : l \in {"chrono", "jiff", "time"},
            n \in {-I64_MAX - 2, -I64_MAX - 1, -1, 0, 100, 1000, I64_MAX, I64_MAX + 1}}
    \cup {BigDecimal(n, s) : n \in {-I64_MAX - 2, -I64_MAX - 1, 0, 10, I64_MAX, I64_MAX + 1}, s \in -5 .. 5}
    \cup {RustDecimal(n, s) : n \in {-RUST_DECIMAL_MAX, -I64_MAX - 1, 0, 50, I64_MAX + 1}, s \in 0 .. 2}

MCLibraryValues == Made \ {None}
=============================================================================
