--------------------------- MODULE TokenizerLemmas ---------------------------
(***************************************************************************)
(* Facts about the operators of module Tokenizer, for any bytes, separator *)
(* and set of length tags.  NextField is all there is to know about one    *)
(* turn of the loop of tokenize_fields.                                    *)
(***************************************************************************)
EXTENDS Tokenizer, BytesLemmas

FieldType == [tag : Nat, value_start : Nat, value_end : Nat]

\* A number that fits is a natural number.
LEMMA ParseU32 ==
  ASSUME NEW b \in Seq(Byte), NEW i \in Nat, NEW j \in Nat, i <= j, j <= Len(b)
  PROVE  parse_u32(Slice(b, i, j)) \in Nat \cup {None}
<1> DEFINE digits == Slice(b, i, j)
<1>1. AllDigits(digits) => digits \in Seq(Digit)
  BY SliceDigits
<1>2. AllDigits(digits) => Number(digits) \in Nat
  <2> HIDE DEF digits
  <2> QED BY <1>1, NumberIsNat
<1> HIDE DEF digits
<1>3. parse_u32(digits) \in Nat \cup {None}
  BY <1>2 DEF parse_u32
<1> QED BY <1>3 DEF digits

\* Where find_separator looks, and what it finds.
LEMMA FindSeparator ==
  ASSUME NEW b \in Seq(Byte), NEW i \in Nat, NEW sep
  PROVE  LET found == find_separator(b, i, sep)
         IN  \/ found = None /\ Positions(b, i, Len(b), sep) = {}
             \/ /\ found \in i .. Len(b) - 1 /\ At(b, found) = sep
                /\ Positions(b, i, found, sep) = {}
<1> DEFINE P == Positions(b, i, Len(b), sep)
<1>1. find_separator(b, i, sep) = IF P = {} THEN None ELSE Least(P)
  BY DEF find_separator
<1>2. CASE P # {}
  <2>1. Len(b) \in Int
    OBVIOUS
  <2>2. /\ Least(P) \in i .. Len(b) - 1 /\ At(b, Least(P)) = sep
        /\ \A k \in i .. Least(P) - 1 : At(b, k) # sep
    BY <1>2, <2>1, FirstPosition, Zenon
  <2> HIDE DEF P
  <2>3. Positions(b, i, Least(P), sep) = {}
    BY <2>2 DEF Positions
  <2> QED BY <1>1, <1>2, <2>2, <2>3
<1>3. CASE P = {}
  <2> HIDE DEF P
  <2>1. find_separator(b, i, sep) = None
    BY <1>1, <1>3
  <2> QED BY <1>3, <2>1 DEF P
<1> QED BY <1>2, <1>3

\* The end of the value that starts at i, when the field before it stated the
\* length d: only a value of that very length holds a separator.
LEMMA ValueEndProperties ==
  ASSUME NEW b \in Seq(Byte), NEW i \in Nat, i <= Len(b), NEW d \in Nat \cup {None}, NEW sep
  PROVE  LET e == ValueEnd(b, i, d, sep)
         IN  /\ e \in i .. Len(b)
             /\ e < Len(b) => At(b, e) = sep
             /\ Positions(b, i, e, sep) # {} => d # None /\ e - i = d
             /\ i < Len(b) /\ At(b, Len(b) - 1) = sep => e < Len(b)
<1> DEFINE by_length == IF d = None THEN None ELSE data_value_end(b, i, d, sep)
           by_scan == find_separator(b, i, sep)
           e == ValueEnd(b, i, d, sep)
<1>0. Len(b) \in Nat /\ None \notin Nat
  BY DEF None
<1>1. e = IF by_length # None THEN by_length
          ELSE IF by_scan # None THEN by_scan
          ELSE Len(b)
  BY Zenon DEF ValueEnd
<1>2. \/ by_length = None
      \/ d \in Nat /\ by_length = i + d /\ i + d < Len(b) /\ At(b, i + d) = sep
  <2>1. CASE d = None
    BY <2>1
  <2>2. CASE d # None
    <3>1. d \in Nat /\ by_length = data_value_end(b, i, d, sep)
      BY <2>2
    <3>2. CASE i + d < Len(b) /\ At(b, i + d) = sep
      <4>1. data_value_end(b, i, d, sep) = i + d
        BY <3>2 DEF data_value_end
      <4> QED BY <3>1, <3>2, <4>1
    <3>3. CASE ~(i + d < Len(b) /\ At(b, i + d) = sep)
      <4>1. data_value_end(b, i, d, sep) = None
        BY <3>3 DEF data_value_end
      <4> QED BY <3>1, <4>1
    <3> QED BY <3>2, <3>3
  <2> QED BY <2>1, <2>2
<1>3. \/ by_scan = None /\ Positions(b, i, Len(b), sep) = {}
      \/ /\ by_scan \in i .. Len(b) - 1 /\ At(b, by_scan) = sep
         /\ Positions(b, i, by_scan, sep) = {}
  BY FindSeparator
<1> HIDE DEF by_length, by_scan, e
<1>4. CASE by_length # None
  <2>1. d \in Nat /\ e = i + d /\ i + d < Len(b) /\ At(b, i + d) = sep
    BY <1>1, <1>2, <1>4
  <2> QED BY <1>0, <2>1 DEF e
<1>5. CASE by_length = None /\ by_scan # None
  <2>1. e = by_scan
    BY <1>1, <1>5
  <2> QED BY <1>0, <1>3, <1>5, <2>1 DEF e
<1>6. CASE by_length = None /\ by_scan = None
  <2>1. e = Len(b) /\ Positions(b, i, Len(b), sep) = {}
    BY <1>0, <1>1, <1>3, <1>6
  <2>2. i < Len(b) => At(b, Len(b) - 1) # sep
    BY <1>0, <2>1 DEF Positions
  <2> QED BY <1>0, <2>1, <2>2 DEF e
<1> QED BY <1>4, <1>5, <1>6

\* One turn of the loop, from i: the field taken begins at i and ends at a
\* separator or at the end of the bytes, and at the end only when they do not
\* end in a separator.
LEMMA NextField ==
  ASSUME NEW b \in Seq(Byte), NEW i \in Nat, NEW d \in Nat \cup {None}, NEW sep \in Byte,
         TagEnds(b, i, sep) # {}
  PROVE  LET f == next_field(b, i, d, sep)
         IN  /\ f \in FieldType
             /\ i < Len(b) /\ i <= f.value_start /\ f.value_start <= f.value_end
             /\ f.value_end <= Len(b)
             /\ f.value_end < Len(b) => At(b, f.value_end) = sep
             /\ Positions(b, f.value_start, f.value_end, sep) # {}
                  => d # None /\ f.value_end - f.value_start = d
             /\ At(b, Len(b) - 1) = sep /\ sep # EQUALS => f.value_end < Len(b)
<1> DEFINE T == TagEnds(b, i, sep)
           t == Least(T)
           f == next_field(b, i, d, sep)
           number == parse_u32(Slice(b, i, t))
<1>0. Len(b) \in Nat
  OBVIOUS
<1>1. t \in T /\ \A k \in T : t <= k
  <2>1. T \subseteq Nat
    BY DEF TagEnds
  <2> HIDE DEF T
  <2> QED BY <2>1, LeastProperties DEF T
<1> HIDE DEF t
<1>2. t \in i .. Len(b) - 1 /\ At(b, t) \in {EQUALS, sep}
  BY <1>1 DEF TagEnds
<1>3. t \in Nat /\ i <= t /\ t < Len(b)
  BY <1>0, <1>2
<1>4. Positions(b, i, t, sep) = {}
  <2> SUFFICES ASSUME NEW k \in i .. t - 1, At(b, k) = sep PROVE FALSE
    BY DEF Positions
  <2>1. k \in T
    BY <1>0, <1>3 DEF TagEnds
  <2> QED BY <1>1, <1>3, <2>1
<1>5. number \in Nat \cup {None}
  BY <1>3, ParseU32
<1> HIDE DEF T, number
<1>6. f = IF At(b, t) = EQUALS
            THEN Field(IF number = None THEN MALFORMED ELSE number, t + 1,
                       ValueEnd(b, t + 1, d, sep))
            ELSE Field(MALFORMED, i, t)
  BY Zenon DEF next_field, t, T, number
<1> HIDE DEF f
<1>7. CASE At(b, t) = EQUALS
  <2> DEFINE e == ValueEnd(b, t + 1, d, sep)
             tag == IF number = None THEN MALFORMED ELSE number
  <2>1. /\ e \in t + 1 .. Len(b)
        /\ e < Len(b) => At(b, e) = sep
        /\ Positions(b, t + 1, e, sep) # {} => d # None /\ e - (t + 1) = d
        /\ t + 1 < Len(b) /\ At(b, Len(b) - 1) = sep => e < Len(b)
    <3>1. t + 1 \in Nat /\ t + 1 <= Len(b)
      BY <1>0, <1>3
    <3> HIDE DEF e
    <3> QED BY <3>1, ValueEndProperties DEF e
  <2>2. tag \in Nat
    BY <1>5 DEF MALFORMED
  <2>3. f = [tag |-> tag, value_start |-> t + 1, value_end |-> e]
    BY <1>6, <1>7 DEF Field
  <2> HIDE DEF e, tag
  <2>4. /\ f \in FieldType /\ f.value_start = t + 1 /\ f.value_end = e
        /\ e \in Nat
    BY <1>0, <1>3, <2>1, <2>2, <2>3 DEF FieldType
  <2>5. At(b, Len(b) - 1) = sep /\ sep # EQUALS => t + 1 < Len(b)
    BY <1>0, <1>3, <1>7
  <2> QED BY <1>0, <1>3, <2>1, <2>4, <2>5 DEF f
<1>8. CASE At(b, t) # EQUALS
  <2>1. f = [tag |-> MALFORMED, value_start |-> i, value_end |-> t]
    BY <1>6, <1>8 DEF Field
  <2>2. f \in FieldType /\ f.value_start = i /\ f.value_end = t
    BY <1>3, <2>1 DEF FieldType, MALFORMED
  <2>3. At(b, t) = sep
    BY <1>2, <1>8
  <2> QED BY <1>0, <1>3, <1>4, <2>2, <2>3 DEF f
<1> QED BY <1>7, <1>8

\* A value ends by its stated length, or at the first separator.
ByLength(bytes, i, len, separator) ==
  len # None /\ i + len < Len(bytes) /\ At(bytes, i + len) = separator

EndsValue(b, i, len, separator, e) ==
  /\ ByLength(b, i, len, separator) => e = i + len
  /\ ~ByLength(b, i, len, separator) =>
       /\ e \in i .. Len(b) /\ \A k \in i .. e - 1 : At(b, k) # separator
       /\ e < Len(b) => At(b, e) = separator

\* ValueEnd is that end.
LEMMA ValueEndIs ==
  ASSUME NEW b \in Seq(Byte), NEW i \in Nat, i <= Len(b), NEW len \in Nat \cup {None},
         NEW separator
  PROVE  EndsValue(b, i, len, separator, ValueEnd(b, i, len, separator))
<1> DEFINE e == ValueEnd(b, i, len, separator)
           found == find_separator(b, i, separator)
           by_length == IF len = None THEN None ELSE data_value_end(b, i, len, separator)
<1>1. e = IF by_length # None THEN by_length ELSE IF found # None THEN found ELSE Len(b)
  BY DEF ValueEnd
<1>2. \/ found = None /\ Positions(b, i, Len(b), separator) = {}
      \/ /\ found \in i .. Len(b) - 1 /\ At(b, found) = separator
         /\ Positions(b, i, found, separator) = {}
  BY FindSeparator
<1>3. ByLength(b, i, len, separator) => by_length = i + len /\ i + len # None
  <2> SUFFICES ASSUME ByLength(b, i, len, separator) PROVE by_length = i + len /\ i + len # None
    OBVIOUS
  <2>1. len \in Nat /\ i + len \in Nat
    BY DEF ByLength
  <2> QED BY <2>1 DEF ByLength, data_value_end, None
<1>4. ~ByLength(b, i, len, separator) => by_length = None
  BY DEF ByLength, data_value_end
<1> HIDE DEF e, found, by_length
<1>5. ASSUME ByLength(b, i, len, separator) PROVE e = i + len
  BY <1>1, <1>3, <1>5
<1>6. ASSUME ~ByLength(b, i, len, separator)
      PROVE  /\ e \in i .. Len(b) /\ \A k \in i .. e - 1 : At(b, k) # separator
             /\ e < Len(b) => At(b, e) = separator
  <2>1. e = IF found # None THEN found ELSE Len(b)
    BY <1>1, <1>4, <1>6
  <2>2. CASE found = None /\ Positions(b, i, Len(b), separator) = {}
    <3>1. e = Len(b)
      BY <2>1, <2>2
    <3> QED BY <2>2, <3>1 DEF Positions
  <2>3. CASE /\ found \in i .. Len(b) - 1 /\ At(b, found) = separator
             /\ Positions(b, i, found, separator) = {}
    <3>1. e = found
      BY <2>1, <2>3 DEF None
    <3> QED BY <2>3, <3>1 DEF Positions
  <2> QED BY <1>2, <2>2, <2>3
<1> QED BY <1>5, <1>6 DEF e, EndsValue

\* The first "=" or separator from pos on.
LEMMA TagEndIs ==
  ASSUME NEW c \in Seq(Byte), NEW pos \in Nat, NEW separator, TagEnds(c, pos, separator) # {}
  PROVE  LET t == Least(TagEnds(c, pos, separator))
         IN  /\ t \in pos .. Len(c) - 1 /\ At(c, t) \in {EQUALS, separator}
             /\ \A k \in pos .. t - 1 : At(c, k) \notin {EQUALS, separator}
<1> DEFINE E == TagEnds(c, pos, separator)
           t == Least(E)
<1>1. E = {i \in pos .. Len(c) - 1 : At(c, i) \in {EQUALS, separator}}
  BY DEF TagEnds
<1>2. E \subseteq Nat /\ E # {}
  BY <1>1
<1> HIDE DEF E
<1>3. t \in E /\ \A n \in E : t <= n
  BY <1>2, LeastProperties
<1> HIDE DEF t
<1>4. t \in pos .. Len(c) - 1 /\ At(c, t) \in {EQUALS, separator}
  BY <1>1, <1>3
<1>5. ASSUME NEW k \in pos .. t - 1 PROVE At(c, k) \notin {EQUALS, separator}
  BY <1>1, <1>3, <1>4
<1> QED BY <1>4, <1>5 DEF t, E

\* The field at pos, by its first "=" or separator.
LEMMA NextFieldIs ==
  ASSUME NEW c, NEW pos, NEW len, NEW separator
  PROVE  LET t == Least(TagEnds(c, pos, separator))
             number == parse_u32(Slice(c, pos, t))
             f == next_field(c, pos, len, separator)
         IN  /\ At(c, t) = EQUALS =>
                  /\ f.tag = IF number = None THEN MALFORMED ELSE number
                  /\ f.value_start = t + 1
                  /\ f.value_end = ValueEnd(c, t + 1, len, separator)
                  /\ f = Field(f.tag, f.value_start, f.value_end)
             /\ At(c, t) # EQUALS => f = Field(MALFORMED, pos, t)
<1> DEFINE t == Least(TagEnds(c, pos, separator))
           number == parse_u32(Slice(c, pos, t))
           tag == IF number = None THEN MALFORMED ELSE number
           e == ValueEnd(c, t + 1, len, separator)
           f == next_field(c, pos, len, separator)
<1>1. f = IF At(c, t) = EQUALS THEN Field(tag, t + 1, e) ELSE Field(MALFORMED, pos, t)
  BY DEF next_field
<1>2. /\ Field(tag, t + 1, e).tag = tag /\ Field(tag, t + 1, e).value_start = t + 1
      /\ Field(tag, t + 1, e).value_end = e
  BY DEF Field
<1>3. CASE At(c, t) = EQUALS
  <2>1. f = Field(tag, t + 1, e)
    BY <1>1, <1>3
  <2> HIDE DEF f, tag, e
  <2>2. /\ f.tag = tag /\ f.value_start = t + 1 /\ f.value_end = e
    BY <1>2, <2>1
  <2>3. f = Field(f.tag, f.value_start, f.value_end)
    BY <2>1, <2>2
  <2> QED BY <1>3, <2>2, <2>3 DEF f, tag, e
<1>4. CASE At(c, t) # EQUALS
  BY <1>1, <1>4
<1> QED BY <1>3, <1>4
=============================================================================
